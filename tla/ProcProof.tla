------------------------------ MODULE ProcProof ------------------------------
(***************************************************************************)
(* Proofs about Proc for any number of harts and slots and any pids passed *)
(* to kill(): kernel stacks are exclusive and sched() does not panic; only *)
(* victims are killed, and every process has a parent that will wait.      *)
(***************************************************************************)
EXTENDS Proc, TLAPS

Point == {"user", "trapret", "fork", "setparent", "setrunnable", "exit",
          "reparent", "wakeinit", "wakeparent", "zombie", "wait", "scan",
          "havekids", "sleep", "kill"}
Filling == {"setparent", "setrunnable"}
Waiting == {"reparent", "wakeinit", "wakeparent", "zombie", "scan", "sleep"}

\* A CPU is in the kernel thread of c->proc or, behind its last swtch(), in
\* the scheduler: then p->lock is the CPU's, as it is whenever the thread is
\* inside sched().  Nobody else holds a p->lock across steps.
CpuInv ==
  /\ \A c \in CPU : cproc[c] # NoProc =>
       /\ sidx[c] = cproc[c]
       /\ state[cproc[c]] \notin {"UNUSED", "USED"}
       /\ sw[cproc[c]] = "none" => on[c] = cproc[c]
       /\ sw[cproc[c]] # "none" => plock[cproc[c]] = c
       /\ state[cproc[c]] = "RUNNING" => on[c] = cproc[c]
  /\ \A c \in CPU : on[c] # NoProc => on[c] = cproc[c]
  /\ \A c, d \in CPU : c # d /\ cproc[c] # NoProc => cproc[c] # cproc[d]
  /\ \A p \in Slot : plock[p] # NoCpu => cproc[plock[p]] = p /\ sw[p] # "none"
  /\ \A p \in Slot : state[p] = "RUNNING" => \E c \in CPU : cproc[c] = p

\* Where a thread that is not running was suspended fits its state.
Fits(s, w) ==
  /\ s = "UNUSED" => w = "none"
  /\ s = "USED" => w = "forkret"
  /\ s = "RUNNABLE" => w \in {"forkret", "yield", "sleep"}
  /\ s = "SLEEPING" => w = "sleep"
  /\ s = "ZOMBIE" <=> w = "exit"

SwInv == \A p \in Slot : Fits(state[p], sw[p])

\* The slot a fork() is filling in is USED, and no other fork()'s.
ForkInv ==
  \A p \in Slot : kpc[p] \in Filling =>
    /\ state[knp[p]] = "USED"
    /\ \A q \in Slot : kpc[q] \in Filling /\ knp[q] = knp[p] => q = p

\* wait_lock is held by the thread inside exit() or wait(), which is not
\* inside sched().
WaitLockInv ==
  /\ \A p \in Slot : kpc[p] \in Waiting =>
       wlock \in CPU /\ on[wlock] = p /\ sw[p] = "none"
  /\ wlock \in CPU => on[wlock] # NoProc /\ kpc[on[wlock]] \in Waiting

StackInv == TypeOK /\ CpuInv /\ SwInv /\ ForkInv /\ WaitLockInv

-----------------------------------------------------------------------------
(* Types *)

\* The initial values have their types.
LEMMA InitType ==
  ASSUME Init
  PROVE  TypeOK
<1>1. 1 \in Slot /\ 0 \in Nat /\ 1 \in Nat /\ 2 \in Nat /\ 1 \in 1 .. NPROC + 1
  BY ProcAssumption DEF Slot
<1>2. killed \in [Slot -> BOOLEAN] /\ kids \in [Slot -> BOOLEAN]
  BY Zenon DEF Init
<1>3. /\ state \in [Slot -> {"UNUSED", "USED", "SLEEPING", "RUNNABLE", "RUNNING",
                            "ZOMBIE"}]
      /\ sw \in [Slot -> {"none", "forkret", "yield", "sleep", "exit"}]
      /\ kpc \in [Slot -> Point]
  BY Zenon DEF Init, Point
<1>4. /\ chan \in [Slot -> Slot \cup {NoProc}] /\ parent \in [Slot -> Slot \cup {NoProc}]
      /\ pid \in [Slot -> Nat] /\ nextpid \in Nat /\ kpid \in [Slot -> Nat]
  BY <1>1, Zenon DEF Init
<1>5. /\ plock \in [Slot -> CPU \cup {NoCpu}] /\ wlock \in CPU \cup {NoCpu}
      /\ cproc \in [CPU -> Slot \cup {NoProc}] /\ on \in [CPU -> Slot \cup {NoProc}]
      /\ sidx \in [CPU -> Slot]
  BY <1>1, Zenon DEF Init
<1>6. /\ ki \in [Slot -> 1 .. NPROC + 1] /\ kj \in [Slot -> 1 .. NPROC + 1]
      /\ knp \in [Slot -> Slot]
  BY <1>1, Zenon DEF Init, initproc
<1> QED
  BY <1>2, <1>3, <1>4, <1>5, <1>6, Zenon DEF TypeOK, Point

\* TypeOK, one piece per group of variables.
State == {"UNUSED", "USED", "SLEEPING", "RUNNABLE", "RUNNING", "ZOMBIE"}
TableOK ==
  /\ state \in [Slot -> State] /\ chan \in [Slot -> Slot \cup {NoProc}]
  /\ killed \in [Slot -> BOOLEAN] /\ pid \in [Slot -> Nat]
  /\ parent \in [Slot -> Slot \cup {NoProc}] /\ nextpid \in Nat
ThreadsOK ==
  /\ plock \in [Slot -> CPU \cup {NoCpu}] /\ wlock \in CPU \cup {NoCpu}
  /\ kpc \in [Slot -> Point]
  /\ sw \in [Slot -> {"none", "forkret", "yield", "sleep", "exit"}]
CpusOK ==
  /\ cproc \in [CPU -> Slot \cup {NoProc}] /\ on \in [CPU -> Slot \cup {NoProc}]
  /\ sidx \in [CPU -> Slot]
LocalsOK ==
  /\ ki \in [Slot -> 1 .. NPROC + 1] /\ kj \in [Slot -> 1 .. NPROC + 1]
  /\ knp \in [Slot -> Slot] /\ kids \in [Slot -> BOOLEAN] /\ kpid \in [Slot -> Nat]

\* The pieces are the whole.
LEMMA Pieces == TypeOK <=> TableOK /\ ThreadsOK /\ CpusOK /\ LocalsOK
BY Zenon DEF TypeOK, TableOK, ThreadsOK, CpusOK, LocalsOK, State, Point

\* A loop variable is a slot until the loop is over, and all slots are then
\* behind it.
LEMMA Loops ==
  ASSUME LocalsOK, NEW q \in Slot
  PROVE  /\ (~(ki[q] > NPROC) \/ ki[q] <= NPROC) =>
              ki[q] \in Slot /\ ki[q] + 1 \in 1 .. NPROC + 1
         /\ ~(kj[q] > NPROC) => kj[q] \in Slot /\ kj[q] + 1 \in 1 .. NPROC + 1
         /\ ki[q] > NPROC => \A x \in Slot : x < ki[q]
         /\ kj[q] > NPROC => \A x \in Slot : x < kj[q]
<1>1. ASSUME NEW k \in 1 .. NPROC + 1, ~(k > NPROC) \/ k <= NPROC
      PROVE  k \in Slot /\ k + 1 \in 1 .. NPROC + 1
  BY <1>1, ProcAssumption DEF Slot
<1>2. ASSUME NEW k \in 1 .. NPROC + 1, k > NPROC
      PROVE  \A x \in Slot : x < k
  BY <1>2, ProcAssumption DEF Slot
<1>3. ki[q] \in 1 .. NPROC + 1 /\ kj[q] \in 1 .. NPROC + 1
  BY Zenon DEF LocalsOK
<1> QED
  BY <1>1, <1>2, <1>3, Zenon

\* Each step keeps the types.
LEMMA NextType ==
  ASSUME TypeOK, [Next]_vars
  PROVE  TypeOK'
<1>0. TableOK /\ ThreadsOK /\ CpusOK /\ LocalsOK
  BY Pieces, Zenon
<1>i. 1 \in Slot /\ initproc \in Slot /\ 1 \in 1 .. NPROC + 1
  BY ProcAssumption DEF Slot, initproc
<1>n. \A q \in Slot : /\ ~(ki[q] > NPROC) => ki[q] \in Slot /\ ki[q] + 1 \in 1 .. NPROC + 1
                      /\ ~(kj[q] > NPROC) => kj[q] \in Slot /\ kj[q] + 1 \in 1 .. NPROC + 1
  BY <1>0, Loops, Zenon
<1> HIDE DEF TypeOK
<1>u. /\ UNCHANGED table => TableOK'
      /\ UNCHANGED <<plock, wlock, kpc, sw>> => ThreadsOK'
      /\ UNCHANGED cpus => CpusOK'
      /\ UNCHANGED locals => LocalsOK'
  BY <1>0, Zenon DEF table, cpus, locals, TableOK, ThreadsOK, CpusOK, LocalsOK
<1>k. ASSUME NEW p \in Slot, LocalsDie(p) PROVE LocalsOK'
  BY <1>0, <1>i, <1>k, Zenon DEF LocalsDie, LocalsOK
<1>g. ASSUME NEW p \in Slot, NEW point \in Point, Goto(p, point) PROVE kpc' \in [Slot -> Point]
  BY <1>0, <1>g, Zenon DEF Goto, ThreadsOK
<1>f. ASSUME NEW p \in Slot, FreeProc(p), nextpid' \in Nat PROVE TableOK'
  BY <1>0, <1>f, Zenon DEF FreeProc, TableOK, State
<1> USE DEF Runs, At
<1> SUFFICES ASSUME Next PROVE TableOK' /\ ThreadsOK' /\ CpusOK' /\ LocalsOK'
  <2>1. TableOK' /\ ThreadsOK' /\ CpusOK' /\ LocalsOK' => TypeOK'
    BY Zenon DEF TypeOK, TableOK, ThreadsOK, CpusOK, LocalsOK, State, Point
  <2> QED
    BY <1>u, <2>1, Zenon DEF vars, locks
<1>1. ASSUME NEW c \in CPU, Scheduler(c)
      PROVE  TableOK' /\ ThreadsOK' /\ CpusOK' /\ LocalsOK'
  <2>1. NextSlot(sidx[c]) \in Slot /\ sidx[c] \in Slot
    BY <1>0, ProcAssumption DEF NextSlot, Slot, CpusOK
  <2>2. TableOK'
    BY <1>0, <1>1, <2>1, Zenon DEF Scheduler, TableOK, State
  <2>3. ThreadsOK'
    BY <1>0, <1>1, <2>1, Zenon DEF Scheduler, ThreadsOK
  <2>4. CpusOK'
    BY <1>0, <1>1, <2>1, Zenon DEF Scheduler, CpusOK
  <2> QED
    BY <1>1, <1>u, <2>2, <2>3, <2>4, Zenon DEF Scheduler
<1>2. ASSUME NEW c \in CPU, SchedulerReturn(c)
      PROVE  TableOK' /\ ThreadsOK' /\ CpusOK' /\ LocalsOK'
  <2>1. NextSlot(sidx[c]) \in Slot /\ sidx[c] \in Slot
    BY <1>0, ProcAssumption DEF NextSlot, Slot, CpusOK
  <2>2. ThreadsOK'
    BY <1>0, <1>2, <2>1, Zenon DEF SchedulerReturn, ThreadsOK
  <2>3. CpusOK'
    BY <1>0, <1>2, <2>1, Zenon DEF SchedulerReturn, CpusOK
  <2> QED
    BY <1>2, <1>u, <2>2, <2>3, Zenon DEF SchedulerReturn
<1> SUFFICES ASSUME NEW c \in CPU, NEW p \in Slot, Thread(c, p)
             PROVE  TableOK' /\ ThreadsOK' /\ CpusOK' /\ LocalsOK'
  BY <1>1, <1>2, Zenon DEF Next
<1>3. CASE Sched(c, p)
  <2>1. CpusOK'
    BY <1>0, <1>3, Zenon DEF Sched, CpusOK
  <2> QED
    BY <1>3, <1>u, <2>1, Zenon DEF Sched, locks
<1>4. CASE Resume(c, p)
  <2>1. TableOK'
    BY <1>0, <1>4, Zenon DEF Resume, TableOK
  <2>2. ThreadsOK'
    BY <1>0, <1>4, Zenon DEF Resume, ThreadsOK
  <2> QED
    BY <1>4, <1>u, <2>1, <2>2, Zenon DEF Resume
<1>5. CASE Yield(c, p)
  <2>1. TableOK'
    BY <1>0, <1>5, Zenon DEF Yield, TableOK, State
  <2>2. ThreadsOK'
    BY <1>0, <1>5, Zenon DEF Yield, ThreadsOK
  <2> QED
    BY <1>5, <1>u, <2>1, <2>2, Zenon DEF Yield
<1>6. ASSUME NEW call \in {"fork", "exit", "wait", "kill"}, Syscall(c, p, call)
      PROVE  TableOK' /\ ThreadsOK' /\ CpusOK' /\ LocalsOK'
  <2>1. PICK n \in Nat : kpid' = [kpid EXCEPT ![p] = n]
    BY <1>6, ProcAssumption, Zenon DEF Syscall
  <2>2. PICK point \in Point : Goto(p, point)
    BY <1>6, Zenon DEF Syscall, Point
  <2>3. ThreadsOK'
    BY <1>0, <1>6, <1>g, <2>2, Zenon DEF Syscall, ThreadsOK, locks
  <2>4. LocalsOK'
    BY <1>0, <1>6, <1>i, <2>1, Zenon DEF Syscall, LocalsOK
  <2> QED
    BY <1>6, <1>u, <2>3, <2>4, Zenon DEF Syscall
<1>7. CASE TrapReturn(c, p)
  <2>1. PICK point \in Point : Goto(p, point)
    BY <1>7, Zenon DEF TrapReturn, Point
  <2>2. ThreadsOK'
    BY <1>0, <1>7, <1>g, <2>1, Zenon DEF TrapReturn, ThreadsOK, locks
  <2> QED
    BY <1>7, <1>u, <1>k, <2>2, Zenon DEF TrapReturn
<1>8. CASE Fork(c, p)
  <2>1. CpusOK'
    BY <1>8, <1>u, Zenon DEF Fork
  <2>2. CASE ki[p] > NPROC
    <3>1. ThreadsOK'
      BY <1>0, <1>8, <1>g, <2>2, Zenon DEF Fork, ThreadsOK, locks, Point
    <3> QED
      BY <1>8, <1>u, <2>1, <2>2, <3>1, Zenon DEF Fork, locals
  <2>3. CASE ~(ki[p] > NPROC)
    <3> DEFINE np == ki[p]
    <3>1. np \in Slot /\ np + 1 \in 1 .. NPROC + 1 /\ nextpid + 1 \in Nat
      BY <1>0, <1>n, <2>3 DEF TableOK
    <3>2. CASE state[np] # "UNUSED"
      <4>1. LocalsOK'
        BY <1>0, <1>8, <2>3, <3>1, <3>2, Zenon DEF Fork, LocalsOK
      <4> QED
        BY <1>8, <1>u, <2>1, <2>3, <3>2, <4>1, Zenon DEF Fork, locks
    <3>3. CASE state[np] = "UNUSED" /\ FreeProc(np) /\ Goto(p, "trapret") /\ UNCHANGED <<sw, knp>>
      <4>1. TableOK'
        BY <1>8, <1>f, <2>3, <3>1, <3>3, Zenon DEF Fork
      <4>2. ThreadsOK'
        BY <1>0, <1>8, <1>g, <3>3, Zenon DEF Fork, ThreadsOK, locks, Point
      <4> QED
        BY <1>8, <1>u, <2>1, <2>3, <3>3, <4>1, <4>2, Zenon DEF Fork, locals
    <3>4. CASE /\ state[np] = "UNUSED"
               /\ pid' = [pid EXCEPT ![np] = nextpid]
               /\ state' = [state EXCEPT ![np] = "USED"]
               /\ sw' = [sw EXCEPT ![np] = "forkret"]
               /\ knp' = [knp EXCEPT ![p] = np]
               /\ kpc' = [kpc EXCEPT ![p] = "setparent", ![np] = "user"]
               /\ UNCHANGED <<chan, killed, parent>>
      <4>1. nextpid' = nextpid + 1 /\ UNCHANGED <<locks, ki, kj, kids, kpid>>
        BY <1>8, <2>3, <3>4, Zenon DEF Fork
      <4>2. TableOK'
        BY <1>0, <3>1, <3>4, <4>1, Zenon DEF TableOK, State
      <4>3. ThreadsOK'
        BY <1>0, <3>1, <3>4, <4>1, Zenon DEF ThreadsOK, locks, Point
      <4>4. LocalsOK'
        BY <1>0, <3>1, <3>4, <4>1, Zenon DEF LocalsOK
      <4> QED
        BY <2>1, <4>2, <4>3, <4>4, Zenon
    <3> QED
      BY <1>8, <2>3, <3>2, <3>3, <3>4, Zenon DEF Fork
  <2> QED
    BY <2>2, <2>3, Zenon
<1>9. CASE ForkSetParent(c, p)
  <2>1. knp[p] \in Slot
    BY <1>0, Zenon DEF LocalsOK
  <2>2. TableOK'
    BY <1>0, <1>9, <2>1, Zenon DEF ForkSetParent, TableOK
  <2>3. ThreadsOK'
    BY <1>0, <1>9, <1>g, Zenon DEF ForkSetParent, ThreadsOK, locks, Point
  <2> QED
    BY <1>9, <1>u, <2>2, <2>3, Zenon DEF ForkSetParent
<1>10. CASE ForkSetRunnable(c, p)
  <2>1. knp[p] \in Slot
    BY <1>0, Zenon DEF LocalsOK
  <2>2. TableOK'
    BY <1>0, <1>10, <2>1, Zenon DEF ForkSetRunnable, TableOK, State
  <2>3. ThreadsOK'
    BY <1>0, <1>10, <1>g, Zenon DEF ForkSetRunnable, ThreadsOK, locks, Point
  <2> QED
    BY <1>10, <1>u, <2>2, <2>3, Zenon DEF ForkSetRunnable
<1>11. CASE Exit(c, p) \/ Wait(c, p)
  <2>1. PICK point \in Point : Goto(p, point)
    BY <1>11, Zenon DEF Exit, Wait, Point
  <2>2. ThreadsOK'
    BY <1>0, <1>11, <1>g, <2>1, Zenon DEF Exit, Wait, ThreadsOK
  <2>3. LocalsOK'
    BY <1>0, <1>11, <1>i, Zenon DEF Exit, Wait, LocalsOK
  <2> QED
    BY <1>11, <1>u, <2>2, <2>3, Zenon DEF Exit, Wait
<1>12. CASE Reparent(c, p)
  <2>1. kpc' = kpc \/ \E point \in Point : Goto(p, point)
    BY <1>12, Zenon DEF Reparent, Point
  <2>2. TableOK'
    BY <1>0, <1>12, <1>i, <1>n DEF Reparent, TableOK
  <2>3. ThreadsOK'
    BY <1>0, <1>12, <1>g, <2>1, Zenon DEF Reparent, ThreadsOK, locks
  <2>4. LocalsOK'
    BY <1>0, <1>12, <1>i, <1>n DEF Reparent, LocalsOK
  <2> QED
    BY <1>12, <1>u, <2>2, <2>3, <2>4, Zenon DEF Reparent
<1>13. CASE WakeInit(c, p) \/ WakeParent(c, p)
  <2>1. PICK ch \in Slot \cup {NoProc}, next \in Point : Wakeup(c, p, ch, next)
    BY <1>0, <1>13, <1>i, Zenon DEF WakeInit, WakeParent, TableOK, Point
  <2>2. TableOK'
    BY <1>0, <1>n, <2>1, Zenon DEF Wakeup, TableOK, State
  <2>3. ThreadsOK'
    BY <1>0, <1>g, <2>1, Zenon DEF Wakeup, ThreadsOK, locks
  <2>4. LocalsOK'
    BY <1>0, <1>n, <2>1, Zenon DEF Wakeup, LocalsOK
  <2> QED
    BY <1>u, <2>1, <2>2, <2>3, <2>4, Zenon DEF Wakeup
<1>14. CASE Zombie(c, p)
  <2>1. TableOK'
    BY <1>0, <1>14, Zenon DEF Zombie, TableOK, State
  <2>2. ThreadsOK'
    BY <1>0, <1>14, <1>g, Zenon DEF Zombie, ThreadsOK, Point
  <2> QED
    BY <1>14, <1>u, <1>k, <2>1, <2>2, Zenon DEF Zombie
<1>15. CASE WaitScan(c, p)
  <2>1. ki[p] \in Slot /\ ki[p] + 1 \in 1 .. NPROC + 1
    BY <1>0, <1>15, Loops, Zenon DEF WaitScan
  <2>2. kpc' = kpc \/ Goto(p, "trapret")
    BY <1>15, Zenon DEF WaitScan
  <2>3. TableOK'
    <3>1. UNCHANGED table \/ (FreeProc(ki[p]) /\ nextpid' = nextpid)
      BY <1>15, Zenon DEF WaitScan, table
    <3>2. nextpid \in Nat
      BY <1>0, Zenon DEF TableOK
    <3> QED
      BY <1>f, <1>u, <2>1, <3>1, <3>2, Zenon
  <2>4. ThreadsOK'
    BY <1>0, <1>15, <1>g, <2>1, <2>2, Zenon DEF WaitScan, ThreadsOK, Point
  <2>5. LocalsOK'
    BY <1>0, <1>15, <2>1, Zenon DEF WaitScan, LocalsOK
  <2> QED
    BY <1>15, <1>u, <2>3, <2>4, <2>5, Zenon DEF WaitScan
<1>16. CASE WaitDecide(c, p)
  <2>1. PICK point \in Point : Goto(p, point)
    BY <1>16, Zenon DEF WaitDecide, Point
  <2>2. ThreadsOK'
    BY <1>0, <1>16, <1>g, <2>1, Zenon DEF WaitDecide, ThreadsOK
  <2> QED
    BY <1>16, <1>u, <2>2, Zenon DEF WaitDecide
<1>17. CASE Sleep(c, p)
  <2>1. TableOK'
    BY <1>0, <1>17, Zenon DEF Sleep, TableOK, State
  <2>2. ThreadsOK'
    BY <1>0, <1>17, <1>g, Zenon DEF Sleep, ThreadsOK, Point
  <2> QED
    BY <1>17, <1>u, <2>1, <2>2, Zenon DEF Sleep
<1>18. CASE Kill(c, p)
  <2>1. kpc' = kpc \/ Goto(p, "trapret")
    BY <1>18, Zenon DEF Kill
  <2>2. TableOK'
    <3>1. CASE ki[p] > NPROC
      BY <1>18, <1>u, <3>1, Zenon DEF Kill, table
    <3>2. CASE ~(ki[p] > NPROC)
      <4>1. ki[p] \in Slot /\ UNCHANGED <<chan, pid, parent, nextpid>>
        BY <1>18, <1>n, <3>2, Zenon DEF Kill
      <4>2. killed' \in [Slot -> BOOLEAN]
        BY <1>0, <1>18, <3>2, <4>1, Zenon DEF Kill, TableOK
      <4>3. state' \in [Slot -> State]
        BY <1>0, <1>18, <3>2, <4>1 DEF Kill, TableOK, State
      <4> QED
        BY <1>0, <4>1, <4>2, <4>3, Zenon DEF TableOK
    <3> QED
      BY <3>1, <3>2, Zenon
  <2>3. ThreadsOK'
    BY <1>0, <1>18, <1>g, <2>1, Zenon DEF Kill, ThreadsOK, locks, Point
  <2>4. LocalsOK'
    BY <1>0, <1>18, <1>n DEF Kill, LocalsOK
  <2> QED
    BY <1>18, <1>u, <2>2, <2>3, <2>4, Zenon DEF Kill
<1> QED
  BY <1>3, <1>4, <1>5, <1>6, <1>7, <1>8, <1>9, <1>10, <1>11, <1>12, <1>13, <1>14,
     <1>15, <1>16, <1>17, <1>18, Zenon DEF Thread
-----------------------------------------------------------------------------
(* CPUs, locks and kernel stacks *)

\* A thread outside sched() that a CPU executes is RUNNING, unlocked, c->proc.
LEMMA RunsIs ==
  ASSUME StackInv, NEW c \in CPU, NEW p \in Slot, Runs(c, p)
  PROVE  /\ cproc[c] = p /\ on[c] = p /\ p # NoProc /\ state[p] = "RUNNING"
         /\ sw[p] = "none" /\ plock[p] = NoCpu
<1>1. p # NoProc
  BY ProcAssumption DEF Slot, NoProc
<1>2. cproc[c] = p /\ on[c] = p /\ sw[p] = "none"
  BY <1>1, Zenon DEF StackInv, CpuInv, Runs
<1>3. state[p] \in State /\ state[p] \notin {"UNUSED", "USED"}
  BY <1>1, <1>2 DEF StackInv, CpuInv, TypeOK, State
<1>4. state[p] = "RUNNING"
  BY <1>2, <1>3, Zenon DEF StackInv, SwInv, Fits, State
<1>5. plock[p] = NoCpu
  BY <1>2, Zenon DEF StackInv, CpuInv
<1> QED
  BY <1>1, <1>2, <1>4, <1>5, Zenon

\* An unlocked process that is not RUNNING is no CPU's.
LEMMA SettledIs ==
  ASSUME StackInv, NEW q \in Slot, Free(q), state[q] # "RUNNING"
  PROVE  \A d \in CPU : cproc[d] # q /\ on[d] # q
<1> SUFFICES ASSUME NEW d \in CPU, cproc[d] = q
             PROVE  FALSE
  BY ProcAssumption DEF StackInv, CpuInv, Slot, NoProc
<1>1. q # NoProc
  BY ProcAssumption DEF Slot, NoProc
<1>2. sw[q] = "none"
  BY <1>1, ProcAssumption, Zenon DEF StackInv, CpuInv, Free
<1>3. state[q] \in State \ {"UNUSED", "USED"}
  BY <1>1 DEF StackInv, CpuInv, TypeOK, State
<1> QED
  BY <1>2, <1>3, Zenon DEF StackInv, SwInv, Fits, State

\* Nothing about CPUs, locks and states changes.
Steady ==
  /\ \A x \in Slot : state'[x] = state[x] /\ sw'[x] = sw[x]
  /\ UNCHANGED <<plock, cproc, on, sidx>>

\* A slot changes hands or state while nobody is on its stack.
Settle(q, s, w) ==
  /\ Free(q) /\ state[q] # "RUNNING"
  /\ state'[q] = s /\ sw'[q] = w
  /\ \A x \in Slot \ {q} : state'[x] = state[x] /\ sw'[x] = sw[x]
  /\ s # "RUNNING" /\ Fits(s, w)
  /\ UNCHANGED <<plock, cproc, on, sidx>>

\* p gives up its CPU: yield(), sleep() and exit() up to swtch().
GiveUp(c, p, s, w) ==
  /\ Runs(c, p)
  /\ plock' = [plock EXCEPT ![p] = c]
  /\ state' = [state EXCEPT ![p] = s] /\ sw' = [sw EXCEPT ![p] = w]
  /\ s \in {"RUNNABLE", "SLEEPING", "ZOMBIE"} /\ Fits(s, w)
  /\ UNCHANGED <<cproc, on, sidx>>

\* What the CPUs' invariant says of a CPU that is not in the scheduler.
LEMMA CpuCurrent ==
  ASSUME CpuInv, NEW d \in CPU, cproc[d] # NoProc
  PROVE  /\ sidx[d] = cproc[d] /\ state[cproc[d]] \notin {"UNUSED", "USED"}
         /\ sw[cproc[d]] = "none" => on[d] = cproc[d]
         /\ sw[cproc[d]] # "none" => plock[cproc[d]] = d
         /\ state[cproc[d]] = "RUNNING" => on[d] = cproc[d]
  BY Zenon DEF CpuInv

\* Two CPUs run two processes.
LEMMA CpuOnce ==
  ASSUME CpuInv, NEW c \in CPU, NEW d \in CPU, c # d, cproc[c] # NoProc
  PROVE  cproc[c] # cproc[d]
  BY Zenon DEF CpuInv

\* A lock held across steps is that of a CPU's process inside sched().
LEMMA CpuLock ==
  ASSUME CpuInv, NEW q \in Slot, plock[q] # NoCpu
  PROVE  cproc[plock[q]] = q /\ sw[q] # "none"
  BY Zenon DEF CpuInv

\* Settling a slot keeps the CPUs' invariant.
LEMMA SettleCpu ==
  ASSUME StackInv, NEW q \in Slot, NEW s \in State, NEW w, Settle(q, s, w)
  PROVE  CpuInv' /\ SwInv'
<1>c. CpuInv
  BY Zenon DEF StackInv
<1>1. /\ \A p \in Slot \ {q} : state'[p] = state[p] /\ sw'[p] = sw[p]
      /\ state'[q] = s /\ sw'[q] = w /\ s # "RUNNING" /\ Fits(s, w)
      /\ plock[q] = NoCpu
      /\ UNCHANGED <<plock, cproc, on, sidx>>
  BY Zenon DEF Settle, Free
<1>2. \A d \in CPU : cproc[d] # q /\ on[d] # q
  BY SettledIs, Zenon DEF Settle
<1>3. SwInv'
  BY <1>1, Zenon DEF StackInv, SwInv, Fits
<1>4. \A d \in CPU : cproc[d] # NoProc => cproc[d] \in Slot \ {q}
  BY <1>2, Zenon DEF StackInv, TypeOK
<1>5. CpuInv'
  BY <1>1, <1>2, <1>4, <1>c DEF CpuInv
<1> QED
  BY <1>3, <1>5, Zenon

\* So does giving up a CPU.
LEMMA GiveUpCpu ==
  ASSUME StackInv, NEW c \in CPU, NEW p \in Slot, NEW s, NEW w, GiveUp(c, p, s, w)
  PROVE  CpuInv' /\ SwInv'
<1>t. /\ DOMAIN state = Slot /\ DOMAIN sw = Slot /\ DOMAIN plock = Slot
      /\ \A d \in CPU : cproc[d] \in Slot \cup {NoProc}
  BY Zenon DEF StackInv, TypeOK
<1>r. cproc[c] = p /\ on[c] = p /\ p # NoProc /\ plock[p] = NoCpu
  BY RunsIs, Zenon DEF GiveUp
<1>1. /\ \A q \in Slot \ {p} : state'[q] = state[q] /\ sw'[q] = sw[q] /\ plock'[q] = plock[q]
      /\ state'[p] = s /\ sw'[p] = w /\ plock'[p] = c
      /\ s \in {"RUNNABLE", "SLEEPING", "ZOMBIE"} /\ Fits(s, w)
      /\ UNCHANGED <<cproc, on, sidx>>
  BY <1>t, Zenon DEF GiveUp
<1>2. w # "none"
  BY <1>1, Zenon DEF Fits
<1>3. SwInv'
  BY <1>1, Zenon DEF StackInv, SwInv, Fits
<1>c. CpuInv
  BY Zenon DEF StackInv
<1>4. ASSUME NEW d \in CPU, cproc'[d] # NoProc
      PROVE  /\ sidx'[d] = cproc'[d]
             /\ state'[cproc'[d]] \notin {"UNUSED", "USED"}
             /\ sw'[cproc'[d]] = "none" => on'[d] = cproc'[d]
             /\ sw'[cproc'[d]] # "none" => plock'[cproc'[d]] = d
             /\ state'[cproc'[d]] = "RUNNING" => on'[d] = cproc'[d]
  <2>1. CASE d = c
    BY <1>1, <1>2, <1>r, <1>c, <2>1, CpuCurrent, Zenon
  <2>2. CASE d # c
    <3>1. cproc[d] \in Slot \ {p}
      BY <1>1, <1>4, <1>r, <1>t, <1>c, <2>2, CpuOnce
    <3>2. /\ state'[cproc[d]] = state[cproc[d]] /\ sw'[cproc[d]] = sw[cproc[d]]
          /\ plock'[cproc[d]] = plock[cproc[d]]
      BY <1>1, <3>1, Zenon
    <3> QED
      BY <1>1, <1>4, <1>c, <3>2, CpuCurrent, Zenon
  <2> QED
    BY <2>1, <2>2, Zenon
<1>5. ASSUME NEW q \in Slot, plock'[q] # NoCpu PROVE cproc'[plock'[q]] = q /\ sw'[q] # "none"
  BY <1>1, <1>2, <1>5, <1>r, <1>c, CpuLock, Zenon
<1>6. \A q \in Slot : state'[q] = "RUNNING" => \E d \in CPU : cproc'[d] = q
  BY <1>1, <1>c, Zenon DEF CpuInv
<1>7. CpuInv'
  BY <1>1, <1>4, <1>5, <1>6, <1>c DEF CpuInv
<1> QED
  BY <1>3, <1>7, Zenon

\* Each step keeps the CPUs' invariant.
LEMMA NextCpu ==
  ASSUME StackInv, [Next]_vars
  PROVE  CpuInv' /\ SwInv'
<1>0. TableOK /\ ThreadsOK /\ CpusOK /\ LocalsOK
  BY Pieces, Zenon DEF StackInv
<1>c. CpuInv
  BY Zenon DEF StackInv
<1>w. SwInv
  BY Zenon DEF StackInv
<1>t. /\ DOMAIN state = Slot /\ DOMAIN sw = Slot /\ DOMAIN plock = Slot
      /\ DOMAIN cproc = CPU /\ DOMAIN on = CPU /\ DOMAIN sidx = CPU
      /\ \A d \in CPU : /\ cproc[d] \in Slot \cup {NoProc}
                        /\ sidx[d] \in Slot
      /\ NoProc \notin Slot
  BY <1>0, ProcAssumption DEF TableOK, ThreadsOK, CpusOK, Slot, NoProc
<1>n. \A q \in Slot : /\ (ki[q] <= NPROC \/ ~(ki[q] > NPROC)) => ki[q] \in Slot
                      /\ ~(kj[q] > NPROC) => kj[q] \in Slot
  BY <1>0, Loops, Zenon
<1>h. \A d \in CPU : cproc[d] # NoProc =>
        /\ sidx[d] = cproc[d] /\ state[cproc[d]] \notin {"UNUSED", "USED"}
        /\ sw[cproc[d]] = "none" => on[d] = cproc[d]
        /\ sw[cproc[d]] # "none" => plock[cproc[d]] = d
        /\ state[cproc[d]] = "RUNNING" => on[d] = cproc[d]
  BY <1>c, Zenon DEF CpuInv
<1>s. ASSUME Steady PROVE CpuInv' /\ SwInv'
  <2>1. SwInv'
    BY <1>w, <1>s, Zenon DEF Steady, SwInv
  <2>2. CpuInv'
    BY <1>c, <1>s, <1>t DEF Steady, CpuInv
  <2> QED
    BY <2>1, <2>2, Zenon
<1>1. ASSUME NEW c \in CPU, Scheduler(c) PROVE CpuInv' /\ SwInv'
  <2>1. PICK p \in Slot : p = sidx[c]
    BY <1>t, Zenon
  <2>2. CASE state[p] # "RUNNABLE"
    <3>1. /\ cproc[c] = NoProc /\ UNCHANGED <<state, sw, plock, cproc, on>>
          /\ \A d \in CPU \ {c} : sidx'[d] = sidx[d]
      BY <1>1, <1>t, <2>1, <2>2, Zenon DEF Scheduler
    <3>2. SwInv'
      BY <1>w, <3>1, Zenon DEF SwInv
    <3>3. CpuInv'
      BY <1>c, <3>1, Zenon DEF CpuInv
    <3> QED
      BY <3>2, <3>3, Zenon
  <2>3. CASE state[p] = "RUNNABLE"
    <3>1. /\ cproc[c] = NoProc /\ on[c] = NoProc /\ plock[p] = NoCpu
          /\ plock'[p] = c /\ state'[p] = "RUNNING" /\ cproc'[c] = p /\ on'[c] = p
          /\ \A q \in Slot \ {p} : plock'[q] = plock[q] /\ state'[q] = state[q]
          /\ \A d \in CPU \ {c} : cproc'[d] = cproc[d] /\ on'[d] = on[d]
          /\ UNCHANGED <<sidx, sw>>
      BY <1>1, <1>t, <2>1, <2>3, Zenon DEF Scheduler, Free
    <3>2. sw[p] \notin {"none", "exit"}
      BY <1>w, <2>3, Zenon DEF SwInv, Fits
    <3>3. \A d \in CPU : cproc[d] # p /\ on[d] # p
      BY <2>3, <3>1, SettledIs, Zenon DEF Free
    <3>4. SwInv'
      BY <1>w, <3>1, <3>2 DEF SwInv, Fits
    <3>5. ASSUME NEW d \in CPU, cproc'[d] # NoProc
          PROVE  /\ sidx'[d] = cproc'[d]
                 /\ state'[cproc'[d]] \notin {"UNUSED", "USED"}
                 /\ sw'[cproc'[d]] = "none" => on'[d] = cproc'[d]
                 /\ sw'[cproc'[d]] # "none" => plock'[cproc'[d]] = d
                 /\ state'[cproc'[d]] = "RUNNING" => on'[d] = cproc'[d]
      <4>1. CASE d = c
        BY <2>1, <3>1, <4>1, Zenon
      <4>2. CASE d # c
        <5>1. cproc[d] \in Slot \ {p} /\ cproc'[d] = cproc[d]
          BY <1>t, <3>1, <3>3, <3>5, <4>2, Zenon
        <5>2. PICK q \in Slot : /\ q = cproc[d] /\ q = cproc'[d] /\ q # NoProc
                                /\ state'[q] = state[q] /\ plock'[q] = plock[q]
                                /\ on'[d] = on[d] /\ sw' = sw /\ sidx' = sidx
          BY <3>1, <3>5, <4>2, <5>1, Zenon
        <5>3. /\ sidx[d] = q /\ state[q] \notin {"UNUSED", "USED"}
              /\ sw[q] = "none" => on[d] = q
              /\ sw[q] # "none" => plock[q] = d
              /\ state[q] = "RUNNING" => on[d] = q
          BY <1>h, <5>2, Zenon
        <5> QED
          BY <5>2, <5>3, Zenon
      <4> QED
        BY <4>1, <4>2, Zenon
    <3>6. \A d \in CPU : on'[d] # NoProc => on'[d] = cproc'[d]
      BY <1>c, <3>1 DEF CpuInv
    <3>7. \A d, e \in CPU : d # e /\ cproc'[d] # NoProc => cproc'[d] # cproc'[e]
      BY <1>c, <3>1, <3>3 DEF CpuInv
    <3>8. ASSUME NEW q \in Slot, plock'[q] # NoCpu
          PROVE  cproc'[plock'[q]] = q /\ sw'[q] # "none"
      <4>1. CASE q = p
        BY <3>1, <3>2, <4>1, Zenon
      <4>2. CASE q # p
        <5>1. plock[q] \in CPU /\ cproc[plock[q]] = q /\ sw[q] # "none" /\ plock'[q] = plock[q]
          <6>1. plock'[q] = plock[q] /\ plock[q] # NoCpu
            BY <3>1, <3>8, <4>2, Zenon
          <6>2. plock[q] \in CPU
            BY <1>0, <6>1, Zenon DEF ThreadsOK
          <6> QED
            BY <1>c, <6>1, <6>2, CpuLock, Zenon
        <5>2. plock[q] # c
          BY <1>t, <3>1, <5>1
        <5>3. cproc'[plock[q]] = q
          BY <3>1, <5>1, <5>2, Zenon
        <5> QED
          BY <3>1, <5>1, <5>3, Zenon
      <4> QED
        BY <4>1, <4>2, Zenon
    <3>9. \A q \in Slot : state'[q] = "RUNNING" => \E d \in CPU : cproc'[d] = q
      <4> SUFFICES ASSUME NEW q \in Slot \ {p}, state'[q] = "RUNNING"
                   PROVE  \E d \in CPU : cproc'[d] = q
        BY <3>1, Zenon
      <4>1. PICK d \in CPU : cproc[d] = q
        BY <1>c, <3>1, Zenon DEF CpuInv
      <4> QED
        BY <1>t, <3>1, <4>1
    <3>10. CpuInv'
      BY <3>5, <3>6, <3>7, <3>8, <3>9, Zenon DEF CpuInv
    <3> QED
      BY <3>4, <3>10, Zenon
  <2> QED
    BY <2>2, <2>3, Zenon
<1>2. ASSUME NEW c \in CPU, SchedulerReturn(c) PROVE CpuInv' /\ SwInv'
  <2>1. PICK p \in Slot : p = sidx[c] /\ p = cproc[c]
    BY <1>c, <1>2, <1>t, Zenon DEF SchedulerReturn, CpuInv
  <2>2. /\ on[c] = NoProc /\ cproc'[c] = NoProc /\ plock'[p] = NoCpu
        /\ \A q \in Slot \ {p} : plock'[q] = plock[q]
        /\ \A d \in CPU \ {c} : cproc'[d] = cproc[d] /\ sidx'[d] = sidx[d]
        /\ UNCHANGED <<state, sw, on>>
    BY <1>2, <1>t, <2>1, Zenon DEF SchedulerReturn, table
  <2>3. SwInv'
    BY <1>w, <2>2, Zenon DEF SwInv
  <2>4. state[p] # "RUNNING"
    BY <1>c, <1>t, <2>1, <2>2, CpuCurrent
  <2>5. \A d \in CPU \ {c} : cproc[d] # p /\ (cproc[d] # NoProc => cproc[d] \in Slot \ {p})
    BY <1>c, <1>t, <2>1, CpuOnce, Zenon
  <2>6. \A q \in Slot \ {p} : plock[q] # c
    BY <1>c, <2>1, ProcAssumption, CpuLock, Zenon
  <2>7. \A d \in CPU : cproc'[d] # NoProc =>
             /\ sidx'[d] = cproc'[d]
             /\ state'[cproc'[d]] \notin {"UNUSED", "USED"}
             /\ sw'[cproc'[d]] = "none" => on'[d] = cproc'[d]
             /\ sw'[cproc'[d]] # "none" => plock'[cproc'[d]] = d
             /\ state'[cproc'[d]] = "RUNNING" => on'[d] = cproc'[d]
    BY <1>c, <2>2, <2>5 DEF CpuInv
  <2>8. \A q \in Slot : plock'[q] # NoCpu => cproc'[plock'[q]] = q /\ sw'[q] # "none"
    <3>1. \A q \in Slot : plock[q] \in CPU \cup {NoCpu}
      BY <1>0, Zenon DEF ThreadsOK
    <3> QED
      BY <1>c, <2>2, <2>6, <3>1 DEF CpuInv
  <2>9. ASSUME NEW q \in Slot, state'[q] = "RUNNING" PROVE \E d \in CPU : cproc'[d] = q
    <3>1. q # p /\ state[q] = "RUNNING"
      BY <2>2, <2>4, <2>9, Zenon
    <3>2. PICK d \in CPU : cproc[d] = q
      BY <1>c, <3>1, Zenon DEF CpuInv
    <3> QED
      BY <2>1, <2>2, <3>1, <3>2, Zenon
  <2>10. \A d, e \in CPU : d # e /\ cproc'[d] # NoProc => cproc'[d] # cproc'[e]
    BY <1>c, <2>2 DEF CpuInv
  <2>11. \A d \in CPU : on'[d] # NoProc => on'[d] = cproc'[d]
    BY <1>c, <2>2, Zenon DEF CpuInv
  <2>12. CpuInv'
    BY <2>7, <2>8, <2>9, <2>10, <2>11, Zenon DEF CpuInv
  <2> QED
    BY <2>3, <2>12, Zenon
<1>3. CASE UNCHANGED vars
  BY <1>3, <1>s, Zenon DEF Steady, vars, table, locks, cpus
<1> SUFFICES ASSUME NEW c \in CPU, NEW p \in Slot, Thread(c, p)
             PROVE  CpuInv' /\ SwInv'
  BY <1>1, <1>2, <1>3, Zenon DEF Next
<1>4. CASE Sched(c, p)
  <2>1. /\ on[c] = p /\ sw[p] # "none" /\ state[p] # "RUNNING" /\ on'[c] = NoProc
        /\ \A d \in CPU \ {c} : on'[d] = on[d]
        /\ UNCHANGED <<state, sw, plock, cproc, sidx>>
    BY <1>4, <1>t, Zenon DEF Sched, table, locks
  <2>2. cproc[c] = p
    BY <1>c, <1>t, <2>1, Zenon DEF CpuInv
  <2>3. SwInv'
    BY <1>w, <2>1, Zenon DEF SwInv
  <2>4. CpuInv'
    BY <1>c, <2>1, <2>2 DEF CpuInv
  <2> QED
    BY <2>3, <2>4, Zenon
<1>5. CASE Resume(c, p)
  <2>1. /\ on[c] = p /\ sw[p] # "none" /\ state[p] = "RUNNING"
        /\ sw'[p] = "none" /\ plock'[p] = NoCpu
        /\ \A q \in Slot \ {p} : sw'[q] = sw[q] /\ plock'[q] = plock[q]
        /\ UNCHANGED <<state, cproc, on, sidx>>
    BY <1>5, <1>t, Zenon DEF Resume, cpus
  <2>2. cproc[c] = p
    BY <1>c, <1>t, <2>1, Zenon DEF CpuInv
  <2>3. SwInv'
    BY <1>w, <2>1 DEF SwInv, Fits
  <2>4. \A d \in CPU \ {c} : cproc[d] # NoProc => cproc[d] \in Slot \ {p}
    BY <1>c, <1>t, <2>2, Zenon DEF CpuInv
  <2>5. ASSUME NEW d \in CPU, cproc'[d] # NoProc
        PROVE  /\ sidx'[d] = cproc'[d]
               /\ state'[cproc'[d]] \notin {"UNUSED", "USED"}
               /\ sw'[cproc'[d]] = "none" => on'[d] = cproc'[d]
               /\ sw'[cproc'[d]] # "none" => plock'[cproc'[d]] = d
               /\ state'[cproc'[d]] = "RUNNING" => on'[d] = cproc'[d]
    <3>1. CASE d = c
      BY <1>c, <2>1, <2>2, <2>5, <3>1, CpuCurrent, Zenon
    <3>2. CASE d # c
      <4>1. sw'[cproc[d]] = sw[cproc[d]] /\ plock'[cproc[d]] = plock[cproc[d]]
        BY <2>1, <2>4, <2>5, <3>2, Zenon
      <4> QED
        BY <1>c, <2>1, <2>5, <4>1, CpuCurrent, Zenon
    <3> QED
      BY <3>1, <3>2, Zenon
  <2>6. ASSUME NEW q \in Slot, plock'[q] # NoCpu PROVE cproc'[plock'[q]] = q /\ sw'[q] # "none"
    <3>1. q # p /\ plock'[q] = plock[q] /\ sw'[q] = sw[q]
      BY <2>1, <2>6, Zenon
    <3> QED
      BY <1>c, <2>1, <2>6, <3>1, CpuLock, Zenon
  <2>7. /\ \A d \in CPU : on'[d] # NoProc => on'[d] = cproc'[d]
        /\ \A d, e \in CPU : d # e /\ cproc'[d] # NoProc => cproc'[d] # cproc'[e]
        /\ \A q \in Slot : state'[q] = "RUNNING" => \E d \in CPU : cproc'[d] = q
    BY <1>c, <2>1 DEF CpuInv
  <2>8. CpuInv'
    BY <2>5, <2>6, <2>7, Zenon DEF CpuInv
  <2> QED
    BY <2>3, <2>8, Zenon
<1>6. CASE Yield(c, p)
  <2>1. GiveUp(c, p, "RUNNABLE", "yield")
    BY <1>6, Zenon DEF Yield, GiveUp, Fits, cpus
  <2> QED
    BY <2>1, GiveUpCpu, Zenon
<1>7. CASE Sleep(c, p)
  <2>1. GiveUp(c, p, "SLEEPING", "sleep")
    BY <1>7, Zenon DEF Sleep, At, GiveUp, Fits, cpus
  <2> QED
    BY <2>1, GiveUpCpu, Zenon
<1>8. CASE Zombie(c, p)
  <2>1. GiveUp(c, p, "ZOMBIE", "exit")
    BY <1>8, Zenon DEF Zombie, At, GiveUp, Fits, cpus
  <2> QED
    BY <2>1, GiveUpCpu, Zenon
<1>9. CASE Fork(c, p)
  <2>1. CASE ki[p] > NPROC \/ state[ki[p]] # "UNUSED"
    BY <1>9, <1>s, <2>1, Zenon DEF Fork, Steady, table, locks, cpus
  <2>2. CASE ~(ki[p] > NPROC) /\ state[ki[p]] = "UNUSED"
    <3>1. PICK np \in Slot : np = ki[p]
      BY <1>n, <2>2, Zenon
    <3>2. Free(np) /\ UNCHANGED <<plock, cproc, on, sidx>> /\ sw[np] = "none"
      BY <1>w, <1>9, <2>2, <3>1, Zenon DEF Fork, locks, cpus, SwInv, Fits
    <3>3. Settle(np, "USED", "forkret") \/ Settle(np, "UNUSED", "none")
      <4>1. \/ state' = [state EXCEPT ![np] = "USED"] /\ sw' = [sw EXCEPT ![np] = "forkret"]
            \/ state' = [state EXCEPT ![np] = "UNUSED"] /\ sw' = sw
        BY <1>9, <2>2, <3>1, Zenon DEF Fork, FreeProc
      <4> QED
        BY <1>t, <2>2, <3>1, <3>2, <4>1, Zenon DEF Settle, Fits
    <3> QED
      BY <3>3, SettleCpu, Zenon DEF State
  <2> QED
    BY <2>1, <2>2, Zenon
<1>10. CASE ForkSetRunnable(c, p)
  <2>1. PICK np \in Slot : np = knp[p]
    BY <1>0, Zenon DEF LocalsOK
  <2>2. state[np] = "USED" /\ sw[np] = "forkret"
    BY <1>10, <2>1, Zenon DEF ForkSetRunnable, At, StackInv, ForkInv, Filling, SwInv, Fits
  <2>3. Settle(np, "RUNNABLE", "forkret")
    BY <1>10, <1>t, <2>1, <2>2, Zenon DEF ForkSetRunnable, Settle, Fits, locks, cpus
  <2> QED
    BY <2>3, SettleCpu, Zenon DEF State
<1>11. CASE WakeInit(c, p) \/ WakeParent(c, p)
  <2>1. PICK ch, next : Wakeup(c, p, ch, next)
    BY <1>11, Zenon DEF WakeInit, WakeParent
  <2>2. UNCHANGED <<plock, cproc, on, sidx, sw>>
    BY <2>1, Zenon DEF Wakeup, locks, cpus
  <2>3. CASE kj[p] > NPROC
    BY <1>s, <2>1, <2>2, <2>3, Zenon DEF Wakeup, Steady
  <2>4. CASE ~(kj[p] > NPROC)
    <3>1. PICK q \in Slot : q = kj[p]
      BY <1>n, <2>4, Zenon
    <3>2. CASE q # p /\ state[q] = "SLEEPING" /\ chan[q] = ch
      <4>1. Free(q) /\ state' = [state EXCEPT ![q] = "RUNNABLE"] /\ sw[q] = "sleep"
        BY <1>w, <2>1, <2>4, <3>1, <3>2, Zenon DEF Wakeup, SwInv, Fits
      <4>2. Settle(q, "RUNNABLE", "sleep")
        BY <1>t, <2>2, <3>2, <4>1, Zenon DEF Settle, Fits
      <4> QED
        BY <4>2, SettleCpu, Zenon DEF State
    <3>3. CASE ~(q # p /\ state[q] = "SLEEPING" /\ chan[q] = ch)
      <4>1. state' = [state EXCEPT ![q] = state[q]]
        BY <2>1, <2>4, <3>1, <3>3, Zenon DEF Wakeup
      <4> QED
        BY <1>s, <1>t, <2>2, <4>1, Zenon DEF Steady
    <3> QED
      BY <3>2, <3>3, Zenon
  <2> QED
    BY <2>3, <2>4, Zenon
<1>12. CASE WaitScan(c, p)
  <2>1. PICK pp \in Slot : pp = ki[p]
    BY <1>12, <1>n, Zenon DEF WaitScan
  <2>2. UNCHANGED <<plock, cproc, on, sidx>>
    BY <1>12, Zenon DEF WaitScan, cpus
  <2>3. CASE UNCHANGED <<state, sw>>
    BY <1>s, <2>2, <2>3, Zenon DEF Steady
  <2>4. CASE ~UNCHANGED <<state, sw>>
    <3>1. /\ state[pp] = "ZOMBIE" /\ Free(pp)
          /\ state' = [state EXCEPT ![pp] = "UNUSED"] /\ sw' = [sw EXCEPT ![pp] = "none"]
      BY <1>12, <2>1, <2>4, Zenon DEF WaitScan, FreeProc, ChildSettled, table
    <3>2. Settle(pp, "UNUSED", "none")
      BY <1>t, <2>2, <3>1, Zenon DEF Settle, Fits
    <3> QED
      BY <3>2, SettleCpu, Zenon DEF State
  <2> QED
    BY <2>3, <2>4, Zenon
<1>13. CASE Kill(c, p)
  <2>1. UNCHANGED <<plock, cproc, on, sidx, sw>>
    BY <1>13, Zenon DEF Kill, locks, cpus
  <2>2. CASE UNCHANGED state
    BY <1>s, <2>1, <2>2, Zenon DEF Steady
  <2>3. CASE ~UNCHANGED state
    <3>1. PICK q \in Slot : q = ki[p] /\ ~(ki[p] > NPROC)
      BY <1>13, <1>n, <2>3, Zenon DEF Kill
    <3>2. CASE state[q] = "SLEEPING"
      <4>1. Free(q) /\ state' = [state EXCEPT ![q] = "RUNNABLE"] /\ sw[q] = "sleep"
        BY <1>w, <1>13, <2>3, <3>1, <3>2, Zenon DEF Kill, SwInv, Fits
      <4>2. Settle(q, "RUNNABLE", "sleep")
        BY <1>t, <2>1, <3>2, <4>1, Zenon DEF Settle, Fits
      <4> QED
        BY <4>2, SettleCpu, Zenon DEF State
    <3>3. CASE state[q] # "SLEEPING"
      <4>1. state' = [state EXCEPT ![q] = state[q]]
        BY <1>13, <2>3, <3>1, <3>3, Zenon DEF Kill
      <4> QED
        BY <1>s, <1>t, <2>1, <4>1, Zenon DEF Steady
    <3> QED
      BY <3>2, <3>3, Zenon
  <2> QED
    BY <2>2, <2>3, Zenon
<1>14. ASSUME NEW call, Syscall(c, p, call) PROVE Steady
  BY <1>14, Zenon DEF Syscall, Steady, table, locks, cpus
<1>15. ASSUME TrapReturn(c, p) PROVE Steady
  BY <1>15, Zenon DEF TrapReturn, Steady, table, locks, cpus
<1>16. ASSUME ForkSetParent(c, p) PROVE Steady
  BY <1>16, Zenon DEF ForkSetParent, Steady, locks, cpus
<1>17. ASSUME Exit(c, p) \/ Wait(c, p) PROVE Steady
  BY <1>17, Zenon DEF Exit, Wait, Steady, table, cpus
<1>18. ASSUME Reparent(c, p) PROVE Steady
  BY <1>18, Zenon DEF Reparent, Steady, locks, cpus
<1>19. ASSUME WaitDecide(c, p) PROVE Steady
  BY <1>19, Zenon DEF WaitDecide, Steady, table, cpus
<1> QED
  BY <1>s, <1>4, <1>5, <1>6, <1>7, <1>8, <1>9, <1>10, <1>11, <1>12, <1>13, <1>14,
     <1>15, <1>16, <1>17, <1>18, <1>19, Zenon DEF Thread

-----------------------------------------------------------------------------
(* fork() and wait_lock *)

\* What a step may do to a thread's place: one thread moves, and fork() sends
\* the new slot's thread to user space.
LEMMA Places ==
  ASSUME TypeOK, NEW c \in CPU, NEW p \in Slot, Thread(c, p)
  PROVE  /\ \A q \in Slot \ {p} : kpc'[q] # kpc[q] => kpc'[q] = "user" /\ state[q] = "UNUSED"
         /\ \A q \in Slot \ {p} : /\ ki'[q] = ki[q] /\ kj'[q] = kj[q] /\ knp'[q] = knp[q]
                                  /\ kpid'[q] = kpid[q]
<1>0. TableOK /\ ThreadsOK /\ CpusOK /\ LocalsOK
  BY Pieces, Zenon
<1>t. /\ DOMAIN kpc = Slot /\ DOMAIN ki = Slot /\ DOMAIN kj = Slot
      /\ DOMAIN knp = Slot /\ DOMAIN kpid = Slot
  BY <1>0, Zenon DEF ThreadsOK, LocalsOK
<1>1. CASE Sched(c, p) \/ Resume(c, p) \/ Yield(c, p)
  BY <1>1, Zenon DEF Sched, Resume, Yield, locals
<1>2. ASSUME NEW call, Syscall(c, p, call)
      PROVE  /\ \A q \in Slot \ {p} : kpc'[q] = kpc[q]
             /\ \A q \in Slot \ {p} : /\ ki'[q] = ki[q] /\ kj'[q] = kj[q] /\ knp'[q] = knp[q]
                                      /\ kpid'[q] = kpid[q]
  BY <1>2, <1>t, Zenon DEF Syscall, Goto
<1>3. CASE TrapReturn(c, p)
  BY <1>3, <1>t, Zenon DEF TrapReturn, LocalsDie, Goto
<1>4. CASE Fork(c, p)
  <2>1. \A q \in Slot \ {p} : kpc'[q] # kpc[q] => kpc'[q] = "user" /\ state[q] = "UNUSED"
    BY <1>4, <1>t, Zenon DEF Fork, Goto
  <2>2. \A q \in Slot \ {p} : ki'[q] = ki[q] /\ knp'[q] = knp[q]
    BY <1>4, <1>t, Zenon DEF Fork
  <2> QED
    BY <1>4, <2>1, <2>2, Zenon DEF Fork
<1>5. CASE ForkSetParent(c, p) \/ ForkSetRunnable(c, p)
  BY <1>5, <1>t, Zenon DEF ForkSetParent, ForkSetRunnable, Goto, locals
<1>6. CASE Exit(c, p) \/ Wait(c, p)
  BY <1>6, <1>t, Zenon DEF Exit, Wait, Goto
<1>7. CASE Reparent(c, p)
  BY <1>7, <1>t, Zenon DEF Reparent, Goto
<1>8. CASE WakeInit(c, p) \/ WakeParent(c, p)
  <2>1. PICK ch, next : Wakeup(c, p, ch, next)
    BY <1>8, Zenon DEF WakeInit, WakeParent
  <2> QED
    BY <2>1, <1>t, Zenon DEF Wakeup, Goto
<1>9. CASE Zombie(c, p)
  BY <1>9, <1>t, Zenon DEF Zombie, LocalsDie, Goto
<1>10. CASE WaitScan(c, p)
  BY <1>10, <1>t, Zenon DEF WaitScan, Goto
<1>11. CASE WaitDecide(c, p) \/ Sleep(c, p)
  BY <1>11, <1>t, Zenon DEF WaitDecide, Sleep, Goto, locals
<1>12. CASE Kill(c, p)
  BY <1>12, <1>t, Zenon DEF Kill, Goto
<1> QED
  BY <1>1, <1>2, <1>3, <1>4, <1>5, <1>6, <1>7, <1>8, <1>9, <1>10, <1>11, <1>12, Zenon DEF Thread

\* A USED slot stays so until its fork() makes it RUNNABLE.
LEMMA UsedStays ==
  ASSUME StackInv, NEW c \in CPU, NEW p \in Slot, Thread(c, p),
         NEW x \in Slot, state[x] = "USED"
  PROVE  state'[x] = "USED" \/ (kpc[p] = "setrunnable" /\ kpc'[p] = "trapret" /\ x = knp[p])
<1>0. TableOK /\ ThreadsOK /\ CpusOK /\ LocalsOK
  BY Pieces, Zenon DEF StackInv
<1>t. DOMAIN state = Slot /\ DOMAIN kpc = Slot
  BY <1>0, Zenon DEF TableOK, ThreadsOK
<1>r. ASSUME Runs(c, p) PROVE x # p
  BY <1>r, RunsIs, Zenon
<1>1. CASE Sched(c, p) \/ Resume(c, p)
  BY <1>1, Zenon DEF Sched, Resume, table
<1>2. CASE Yield(c, p)
  BY <1>2, <1>r, <1>t, Zenon DEF Yield
<1>3. ASSUME NEW call, Syscall(c, p, call) PROVE state' = state
  BY <1>3, Zenon DEF Syscall, table
<1>4. CASE TrapReturn(c, p) \/ ForkSetParent(c, p)
  BY <1>4, Zenon DEF TrapReturn, ForkSetParent, table
<1>5. CASE Fork(c, p)
  <2>1. \/ state' = state
        \/ /\ state[ki[p]] = "UNUSED"
           /\ \/ state' = [state EXCEPT ![ki[p]] = "USED"]
              \/ state' = [state EXCEPT ![ki[p]] = "UNUSED"]
    BY <1>5, Zenon DEF Fork, FreeProc, table
  <2> QED
    BY <1>t, <2>1, Zenon
<1>6. CASE ForkSetRunnable(c, p)
  BY <1>6, <1>t, Zenon DEF ForkSetRunnable, At, Goto
<1>7. CASE Exit(c, p) \/ Wait(c, p)
  BY <1>7, Zenon DEF Exit, Wait, table
<1>8. CASE Reparent(c, p) \/ WaitDecide(c, p)
  BY <1>8, Zenon DEF Reparent, WaitDecide, table
<1>9. CASE WakeInit(c, p) \/ WakeParent(c, p)
  <2>1. PICK ch, next : Wakeup(c, p, ch, next)
    BY <1>9, Zenon DEF WakeInit, WakeParent
  <2> QED
    BY <1>t, <2>1, Zenon DEF Wakeup
<1>10. CASE Zombie(c, p) \/ Sleep(c, p)
  BY <1>10, <1>r, <1>t, Zenon DEF Zombie, Sleep, At
<1>11. CASE WaitScan(c, p)
  <2>1. state' = state \/ (state[ki[p]] = "ZOMBIE" /\ state' = [state EXCEPT ![ki[p]] = "UNUSED"])
    BY <1>11, Zenon DEF WaitScan, FreeProc, table
  <2> QED
    BY <1>t, <2>1, Zenon
<1>12. CASE Kill(c, p)
  BY <1>12, <1>t, Zenon DEF Kill
<1> QED
  BY <1>1, <1>2, <1>3, <1>4, <1>5, <1>6, <1>7, <1>8, <1>9, <1>10, <1>11, <1>12, Zenon DEF Thread

\* A thread is filling in a slot because it was before, or has just found it.
LEMMA ToFilling ==
  ASSUME StackInv, NEW c \in CPU, NEW p \in Slot, Thread(c, p), kpc'[p] \in Filling
  PROVE  \/ kpc[p] \in Filling /\ knp'[p] = knp[p]
         \/ knp'[p] \in Slot /\ state[knp'[p]] = "UNUSED" /\ state'[knp'[p]] = "USED"
<1>0. TableOK /\ ThreadsOK /\ CpusOK /\ LocalsOK
  BY Pieces, Zenon DEF StackInv
<1>t. DOMAIN state = Slot /\ DOMAIN kpc = Slot /\ DOMAIN knp = Slot
  BY <1>0, Zenon DEF TableOK, ThreadsOK, LocalsOK
<1> USE DEF Filling, Goto, locals
<1>1. CASE Sched(c, p) \/ Resume(c, p) \/ Yield(c, p)
  BY <1>1, Zenon DEF Sched, Resume, Yield
<1>2. ASSUME NEW call \in {"fork", "exit", "wait", "kill"}, Syscall(c, p, call) PROVE FALSE
  BY <1>2, <1>t, Zenon DEF Syscall
<1>3. CASE TrapReturn(c, p) \/ ForkSetRunnable(c, p)
  BY <1>3, <1>t, Zenon DEF TrapReturn, ForkSetRunnable
<1>4. CASE Fork(c, p)
  <2>1. /\ state[ki[p]] = "UNUSED" /\ ~(ki[p] > NPROC)
        /\ state' = [state EXCEPT ![ki[p]] = "USED"] /\ knp' = [knp EXCEPT ![p] = ki[p]]
    BY <1>4, <1>t, Zenon DEF Fork, At
  <2>2. ki[p] \in Slot
    BY <1>0, <2>1, Loops, Zenon
  <2> QED
    BY <1>t, <2>1, <2>2, Zenon
<1>5. CASE ForkSetParent(c, p)
  BY <1>5, Zenon DEF ForkSetParent, At
<1>6. CASE Exit(c, p) \/ Wait(c, p)
  BY <1>6, <1>t, Zenon DEF Exit, Wait
<1>7. CASE Reparent(c, p) \/ WaitDecide(c, p)
  BY <1>7, <1>t, Zenon DEF Reparent, WaitDecide, At
<1>8. CASE WakeInit(c, p) \/ WakeParent(c, p)
  BY <1>8, <1>t, Zenon DEF WakeInit, WakeParent, Wakeup, At
<1>9. CASE Zombie(c, p) \/ Sleep(c, p)
  BY <1>9, <1>t, Zenon DEF Zombie, Sleep
<1>10. CASE WaitScan(c, p)
  BY <1>10, <1>t, Zenon DEF WaitScan, At
<1>11. CASE Kill(c, p)
  BY <1>11, <1>t, Zenon DEF Kill, At
<1> QED
  BY <1>1, <1>2, <1>3, <1>4, <1>5, <1>6, <1>7, <1>8, <1>9, <1>10, <1>11, Zenon DEF Thread

\* Each step keeps the slots of the forks apart.
LEMMA NextFork ==
  ASSUME StackInv, [Next]_vars
  PROVE  ForkInv'
<1>0. TableOK /\ ThreadsOK /\ LocalsOK /\ ForkInv
  BY Pieces, Zenon DEF StackInv
<1>t. DOMAIN state = Slot /\ \A q \in Slot : knp[q] \in Slot
  BY <1>0, Zenon DEF TableOK, LocalsOK
<1>f. \A q \in Slot : kpc[q] \in Filling =>
        /\ state[knp[q]] = "USED"
        /\ \A r \in Slot : kpc[r] \in Filling /\ knp[r] = knp[q] => r = q
  BY <1>0, Zenon DEF ForkInv
<1>1. ASSUME NEW c \in CPU, Scheduler(c) \/ SchedulerReturn(c) PROVE ForkInv'
  <2>1. UNCHANGED <<kpc, knp>>
    BY <1>1, Zenon DEF Scheduler, SchedulerReturn, locals
  <2>2. \A q \in Slot : state[q] = "USED" => state'[q] = "USED"
    BY <1>1, <1>t, Zenon DEF Scheduler, SchedulerReturn, table
  <2> QED
    BY <1>f, <1>t, <2>1, <2>2, Zenon DEF ForkInv
<1>2. CASE UNCHANGED vars
  BY <1>0, <1>2, Zenon DEF vars, table, locals, ForkInv
<1>3. ASSUME NEW c \in CPU, NEW p \in Slot, Thread(c, p) PROVE ForkInv'
  <2>1. \A q \in Slot \ {p} : kpc'[q] \in Filling => kpc[q] \in Filling /\ knp'[q] = knp[q]
    BY <1>3, Places, Zenon DEF StackInv, Filling
  <2>2. \A q \in Slot \ {p} : kpc'[q] \in Filling => state'[knp[q]] = "USED"
    <3> SUFFICES ASSUME NEW q \in Slot \ {p}, kpc'[q] \in Filling
                 PROVE  state'[knp[q]] = "USED"
      BY Zenon
    <3>1. state[knp[q]] = "USED" /\ knp[q] \in Slot /\ ~(kpc[p] \in Filling /\ knp[p] = knp[q])
      BY <1>f, <1>t, <2>1, Zenon
    <3> QED
      BY <1>3, <3>1, UsedStays, Zenon DEF Filling
  <2>3. CASE kpc'[p] \notin Filling
    BY <1>f, <2>1, <2>2, <2>3, Zenon DEF ForkInv
  <2>4. CASE kpc'[p] \in Filling /\ kpc[p] \in Filling /\ knp'[p] = knp[p]
    <3>1. state'[knp[p]] = "USED"
      BY <1>3, <1>f, <1>t, <2>4, UsedStays, Zenon DEF Filling
    <3> QED
      BY <1>f, <2>1, <2>2, <2>4, <3>1 DEF ForkInv
  <2>5. CASE kpc'[p] \in Filling /\ state[knp'[p]] = "UNUSED" /\ state'[knp'[p]] = "USED"
    <3>1. \A q \in Slot \ {p} : kpc'[q] \in Filling => knp'[q] # knp'[p]
      BY <1>f, <2>1, <2>5
    <3> QED
      BY <1>f, <2>1, <2>2, <2>5, <3>1 DEF ForkInv
  <2> QED
    BY <1>3, <2>3, <2>4, <2>5, ToFilling, Zenon
<1> QED
  BY <1>1, <1>2, <1>3, Zenon DEF Next

\* The thread inside exit() or wait() is the one wait_lock's CPU executes.
LEMMA HolderIs ==
  ASSUME StackInv, NEW c \in CPU, NEW p \in Slot, on[c] = p, kpc[p] \in Waiting
  PROVE  wlock = c /\ \A q \in Slot \ {p} : kpc[q] \notin Waiting
<1>1. wlock \in CPU /\ on[wlock] = p /\ \A q \in Slot : kpc[q] \in Waiting => q = p
  BY Zenon DEF StackInv, WaitLockInv
<1>2. p # NoProc
  BY ProcAssumption DEF Slot, NoProc
<1>3. cproc[c] = p /\ cproc[wlock] = p
  BY <1>1, <1>2, Zenon DEF StackInv, CpuInv
<1>4. wlock = c
  BY <1>1, <1>2, <1>3 DEF StackInv, CpuInv
<1> QED
  BY <1>1, <1>4, Zenon

\* Each step keeps wait_lock with the thread inside exit() or wait().
LEMMA NextWaitLock ==
  ASSUME StackInv, [Next]_vars
  PROVE  WaitLockInv'
<1>0. TableOK /\ ThreadsOK /\ CpusOK /\ LocalsOK /\ CpuInv /\ SwInv /\ WaitLockInv
  BY Pieces, Zenon DEF StackInv
<1>t. /\ DOMAIN kpc = Slot /\ DOMAIN sw = Slot /\ DOMAIN on = CPU
      /\ \A d \in CPU : on[d] \in Slot \cup {NoProc}
      /\ wlock \in CPU \cup {NoCpu} /\ NoCpu \notin CPU /\ NoProc \notin Slot
  BY <1>0, ProcAssumption DEF ThreadsOK, CpusOK, Slot, NoProc
<1>w. /\ \A q \in Slot : kpc[q] \in Waiting => wlock \in CPU /\ on[wlock] = q /\ sw[q] = "none"
      /\ wlock \in CPU => on[wlock] \in Slot /\ kpc[on[wlock]] \in Waiting
  BY <1>0, <1>t, Zenon DEF WaitLockInv
<1>l. \A d \in CPU : on[d] # NoProc => state[on[d]] # "UNUSED"
  BY <1>0, <1>t, Zenon DEF CpuInv
<1>1. ASSUME NEW c \in CPU, Scheduler(c) \/ SchedulerReturn(c) PROVE WaitLockInv'
  <2>1. /\ on[c] = NoProc /\ UNCHANGED <<kpc, sw, wlock>>
        /\ \A d \in CPU \ {c} : on'[d] = on[d]
    BY <1>1, <1>t, Zenon DEF Scheduler, SchedulerReturn
  <2> QED
    BY <1>t, <1>w, <2>1, Zenon DEF WaitLockInv
<1>2. CASE UNCHANGED vars
  BY <1>0, <1>2, Zenon DEF vars, locks, cpus, WaitLockInv
<1> SUFFICES ASSUME NEW c \in CPU, NEW p \in Slot, Thread(c, p)
             PROVE  WaitLockInv'
  BY <1>1, <1>2, Zenon DEF Next
<1>p. \A q \in Slot \ {p} : kpc'[q] # kpc[q] => kpc'[q] = "user" /\ state[q] = "UNUSED"
  BY Places, Zenon DEF StackInv
<1>h. ASSUME on[c] = p, kpc[p] \in Waiting
      PROVE  wlock = c /\ \A q \in Slot \ {p} : kpc'[q] \notin Waiting
  BY <1>h, <1>p, HolderIs, Zenon DEF Waiting
<1>a. ASSUME kpc[p] \notin Waiting, kpc'[p] \notin Waiting, UNCHANGED <<wlock, on>>,
             \A q \in Slot \ {p} : state[q] # "UNUSED" => sw'[q] = sw[q]
      PROVE  WaitLockInv'
  <2>1. ASSUME NEW q \in Slot, kpc'[q] \in Waiting
        PROVE  wlock' \in CPU /\ on'[wlock'] = q /\ sw'[q] = "none"
    <3>1. kpc[q] \in Waiting /\ q # p
      BY <1>a, <1>p, <2>1, Zenon DEF Waiting
    <3>2. wlock \in CPU /\ on[wlock] = q /\ sw[q] = "none"
      BY <1>w, <3>1, Zenon
    <3> QED
      BY <1>a, <1>l, <1>t, <3>1, <3>2, Zenon
  <2>2. ASSUME wlock' \in CPU PROVE on'[wlock'] # NoProc /\ kpc'[on'[wlock']] \in Waiting
    <3>1. on[wlock] \in Slot /\ kpc[on[wlock]] \in Waiting
      BY <1>a, <1>w, <2>2, Zenon
    <3>2. on[wlock] # p /\ state[on[wlock]] # "UNUSED"
      BY <1>a, <1>l, <1>t, <2>2, <3>1, Zenon
    <3> QED
      BY <1>a, <1>p, <1>t, <3>1, <3>2, Zenon
  <2> QED
    BY <2>1, <2>2, Zenon DEF WaitLockInv
<1>b. ASSUME Runs(c, p), wlock = NoCpu, wlock' = c, kpc'[p] \in Waiting, UNCHANGED <<sw, on>>
      PROVE  WaitLockInv'
  <2>1. \A q \in Slot \ {p} : kpc'[q] \notin Waiting
    BY <1>b, <1>p, <1>t, <1>w, Zenon DEF Waiting
  <2> QED
    BY <1>b, <1>t, <2>1, Zenon DEF WaitLockInv, Runs
<1>c. ASSUME Runs(c, p), kpc[p] \in Waiting, kpc'[p] \in Waiting, UNCHANGED <<sw, on, wlock>>
      PROVE  WaitLockInv'
  <2>1. wlock = c /\ \A q \in Slot \ {p} : kpc'[q] \notin Waiting
    BY <1>c, <1>h, Zenon DEF Runs
  <2> QED
    BY <1>c, <1>t, <2>1, Zenon DEF WaitLockInv, Runs
<1>d. ASSUME Runs(c, p), kpc[p] \in Waiting, kpc'[p] \notin Waiting, wlock' = NoCpu
      PROVE  WaitLockInv'
  <2>1. \A q \in Slot : kpc'[q] \notin Waiting
    BY <1>d, <1>h, Zenon DEF Runs
  <2> QED
    BY <1>d, <1>t, <2>1, Zenon DEF WaitLockInv
<1> USE DEF Waiting, At, Goto, locks, cpus
<1>3. CASE Sched(c, p)
  <2>1. /\ on[c] = p /\ sw[p] # "none" /\ on'[c] = NoProc /\ UNCHANGED <<kpc, sw, wlock>>
        /\ \A d \in CPU \ {c} : on'[d] = on[d]
    BY <1>3, <1>t, Zenon DEF Sched
  <2>2. wlock # c
    BY <1>t, <1>w, <2>1, Zenon
  <2> QED
    BY <1>t, <1>w, <2>1, <2>2, Zenon DEF WaitLockInv
<1>4. CASE Resume(c, p)
  <2>1. /\ sw[p] # "none" /\ UNCHANGED <<kpc, on, wlock>>
        /\ \A q \in Slot \ {p} : sw'[q] = sw[q]
    BY <1>4, <1>t, Zenon DEF Resume
  <2>2. kpc[p] \notin Waiting
    BY <1>w, <2>1, Zenon
  <2> QED
    BY <1>a, <2>1, <2>2, Zenon
<1>5. CASE Yield(c, p)
  <2>1. /\ on[c] = p /\ wlock # c /\ UNCHANGED <<kpc, on, wlock>>
        /\ \A q \in Slot \ {p} : sw'[q] = sw[q]
    BY <1>5, <1>t, Zenon DEF Yield, Runs
  <2>2. kpc[p] \notin Waiting
    BY <1>h, <2>1, Zenon
  <2> QED
    BY <1>a, <2>1, <2>2, Zenon
<1>6. ASSUME NEW call \in {"fork", "exit", "wait", "kill"}, Syscall(c, p, call)
      PROVE  WaitLockInv'
  BY <1>6, <1>a, <1>t, Zenon DEF Syscall
<1>7. CASE TrapReturn(c, p)
  BY <1>7, <1>a, <1>t, Zenon DEF TrapReturn
<1>8. CASE Fork(c, p)
  <2>1. kpc[p] \notin Waiting /\ UNCHANGED <<wlock, on>>
    BY <1>8, Zenon DEF Fork
  <2>2. kpc'[p] \notin Waiting
    BY <1>8, <1>t, <2>1, Zenon DEF Fork
  <2>3. \A q \in Slot \ {p} : state[q] # "UNUSED" => sw'[q] = sw[q]
    BY <1>8, <1>t, Zenon DEF Fork
  <2> QED
    BY <1>a, <2>1, <2>2, <2>3, Zenon
<1>9. CASE ForkSetParent(c, p) \/ ForkSetRunnable(c, p)
  BY <1>9, <1>a, <1>t, Zenon DEF ForkSetParent, ForkSetRunnable
<1>10. CASE Exit(c, p) \/ Wait(c, p)
  BY <1>10, <1>b, <1>t, Zenon DEF Exit, Wait
<1>11. CASE Reparent(c, p)
  BY <1>11, <1>c, <1>t, Zenon DEF Reparent
<1>12. CASE WakeInit(c, p) \/ WakeParent(c, p)
  BY <1>12, <1>c, <1>t, Zenon DEF WakeInit, WakeParent, Wakeup
<1>13. CASE Zombie(c, p) \/ Sleep(c, p)
  BY <1>13, <1>d, <1>t, Zenon DEF Zombie, Sleep
<1>14. CASE WaitScan(c, p)
  <2>1. Runs(c, p) /\ kpc[p] \in Waiting /\ on' = on
    BY <1>14, Zenon DEF WaitScan
  <2>2. \/ kpc' = kpc /\ wlock' = wlock /\ sw' = sw
        \/ kpc' = [kpc EXCEPT ![p] = "trapret"] /\ wlock' = NoCpu
    BY <1>14, Zenon DEF WaitScan
  <2> QED
    BY <1>c, <1>d, <1>t, <2>1, <2>2, Zenon
<1>15. CASE WaitDecide(c, p)
  <2>1. Runs(c, p) /\ kpc[p] \in Waiting /\ on' = on /\ sw' = sw
    BY <1>15, Zenon DEF WaitDecide
  <2>2. \/ kpc' = [kpc EXCEPT ![p] = "sleep"] /\ wlock' = wlock
        \/ kpc' = [kpc EXCEPT ![p] = "trapret"] /\ wlock' = NoCpu
    BY <1>15, Zenon DEF WaitDecide
  <2> QED
    BY <1>c, <1>d, <1>t, <2>1, <2>2, Zenon
<1>16. CASE Kill(c, p)
  BY <1>16, <1>a, <1>t, Zenon DEF Kill
<1> QED
  BY <1>3, <1>4, <1>5, <1>6, <1>7, <1>8, <1>9, <1>10, <1>11, <1>12, <1>13, <1>14,
     <1>15, <1>16, Zenon DEF Thread

\* Init establishes the invariant of the stacks.
LEMMA InitStack ==
  ASSUME Init
  PROVE  StackInv
<1>1. TypeOK
  BY InitType, Zenon
<1>2. CpuInv
  BY ProcAssumption, Zenon DEF Init, CpuInv, NoProc, Slot
<1>3. SwInv
  BY Zenon DEF Init, SwInv, Fits
<1>4. ForkInv /\ WaitLockInv
  BY ProcAssumption, Zenon DEF Init, ForkInv, WaitLockInv, Filling, Waiting
<1> QED
  BY <1>1, <1>2, <1>3, <1>4, Zenon DEF StackInv

\* Each step keeps it.
LEMMA NextStack ==
  ASSUME StackInv, [Next]_vars
  PROVE  StackInv'
<1>1. TypeOK'
  BY NextType, Zenon DEF StackInv
<1> QED
  BY <1>1, NextCpu, NextFork, NextWaitLock, Zenon DEF StackInv

\* It holds always.
LEMMA StackAlways == Spec => []StackInv
<1>1. Init => StackInv
  BY InitStack, Zenon
<1>2. StackInv /\ [Next]_vars => StackInv'
  BY NextStack, Zenon
<1> QED
  BY <1>1, <1>2, PTL DEF Spec

\* Each kernel stack is used by at most one CPU, no slot is freed or handed
\* out again under a CPU that is on its stack, and none of sched()'s panics can
\* happen, for any number of harts and slots.
THEOREM ProcStacksExclusive == Spec => []StacksExclusive
<1>1. StackInv => StacksExclusive
  <2> SUFFICES ASSUME StackInv
               PROVE  StacksExclusive
    BY Zenon
  <2>1. TypeOK /\ CpuInv /\ SwInv /\ WaitLockInv
    BY Zenon DEF StackInv
  <2>2. \A c, d \in CPU : c # d /\ on[c] # NoProc => on[c] # on[d]
    BY <2>1 DEF CpuInv
  <2>3. \A c \in CPU : on[c] # NoProc => state[on[c]] \notin {"UNUSED", "USED"}
    BY <2>1, Zenon DEF CpuInv
  <2>4. \A p \in Slot : state[p] = "RUNNING" => \E c \in CPU : on[c] = p
    <3>1. NoProc \notin Slot
      BY ProcAssumption DEF Slot, NoProc
    <3> QED
      BY <2>1, <3>1 DEF CpuInv
  <2>5. ASSUME NEW c \in CPU, NEW p \in Slot, on[c] = p, sw[p] # "none"
        PROVE  Held(c) = {p} /\ wlock # c /\ (sw[p] = "exit" => state[p] = "ZOMBIE")
    <3>1. p # NoProc /\ NoCpu # c
      BY ProcAssumption DEF Slot, NoProc
    <3>2. cproc[c] = p /\ plock[p] = c
      BY <2>1, <2>5, <3>1 DEF CpuInv
    <3>3. \A q \in Slot : plock[q] = c => q = p
      BY <2>1, <3>1, <3>2, Zenon DEF CpuInv
    <3>4. wlock # c
      BY <2>1, <2>5, Zenon DEF WaitLockInv
    <3>5. sw[p] = "exit" => state[p] = "ZOMBIE"
      BY <2>1, Zenon DEF SwInv, Fits
    <3> QED
      BY <3>2, <3>3, <3>4, <3>5, Zenon DEF Held
  <2>6. \A c \in CPU : on[c] \in Slot \cup {NoProc}
    BY <2>1, Zenon DEF TypeOK
  <2> QED
    BY <2>1, <2>2, <2>3, <2>4, <2>5, <2>6, Zenon DEF StacksExclusive
<1> QED
  BY <1>1, StackAlways, PTL

-----------------------------------------------------------------------------
(* kill(), exit() and wait() *)

\* The pid a kill() looks for is one somebody passed to it.
KillInv == \A p \in Slot : kpc[p] = "kill" => kpid[p] \in KillPid

\* A killed process has such a pid, and an UNUSED slot has none.
VictimInv ==
  \A p \in Slot : /\ killed[p] => pid[p] \in KillPid
                  /\ state[p] = "UNUSED" => pid[p] = 0

Exiting == {"exit", "reparent", "wakeinit", "wakeparent", "zombie"}
Alive(p) == state[p] \notin {"UNUSED", "USED", "ZOMBIE"}
Asleep(p) == state[p] = "SLEEPING" /\ chan[p] = p

\* init is not killed and does not exit.
InitInv ==
  /\ pid[initproc] = 1 /\ ~killed[initproc]
  /\ Alive(initproc) /\ kpc[initproc] \notin Exiting

\* A parent is alive; a process behind reparent() has no children left.
ParentInv ==
  /\ \A p \in Slot \ {initproc} : parent[p] = NoProc => state[p] \in {"UNUSED", "USED"}
  /\ \A p \in Slot : parent[p] # NoProc => Alive(parent[p])
  /\ \A p \in Slot : kpc[p] = "setrunnable" => parent[knp[p]] # NoProc
  /\ \A p \in Slot : kpc[p] \in {"reparent", "wakeinit"} =>
       \A q \in Slot : q < ki[p] => parent[q] # p
  /\ \A p \in Slot : kpc[p] \in {"wakeparent", "zombie"} =>
       \A q \in Slot : parent[q] # p

\* The parent of a ZOMBIE sleeps in wait() only while exit() is about to wake
\* init; exit() has woken the parent before the process is a ZOMBIE; wait() has
\* seen that no child is one before it sleeps.
WakeInv ==
  /\ \A p \in Slot : state[p] = "ZOMBIE" /\ parent[p] # NoProc /\ Asleep(parent[p]) =>
       /\ wlock \in CPU /\ parent[p] = initproc
       /\ kpc[on[wlock]] = "wakeinit" /\ kj[on[wlock]] = 1
  /\ \A p \in Slot : kpc[p] = "wakeparent" /\ parent[p] # NoProc /\ parent[p] < kj[p] =>
       ~Asleep(parent[p])
  /\ \A p \in Slot : kpc[p] = "zombie" /\ parent[p] # NoProc => ~Asleep(parent[p])
  /\ \A p \in Slot : kpc[p] = "scan" =>
       \A q \in Slot : q < ki[p] /\ parent[q] = p => state[q] # "ZOMBIE"
  /\ \A p \in Slot : kpc[p] = "sleep" =>
       \A q \in Slot : parent[q] = p => state[q] # "ZOMBIE"

-----------------------------------------------------------------------------
(* kill() *)

\* Each step keeps the pids passed to kill() what they were.
LEMMA NextKill ==
  ASSUME StackInv, KillInv, [Next]_vars
  PROVE  KillInv'
<1>0. TableOK /\ ThreadsOK /\ CpusOK /\ LocalsOK
  BY Pieces, Zenon DEF StackInv
<1>t. DOMAIN kpc = Slot /\ DOMAIN kpid = Slot
  BY <1>0, Zenon DEF ThreadsOK, LocalsOK
<1>1. CASE (\E c \in CPU : Scheduler(c) \/ SchedulerReturn(c)) \/ UNCHANGED vars
  BY <1>1, Zenon DEF Scheduler, SchedulerReturn, vars, locals, KillInv
<1> SUFFICES ASSUME NEW c \in CPU, NEW p \in Slot, Thread(c, p)
             PROVE  KillInv'
  BY <1>1, Zenon DEF Next
<1>p. \A q \in Slot \ {p} : kpc'[q] = "kill" => kpc[q] = "kill" /\ kpid'[q] = kpid[q]
  BY Places, Zenon DEF StackInv
<1> SUFFICES ASSUME kpc'[p] = "kill"
             PROVE  kpid'[p] \in KillPid
  BY <1>p, Zenon DEF KillInv
<1>k. ASSUME kpc[p] = "kill", kpid' = kpid PROVE kpid'[p] \in KillPid
  BY <1>k, Zenon DEF KillInv
<1> USE DEF Goto, At, locals
<1>2. CASE Sched(c, p) \/ Resume(c, p) \/ Yield(c, p)
  BY <1>2, <1>k, Zenon DEF Sched, Resume, Yield
<1>3. ASSUME NEW call \in {"fork", "exit", "wait", "kill"}, Syscall(c, p, call)
      PROVE  kpid'[p] \in KillPid
  <2>1. call = "kill"
    BY <1>3, <1>t, Zenon DEF Syscall
  <2> QED
    BY <1>3, <1>t, <2>1, Zenon DEF Syscall
<1>4. CASE TrapReturn(c, p)
  BY <1>4, <1>t, Zenon DEF TrapReturn
<1>5. CASE Fork(c, p)
  <2>1. kpc' = kpc \/ kpc'[p] \in {"trapret", "setparent", "user"}
    BY <1>5, <1>t, Zenon DEF Fork
  <2> QED
    BY <1>5, <2>1, Zenon DEF Fork
<1>6. CASE ForkSetParent(c, p) \/ ForkSetRunnable(c, p)
  BY <1>6, <1>t, Zenon DEF ForkSetParent, ForkSetRunnable
<1>7. CASE Exit(c, p) \/ Wait(c, p)
  BY <1>7, <1>t, Zenon DEF Exit, Wait
<1>8. CASE Reparent(c, p) \/ WaitDecide(c, p)
  BY <1>8, <1>t, Zenon DEF Reparent, WaitDecide
<1>9. CASE WakeInit(c, p) \/ WakeParent(c, p)
  BY <1>9, <1>t, Zenon DEF WakeInit, WakeParent, Wakeup
<1>10. CASE Zombie(c, p) \/ Sleep(c, p)
  BY <1>10, <1>t, Zenon DEF Zombie, Sleep
<1>11. CASE WaitScan(c, p)
  BY <1>11, <1>t, Zenon DEF WaitScan
<1>12. CASE Kill(c, p)
  BY <1>12, <1>k, Zenon DEF Kill
<1> QED
  BY <1>2, <1>3, <1>4, <1>5, <1>6, <1>7, <1>8, <1>9, <1>10, <1>11, <1>12, Zenon DEF Thread

\* How a step changes a slot's identity: fork() names an UNUSED slot, kill()
\* marks the slot with its pid, freeproc() clears an UNUSED slot or a ZOMBIE.
LEMMA Identities ==
  ASSUME StackInv, NEW c \in CPU, NEW p \in Slot, Thread(c, p), NEW x \in Slot
  PROVE  \/ pid'[x] = pid[x] /\ (killed'[x] <=> killed[x])
         \/ state[x] = "UNUSED" /\ state'[x] # "UNUSED" /\ (killed'[x] <=> killed[x])
         \/ kpc[p] = "kill" /\ pid[x] = kpid[p] /\ pid'[x] = pid[x]
         \/ ~Alive(x) /\ pid'[x] = 0 /\ ~killed'[x]
<1>0. TableOK /\ ThreadsOK /\ CpusOK /\ LocalsOK
  BY Pieces, Zenon DEF StackInv
<1>t. DOMAIN state = Slot /\ DOMAIN pid = Slot /\ killed \in [Slot -> BOOLEAN]
  BY <1>0, Zenon DEF TableOK
<1> USE DEF table
<1>f. ASSUME NEW q \in Slot, FreeProc(q), ~Alive(q)
      PROVE  \/ pid'[x] = pid[x] /\ (killed'[x] <=> killed[x])
             \/ ~Alive(x) /\ pid'[x] = 0 /\ ~killed'[x]
  BY <1>f, <1>t, Zenon DEF FreeProc
<1>1. CASE Sched(c, p) \/ Resume(c, p) \/ Yield(c, p)
  BY <1>1, Zenon DEF Sched, Resume, Yield
<1>2. ASSUME NEW call, Syscall(c, p, call) PROVE UNCHANGED <<pid, killed>>
  BY <1>2, Zenon DEF Syscall
<1>3. CASE TrapReturn(c, p) \/ ForkSetParent(c, p) \/ ForkSetRunnable(c, p)
  BY <1>3, Zenon DEF TrapReturn, ForkSetParent, ForkSetRunnable
<1>4. CASE Fork(c, p)
  <2>1. CASE ki[p] > NPROC \/ state[ki[p]] # "UNUSED"
    BY <1>4, <2>1, Zenon DEF Fork
  <2>2. CASE ~(ki[p] > NPROC) /\ state[ki[p]] = "UNUSED"
    <3>1. PICK np \in Slot : np = ki[p]
      BY <1>0, <2>2, Loops, Zenon
    <3>2. \/ /\ pid' = [pid EXCEPT ![np] = nextpid] /\ killed' = killed
             /\ state' = [state EXCEPT ![np] = "USED"]
          \/ FreeProc(np)
      BY <1>4, <2>2, <3>1, Zenon DEF Fork
    <3> QED
      BY <1>f, <1>t, <2>2, <3>1, <3>2, Zenon DEF Alive
  <2> QED
    BY <2>1, <2>2, Zenon
<1>5. CASE Exit(c, p) \/ Wait(c, p) \/ Reparent(c, p) \/ WaitDecide(c, p)
  BY <1>5, Zenon DEF Exit, Wait, Reparent, WaitDecide
<1>6. CASE WakeInit(c, p) \/ WakeParent(c, p)
  BY <1>6, Zenon DEF WakeInit, WakeParent, Wakeup
<1>7. CASE Zombie(c, p) \/ Sleep(c, p)
  BY <1>7, Zenon DEF Zombie, Sleep
<1>8. CASE WaitScan(c, p)
  <2>1. UNCHANGED <<pid, killed>> \/ (FreeProc(ki[p]) /\ state[ki[p]] = "ZOMBIE")
    BY <1>8, Zenon DEF WaitScan
  <2>2. ki[p] \in Slot
    BY <1>0, <1>8, Loops, Zenon DEF WaitScan
  <2> QED
    BY <1>f, <2>1, <2>2, Zenon DEF Alive
<1>9. CASE Kill(c, p)
  <2>1. UNCHANGED <<pid, killed>>
        \/ (/\ pid' = pid /\ killed' = [killed EXCEPT ![ki[p]] = TRUE]
            /\ pid[ki[p]] = kpid[p] /\ kpc[p] = "kill")
    BY <1>9, Zenon DEF Kill, At
  <2> QED
    BY <1>t, <2>1, Zenon
<1> QED
  BY <1>1, <1>2, <1>3, <1>4, <1>5, <1>6, <1>7, <1>8, <1>9, Zenon DEF Thread

\* How a step changes a slot's state: who falls asleep, dies, is freed, or
\* comes alive.
LEMMA States ==
  ASSUME StackInv, NEW c \in CPU, NEW p \in Slot, Thread(c, p), NEW x \in Slot
  PROVE  /\ Asleep(x)' => Asleep(x) \/ (x = p /\ kpc[p] = "sleep" /\ kpc'[p] = "wait")
         /\ state'[x] = "ZOMBIE" => state[x] = "ZOMBIE" \/ (x = p /\ kpc[p] = "zombie")
         /\ Alive(x) => Alive(x)' \/ (x = p /\ kpc[p] = "zombie")
         /\ state[x] \in {"UNUSED", "USED"} =>
              state'[x] \in {"UNUSED", "USED"} \/ (kpc[p] = "setrunnable" /\ x = knp[p])
         /\ state'[x] = "UNUSED" =>
              state[x] = "UNUSED" \/ (pid'[x] = 0 /\ state[x] = "ZOMBIE")
<1>0. TableOK /\ ThreadsOK /\ CpusOK /\ LocalsOK
  BY Pieces, Zenon DEF StackInv
<1>t. /\ DOMAIN state = Slot /\ DOMAIN chan = Slot /\ DOMAIN pid = Slot
      /\ DOMAIN kpc = Slot /\ NoProc \notin Slot
  BY <1>0, ProcAssumption DEF TableOK, ThreadsOK, Slot, NoProc
<1>r. ASSUME Runs(c, p) PROVE state[p] = "RUNNING"
  BY <1>r, RunsIs, Zenon
<1> USE DEF Asleep, Alive, table
<1>1. CASE Sched(c, p)
  BY <1>1, Zenon DEF Sched
<1>2. CASE Resume(c, p)
  BY <1>2, <1>t, Zenon DEF Resume
<1>3. CASE Yield(c, p)
  BY <1>3, <1>r, <1>t, Zenon DEF Yield
<1>4. ASSUME NEW call, Syscall(c, p, call) PROVE UNCHANGED <<state, chan>>
  BY <1>4, Zenon DEF Syscall
<1>5. CASE TrapReturn(c, p) \/ ForkSetParent(c, p)
  BY <1>5, Zenon DEF TrapReturn, ForkSetParent
<1>6. CASE Fork(c, p)
  <2>1. CASE ki[p] > NPROC \/ state[ki[p]] # "UNUSED"
    BY <1>6, <2>1, Zenon DEF Fork
  <2>2. CASE ~(ki[p] > NPROC) /\ state[ki[p]] = "UNUSED"
    <3>1. \/ state' = [state EXCEPT ![ki[p]] = "USED"]
          \/ state' = [state EXCEPT ![ki[p]] = "UNUSED"]
      BY <1>6, <2>2, Zenon DEF Fork, FreeProc
    <3>2. chan' = chan \/ chan' = [chan EXCEPT ![ki[p]] = NoProc]
      BY <1>6, <2>2, Zenon DEF Fork, FreeProc
    <3> QED
      BY <1>t, <2>2, <3>1, <3>2, Zenon
  <2> QED
    BY <2>1, <2>2, Zenon
<1>7. CASE ForkSetRunnable(c, p)
  <2>1. state[knp[p]] = "USED"
    BY <1>7, Zenon DEF ForkSetRunnable, At, StackInv, ForkInv, Filling
  <2> QED
    BY <1>7, <1>t, <2>1, Zenon DEF ForkSetRunnable, At
<1>8. CASE Exit(c, p) \/ Wait(c, p) \/ Reparent(c, p) \/ WaitDecide(c, p)
  BY <1>8, Zenon DEF Exit, Wait, Reparent, WaitDecide
<1>9. CASE WakeInit(c, p) \/ WakeParent(c, p)
  <2>1. PICK ch, next : Wakeup(c, p, ch, next)
    BY <1>9, Zenon DEF WakeInit, WakeParent
  <2>2. chan' = chan /\ (state'[x] = state[x] \/ (state[x] = "SLEEPING" /\ state'[x] = "RUNNABLE"))
    BY <1>t, <2>1, Zenon DEF Wakeup
  <2> QED
    BY <2>2, Zenon
<1>10. CASE Zombie(c, p)
  BY <1>10, <1>r, <1>t, Zenon DEF Zombie, At
<1>11. CASE Sleep(c, p)
  <2>1. /\ kpc[p] = "sleep" /\ kpc'[p] = "wait" /\ state'[p] = "SLEEPING" /\ state[p] = "RUNNING"
        /\ \A q \in Slot \ {p} : state'[q] = state[q] /\ chan'[q] = chan[q]
    BY <1>11, <1>r, <1>t, Zenon DEF Sleep, At, Goto
  <2> QED
    BY <2>1, Zenon
<1>12. CASE WaitScan(c, p)
  <2>1. UNCHANGED <<state, chan>> \/ (FreeProc(ki[p]) /\ state[ki[p]] = "ZOMBIE")
    BY <1>12, Zenon DEF WaitScan
  <2> QED
    BY <1>t, <2>1, Zenon DEF FreeProc
<1>13. CASE Kill(c, p)
  <2>1. chan' = chan /\ (state'[x] = state[x] \/ (state[x] = "SLEEPING" /\ state'[x] = "RUNNABLE"))
    BY <1>13, <1>t, Zenon DEF Kill
  <2> QED
    BY <2>1, Zenon
<1> QED
  BY <1>1, <1>2, <1>3, <1>4, <1>5, <1>6, <1>7, <1>8, <1>9, <1>10, <1>11, <1>12, <1>13, Zenon
     DEF Thread

\* The scheduler changes nothing but a RUNNABLE process into a RUNNING one.
LEMMA SchedulerStates ==
  ASSUME StackInv,
         (\E c \in CPU : Scheduler(c) \/ SchedulerReturn(c)) \/ UNCHANGED vars
  PROVE  /\ UNCHANGED <<chan, killed, pid, parent, wlock, kpc, locals>>
         /\ \A x \in Slot : \/ state'[x] = state[x]
                            \/ state[x] = "RUNNABLE" /\ state'[x] = "RUNNING"
         /\ wlock \in CPU => on'[wlock] = on[wlock]
<1>0. TableOK /\ ThreadsOK /\ CpusOK /\ LocalsOK
  BY Pieces, Zenon DEF StackInv
<1>t. DOMAIN state = Slot /\ DOMAIN on = CPU
  BY <1>0, Zenon DEF TableOK, CpusOK
<1>1. CASE UNCHANGED vars
  BY <1>1, Zenon DEF vars, table, locks, cpus
<1>2. ASSUME NEW c \in CPU, Scheduler(c)
      PROVE  /\ UNCHANGED <<chan, killed, pid, parent, wlock, kpc, locals>>
             /\ \A x \in Slot : \/ state'[x] = state[x]
                                \/ state[x] = "RUNNABLE" /\ state'[x] = "RUNNING"
             /\ wlock \in CPU => on'[wlock] = on[wlock]
  <2>1. /\ on[c] = NoProc /\ UNCHANGED <<chan, killed, pid, parent, wlock, kpc, locals>>
        /\ \A d \in CPU \ {c} : on'[d] = on[d]
    BY <1>2, <1>t, Zenon DEF Scheduler
  <2>2. \A x \in Slot : \/ state'[x] = state[x]
                        \/ state[x] = "RUNNABLE" /\ state'[x] = "RUNNING"
    BY <1>2, <1>t, Zenon DEF Scheduler
  <2>3. wlock \in CPU => wlock # c
    BY <2>1, Zenon DEF StackInv, WaitLockInv
  <2> QED
    BY <2>1, <2>2, <2>3, Zenon
<1>3. ASSUME NEW c \in CPU, SchedulerReturn(c)
      PROVE  UNCHANGED <<state, chan, killed, pid, parent, wlock, kpc, locals, on>>
  BY <1>3, Zenon DEF SchedulerReturn, table
<1> QED
  BY <1>1, <1>2, <1>3, Zenon

\* Each step keeps the victims of kill() what they are.
LEMMA NextVictim ==
  ASSUME 0 \notin KillPid, StackInv, KillInv, VictimInv, [Next]_vars
  PROVE  VictimInv'
<1>1. CASE (\E c \in CPU : Scheduler(c) \/ SchedulerReturn(c)) \/ UNCHANGED vars
  BY <1>1, SchedulerStates, Zenon DEF VictimInv
<1>2. ASSUME NEW c \in CPU, NEW p \in Slot, Thread(c, p), NEW x \in Slot
      PROVE  /\ killed'[x] => pid'[x] \in KillPid
             /\ state'[x] = "UNUSED" => pid'[x] = 0
  <2>1. /\ killed[x] => pid[x] \in KillPid
        /\ state[x] = "UNUSED" => pid[x] = 0 /\ ~killed[x]
        /\ kpc[p] = "kill" => kpid[p] \in KillPid
    BY Zenon DEF VictimInv, KillInv
  <2>2. \/ pid'[x] = pid[x] /\ (killed'[x] <=> killed[x])
        \/ state[x] = "UNUSED" /\ state'[x] # "UNUSED" /\ (killed'[x] <=> killed[x])
        \/ kpc[p] = "kill" /\ pid[x] = kpid[p] /\ pid'[x] = pid[x]
        \/ pid'[x] = 0 /\ ~killed'[x]
    BY <1>2, Identities, Zenon
  <2>3. state'[x] = "UNUSED" => state[x] = "UNUSED" \/ pid'[x] = 0
    BY <1>2, States, Zenon
  <2> QED
    BY <2>1, <2>2, <2>3, Zenon
<1> QED
  BY <1>1, <1>2, Zenon DEF Next, VictimInv

\* kill(pid) marks the process with that pid and nobody else, for any number of
\* harts and slots, if nobody passes 0, the pid of the slots that are free.
THEOREM ProcOnlyVictimsKilled ==
  ASSUME 0 \notin KillPid
  PROVE  Spec => []OnlyVictimsKilled
<1> DEFINE VInv == StackInv /\ KillInv /\ VictimInv
<1>1. Init => VInv
  <2> SUFFICES ASSUME Init
               PROVE  VInv
    BY Zenon
  <2>1. KillInv
    BY Zenon DEF Init, KillInv
  <2>2. VictimInv
    BY Zenon DEF Init, VictimInv
  <2> QED
    BY <2>1, <2>2, InitStack, Zenon
<1>2. VInv /\ [Next]_vars => VInv'
  BY NextStack, NextKill, NextVictim, Zenon
<1>3. VInv => OnlyVictimsKilled
  BY Zenon DEF VictimInv, OnlyVictimsKilled
<1> HIDE DEF VInv
<1> QED
  BY <1>1, <1>2, <1>3, PTL DEF Spec

-----------------------------------------------------------------------------
(* exit() and wait() *)

\* Only exit() of a live process leads on to the rest of exit().
LEMMA ToExiting ==
  ASSUME StackInv, NEW c \in CPU, NEW p \in Slot, Thread(c, p),
         kpc'[p] \in Exiting, kpc[p] \notin Exiting
  PROVE  killed[p] \/ p # initproc
<1>t. DOMAIN kpc = Slot
  BY Zenon DEF StackInv, TypeOK
<1> USE DEF Exiting, Goto, At
<1>1. CASE Sched(c, p) \/ Resume(c, p) \/ Yield(c, p)
  BY <1>1, Zenon DEF Sched, Resume, Yield
<1>2. ASSUME NEW call \in {"fork", "exit", "wait", "kill"}, Syscall(c, p, call)
      PROVE  killed[p] \/ p # initproc
  BY <1>2, <1>t, Zenon DEF Syscall
<1>3. CASE TrapReturn(c, p)
  BY <1>3, <1>t, Zenon DEF TrapReturn
<1>4. CASE Fork(c, p)
  <2>1. kpc' = kpc \/ kpc'[p] \in {"trapret", "setparent", "user"}
    BY <1>4, <1>t, Zenon DEF Fork
  <2> QED
    BY <2>1, Zenon
<1>5. CASE ForkSetParent(c, p) \/ ForkSetRunnable(c, p)
  BY <1>5, <1>t, Zenon DEF ForkSetParent, ForkSetRunnable
<1>6. CASE Exit(c, p) \/ Reparent(c, p) \/ WakeInit(c, p) \/ WakeParent(c, p) \/ Zombie(c, p)
  BY <1>6, Zenon DEF Exit, Reparent, WakeInit, WakeParent, Zombie
<1>7. CASE Wait(c, p) \/ WaitDecide(c, p) \/ Sleep(c, p)
  BY <1>7, <1>t, Zenon DEF Wait, WaitDecide, Sleep
<1>8. CASE WaitScan(c, p)
  BY <1>8, <1>t, Zenon DEF WaitScan
<1>9. CASE Kill(c, p)
  BY <1>9, <1>t, Zenon DEF Kill
<1> QED
  BY <1>1, <1>2, <1>3, <1>4, <1>5, <1>6, <1>7, <1>8, <1>9, Zenon DEF Thread

\* init stays alive, if nobody kills it.
LEMMA NextInit ==
  ASSUME 1 \notin KillPid, StackInv, KillInv, InitInv, [Next]_vars
  PROVE  InitInv'
<1>i. initproc \in Slot
  BY ProcAssumption DEF Slot, initproc
<1>0. pid[initproc] = 1 /\ ~killed[initproc] /\ Alive(initproc) /\ kpc[initproc] \notin Exiting
  BY Zenon DEF InitInv
<1>1. CASE (\E c \in CPU : Scheduler(c) \/ SchedulerReturn(c)) \/ UNCHANGED vars
  <2>1. /\ UNCHANGED <<killed, pid, kpc>>
        /\ \/ state'[initproc] = state[initproc]
           \/ state'[initproc] = "RUNNING"
    BY <1>1, <1>i, SchedulerStates, Zenon
  <2> QED
    BY <1>0, <2>1, Zenon DEF InitInv, Alive
<1>2. ASSUME NEW c \in CPU, NEW p \in Slot, Thread(c, p) PROVE InitInv'
  <2>1. Alive(initproc)'
    <3>1. PICK x \in Slot : x = initproc
      BY <1>i, Zenon
    <3>2. Alive(x) => Alive(x)' \/ (x = p /\ kpc[p] = "zombie")
      BY <1>2, States, Zenon
    <3> QED
      BY <1>0, <3>1, <3>2, Zenon DEF Exiting, initproc
  <2>2. pid'[initproc] = 1 /\ ~killed'[initproc]
    <3>1. \/ pid'[initproc] = pid[initproc] /\ (killed'[initproc] <=> killed[initproc])
          \/ state[initproc] = "UNUSED"
          \/ kpc[p] = "kill" /\ pid[initproc] = kpid[p]
          \/ ~Alive(initproc)
      BY <1>2, <1>i, Identities, Zenon
    <3>2. ~(kpc[p] = "kill" /\ pid[initproc] = kpid[p])
      BY <1>0, Zenon DEF KillInv
    <3> QED
      BY <1>0, <3>1, <3>2, Zenon DEF Alive
  <2>3. kpc'[initproc] \notin Exiting
    <3>1. CASE p = initproc
      BY <1>0, <1>2, <3>1, ToExiting, Zenon
    <3>2. CASE p # initproc
      <4>1. kpc'[initproc] # kpc[initproc] => kpc'[initproc] = "user"
        BY <1>2, <1>i, <3>2, Places, Zenon DEF StackInv
      <4> QED
        BY <1>0, <4>1, Zenon DEF Exiting
    <3> QED
      BY <3>1, <3>2, Zenon
  <2> QED
    BY <2>1, <2>2, <2>3, Zenon DEF InitInv
<1> QED
  BY <1>1, <1>2, Zenon DEF Next

\* Who changes p->parent: freeproc(), fork() and reparent(), the last two
\* under wait_lock.
LEMMA Parents ==
  ASSUME StackInv, NEW c \in CPU, NEW p \in Slot, Thread(c, p), NEW x \in Slot,
         parent'[x] # parent[x]
  PROVE  \/ parent'[x] = NoProc /\ state'[x] = "UNUSED" /\ state[x] \in {"UNUSED", "ZOMBIE"}
         \/ /\ kpc[p] = "setparent" /\ wlock = NoCpu /\ x = knp[p] /\ parent'[x] = p
            /\ kpc'[p] = "setrunnable" /\ state' = state /\ Runs(c, p)
         \/ /\ kpc[p] = "reparent" /\ x = ki[p] /\ parent[x] = p /\ parent'[x] = initproc
            /\ kpc'[p] = "wakeinit" /\ kj'[p] = 1 /\ UNCHANGED <<state, chan, wlock, on>>
<1>0. TableOK /\ ThreadsOK /\ CpusOK /\ LocalsOK
  BY Pieces, Zenon DEF StackInv
<1>t. DOMAIN state = Slot /\ DOMAIN parent = Slot /\ DOMAIN kpc = Slot /\ DOMAIN kj = Slot
  BY <1>0, Zenon DEF TableOK, ThreadsOK, LocalsOK
<1> USE DEF table
<1>1. CASE Sched(c, p) \/ Resume(c, p) \/ Yield(c, p)
  BY <1>1, Zenon DEF Sched, Resume, Yield
<1>2. ASSUME NEW call, Syscall(c, p, call) PROVE parent' = parent
  BY <1>2, Zenon DEF Syscall
<1>3. CASE TrapReturn(c, p) \/ ForkSetRunnable(c, p)
  BY <1>3, Zenon DEF TrapReturn, ForkSetRunnable
<1>4. CASE Fork(c, p)
  <2>1. FreeProc(ki[p]) /\ state[ki[p]] = "UNUSED"
    BY <1>4, Zenon DEF Fork
  <2> QED
    BY <1>t, <2>1, Zenon DEF FreeProc
<1>5. CASE ForkSetParent(c, p)
  BY <1>5, <1>t, Zenon DEF ForkSetParent, At, Goto
<1>6. CASE Exit(c, p) \/ Wait(c, p) \/ WaitDecide(c, p)
  BY <1>6, Zenon DEF Exit, Wait, WaitDecide
<1>7. CASE Reparent(c, p)
  BY <1>7, <1>t, Zenon DEF Reparent, At, Goto, locks, cpus
<1>8. CASE WakeInit(c, p) \/ WakeParent(c, p)
  BY <1>8, Zenon DEF WakeInit, WakeParent, Wakeup
<1>9. CASE Zombie(c, p) \/ Sleep(c, p) \/ Kill(c, p)
  BY <1>9, Zenon DEF Zombie, Sleep, Kill
<1>10. CASE WaitScan(c, p)
  <2>1. FreeProc(ki[p]) /\ state[ki[p]] = "ZOMBIE"
    BY <1>10, Zenon DEF WaitScan
  <2> QED
    BY <1>t, <2>1, Zenon DEF FreeProc
<1> QED
  BY <1>1, <1>2, <1>3, <1>4, <1>5, <1>6, <1>7, <1>8, <1>9, <1>10, Zenon DEF Thread

\* While another thread is inside exit() or wait(), nobody gets a parent, dies
\* or falls asleep.
LEMMA Others ==
  ASSUME StackInv, NEW c \in CPU, NEW p \in Slot, Thread(c, p),
         NEW x \in Slot \ {p}, kpc'[x] \in Waiting
  PROVE  /\ kpc'[x] = kpc[x] /\ ki'[x] = ki[x] /\ kj'[x] = kj[x]
         /\ \A y \in Slot : parent'[y] # parent[y] => parent'[y] = NoProc
         /\ \A y \in Slot : state'[y] = "ZOMBIE" => state[y] = "ZOMBIE"
         /\ \A y \in Slot : Asleep(y)' => Asleep(y)
<1>1. kpc'[x] = kpc[x] /\ ki'[x] = ki[x] /\ kj'[x] = kj[x]
  BY Places, Zenon DEF StackInv, Waiting
<1>2. wlock \in CPU /\ kpc[p] \notin Waiting
  BY <1>1, Zenon DEF StackInv, WaitLockInv
<1>3. \A y \in Slot : parent'[y] # parent[y] => parent'[y] = NoProc
  BY <1>2, Parents, ProcAssumption DEF Waiting
<1>4. \A y \in Slot : state'[y] = "ZOMBIE" => state[y] = "ZOMBIE"
  BY <1>2, States DEF Waiting
<1>5. \A y \in Slot : Asleep(y)' => Asleep(y)
  BY <1>2, States DEF Waiting
<1> QED
  BY <1>1, <1>3, <1>4, <1>5, Zenon

\* How the thread itself comes to the places the invariant speaks of.
LEMMA Moves ==
  ASSUME StackInv, NEW c \in CPU, NEW p \in Slot, Thread(c, p)
  PROVE  /\ kpc'[p] = "setrunnable" =>
              \/ kpc[p] = "setrunnable" /\ knp' = knp
              \/ kpc[p] = "setparent" /\ knp' = knp /\ parent'[knp[p]] = p
         /\ kpc'[p] \in {"reparent", "wakeinit"} =>
              \/ ki'[p] = 1
              \/ kpc[p] \in {"reparent", "wakeinit"} /\ ki' = ki /\ parent' = parent
              \/ /\ kpc[p] = "reparent" /\ ki[p] \in Slot /\ ki'[p] = ki[p] + 1
                 /\ \A q \in Slot \ {ki[p]} : parent'[q] = parent[q]
                 /\ parent'[ki[p]] # p \/ parent'[ki[p]] = initproc
         /\ kpc'[p] \in {"wakeparent", "zombie"} =>
              /\ parent' = parent
              /\ \/ kpc[p] \in {"wakeparent", "zombie"}
                 \/ kpc[p] = "reparent" /\ ki[p] > NPROC
<1>0. TableOK /\ ThreadsOK /\ CpusOK /\ LocalsOK
  BY Pieces, Zenon DEF StackInv
<1>t. /\ DOMAIN parent = Slot /\ DOMAIN kpc = Slot /\ DOMAIN ki = Slot /\ DOMAIN knp = Slot
      /\ knp[p] \in Slot
  BY <1>0, Zenon DEF TableOK, ThreadsOK, LocalsOK
<1> USE DEF Goto, At, table, locals
<1>1. CASE Sched(c, p) \/ Resume(c, p) \/ Yield(c, p)
  BY <1>1, Zenon DEF Sched, Resume, Yield
<1>2. ASSUME NEW call \in {"fork", "exit", "wait", "kill"}, Syscall(c, p, call)
      PROVE  kpc'[p] \in {"fork", "exit", "wait", "kill"}
  BY <1>2, <1>t, Zenon DEF Syscall
<1>3. CASE TrapReturn(c, p)
  BY <1>3, <1>t, Zenon DEF TrapReturn
<1>4. CASE Fork(c, p)
  <2>1. kpc'[p] \in {"fork", "trapret", "setparent", "user"}
    BY <1>4, <1>t, Zenon DEF Fork
  <2> QED
    BY <2>1, Zenon
<1>5. CASE ForkSetParent(c, p)
  BY <1>5, <1>t, Zenon DEF ForkSetParent
<1>6. CASE ForkSetRunnable(c, p)
  BY <1>6, <1>t, Zenon DEF ForkSetRunnable
<1>7. CASE Exit(c, p) \/ Wait(c, p)
  BY <1>7, <1>t, Zenon DEF Exit, Wait
<1>8. CASE Reparent(c, p)
  <2>1. CASE ki[p] > NPROC
    BY <1>8, <1>t, <2>1, Zenon DEF Reparent
  <2>2. CASE ~(ki[p] > NPROC)
    <3>1. ki[p] \in Slot
      BY <1>0, <2>2, Loops, Zenon
    <3>2. /\ kpc[p] = "reparent" /\ kpc'[p] \in {"reparent", "wakeinit"} /\ ki'[p] = ki[p] + 1
          /\ \A q \in Slot \ {ki[p]} : parent'[q] = parent[q]
          /\ parent'[ki[p]] # p \/ parent'[ki[p]] = initproc
      BY <1>8, <1>t, <2>2, <3>1, Zenon DEF Reparent
    <3> QED
      BY <3>1, <3>2, Zenon
  <2> QED
    BY <2>1, <2>2, Zenon
<1>9. CASE WakeInit(c, p) \/ WakeParent(c, p)
  BY <1>9, <1>t, Zenon DEF WakeInit, WakeParent, Wakeup
<1>10. CASE Zombie(c, p) \/ Sleep(c, p)
  BY <1>10, <1>t, Zenon DEF Zombie, Sleep
<1>11. CASE WaitScan(c, p)
  BY <1>11, <1>t, Zenon DEF WaitScan
<1>12. CASE WaitDecide(c, p)
  BY <1>12, <1>t, Zenon DEF WaitDecide
<1>13. CASE Kill(c, p)
  BY <1>13, <1>t, Zenon DEF Kill
<1> QED
  BY <1>1, <1>2, <1>3, <1>4, <1>5, <1>6, <1>7, <1>8, <1>9, <1>10, <1>11, <1>12, <1>13, Zenon
     DEF Thread

\* Each step keeps the parents alive.
LEMMA NextParent ==
  ASSUME StackInv, InitInv, ParentInv, [Next]_vars
  PROVE  ParentInv'
<1>0. TableOK /\ ThreadsOK /\ CpusOK /\ LocalsOK
  BY Pieces, Zenon DEF StackInv
<1>i. initproc \in Slot /\ NoProc \notin Slot /\ Alive(initproc)
  BY ProcAssumption DEF Slot, initproc, NoProc, InitInv
<1>t. /\ \A q \in Slot : parent[q] \in Slot \cup {NoProc} /\ knp[q] \in Slot
      /\ \A q \in Slot : ki[q] \in Nat /\ q \in Nat
  <2>1. \A q \in Slot : ki[q] \in 1 .. NPROC + 1
    BY <1>0, Zenon DEF LocalsOK
  <2>2. \A k \in 1 .. NPROC + 1 : k \in Nat
    BY ProcAssumption
  <2>3. \A q \in Slot : q \in Nat
    BY ProcAssumption DEF Slot
  <2>4. \A q \in Slot : parent[q] \in Slot \cup {NoProc} /\ knp[q] \in Slot
    BY <1>0, Zenon DEF TableOK, LocalsOK
  <2> QED
    BY <2>1, <2>2, <2>3, <2>4, Zenon
<1>a. \A q \in Slot \ {initproc} : parent[q] = NoProc => state[q] \in {"UNUSED", "USED"}
  BY Zenon DEF ParentInv
<1>b. \A q \in Slot : parent[q] # NoProc => Alive(parent[q])
  BY Zenon DEF ParentInv
<1>c. \A q \in Slot : kpc[q] = "setrunnable" => parent[knp[q]] # NoProc
  BY Zenon DEF ParentInv
<1>d. \A q \in Slot : kpc[q] \in {"reparent", "wakeinit"} =>
        \A r \in Slot : r < ki[q] => parent[r] # q
  BY Zenon DEF ParentInv
<1>e. \A q \in Slot : kpc[q] \in {"wakeparent", "zombie"} =>
        \A r \in Slot : parent[r] # q
  BY Zenon DEF ParentInv
<1>1. CASE (\E c \in CPU : Scheduler(c) \/ SchedulerReturn(c)) \/ UNCHANGED vars
  <2>1. /\ UNCHANGED <<parent, kpc, ki, knp>>
        /\ \A x \in Slot : \/ state'[x] = state[x]
                           \/ state[x] = "RUNNABLE" /\ state'[x] = "RUNNING"
    BY <1>1, SchedulerStates, Zenon DEF locals
  <2>2. \A x \in Slot : Alive(x) => Alive(x)'
    BY <2>1, Zenon DEF Alive
  <2>3. \A q \in Slot : parent'[q] # NoProc => Alive(parent[q])'
    BY <1>b, <1>t, <2>1, <2>2, Zenon DEF Alive
  <2> QED
    BY <1>a, <1>c, <1>d, <1>e, <2>1, <2>3, Zenon DEF ParentInv, Alive
<1> SUFFICES ASSUME NEW c \in CPU, NEW p \in Slot, Thread(c, p)
             PROVE  ParentInv'
  BY <1>1, Zenon DEF Next
<1>2. ASSUME NEW x \in Slot \ {initproc}, parent'[x] = NoProc
      PROVE  state'[x] \in {"UNUSED", "USED"}
  <2>1. CASE parent[x] = NoProc
    <3>1. ~(kpc[p] = "setrunnable" /\ x = knp[p])
      BY <1>c, <2>1, Zenon
    <3> QED
      BY <1>a, <2>1, <3>1, States, Zenon
  <2>2. CASE parent[x] # NoProc
    BY <1>2, <1>i, <2>2, Parents
  <2> QED
    BY <2>1, <2>2, Zenon
<1>3. ASSUME NEW x \in Slot, NEW y \in Slot, parent'[x] = y
      PROVE  Alive(y)'
  <2>1. CASE parent[x] = y
    <3>1. Alive(y) /\ ~(y = p /\ kpc[p] = "zombie")
      BY <1>b, <1>e, <1>i, <2>1, Zenon
    <3> QED
      BY <3>1, States, Zenon
  <2>2. CASE parent[x] # y /\ Runs(c, p) /\ y = p /\ state' = state
    BY <2>2, RunsIs, Zenon DEF Alive
  <2>3. CASE parent[x] # y /\ y = initproc /\ state' = state
    BY <1>i, <2>3, Zenon DEF Alive
  <2> QED
    BY <1>3, <1>i, <2>1, <2>2, <2>3, Parents

<1>4. ASSUME NEW x \in Slot, kpc'[x] = "setrunnable" PROVE parent'[knp'[x]] # NoProc
  <2>1. CASE kpc[x] = "setrunnable" /\ knp'[x] = knp[x]
    <3>1. parent[knp[x]] # NoProc /\ knp[x] \in Slot
      BY <1>c, <1>t, <2>1, Zenon
    <3>2. state[knp[x]] = "USED"
      BY <2>1, Zenon DEF StackInv, ForkInv, Filling
    <3> QED
      BY <1>i, <2>1, <3>1, <3>2, Parents
  <2>2. CASE x # p
    <3>1. kpc[x] = "setrunnable" /\ knp'[x] = knp[x]
      BY <1>4, <2>2, Places, Zenon DEF StackInv
    <3> QED
      BY <2>1, <3>1, Zenon
  <2>3. CASE x = p
    BY <1>4, <1>i, <2>1, <2>3, Moves
  <2> QED
    BY <2>2, <2>3, Zenon
<1>5. ASSUME NEW x \in Slot, kpc'[x] \in {"reparent", "wakeinit"},
             NEW y \in Slot, y < ki'[x]
      PROVE  parent'[y] # x
  <2>1. CASE x # p
    <3>1. /\ kpc'[x] = kpc[x] /\ ki'[x] = ki[x]
          /\ parent'[y] # parent[y] => parent'[y] = NoProc
      BY <1>5, <2>1, Others, Zenon DEF Waiting
    <3> QED
      BY <1>5, <1>d, <1>i, <3>1, Zenon
  <2>2. CASE x = p
    <3>1. CASE ki'[p] = 1
      BY <1>5, <2>2, <3>1, ProcAssumption DEF Slot
    <3>2. CASE kpc[p] \in {"reparent", "wakeinit"} /\ ki' = ki /\ parent' = parent
      BY <1>5, <1>d, <2>2, <3>2, Zenon
    <3>3. CASE /\ kpc[p] = "reparent" /\ ki[p] \in Slot /\ ki'[p] = ki[p] + 1
               /\ \A q \in Slot \ {ki[p]} : parent'[q] = parent[q]
               /\ parent'[ki[p]] # p \/ parent'[ki[p]] = initproc
      <4>1. p # initproc
        BY <3>3, Zenon DEF InitInv, Exiting
      <4>2. y < ki[p] \/ y = ki[p]
        BY <1>5, <1>t, <2>2, <3>3
      <4>3. CASE y = ki[p]
        BY <2>2, <3>3, <4>1, <4>3, Zenon
      <4>4. CASE y < ki[p] /\ y # ki[p]
        BY <1>d, <2>2, <3>3, <4>4, Zenon
      <4> QED
        BY <4>2, <4>3, <4>4, Zenon
    <3> QED
      BY <1>5, <2>2, <3>1, <3>2, <3>3, Moves, Zenon
  <2> QED
    BY <2>1, <2>2, Zenon
<1>6. ASSUME NEW x \in Slot, kpc'[x] \in {"wakeparent", "zombie"}, NEW y \in Slot
      PROVE  parent'[y] # x
  <2>1. CASE x # p
    <3>1. /\ kpc'[x] = kpc[x]
          /\ parent'[y] # parent[y] => parent'[y] = NoProc
      BY <1>6, <2>1, Others, Zenon DEF Waiting
    <3> QED
      BY <1>6, <1>e, <1>i, <3>1, Zenon
  <2>2. CASE x = p
    <3>1. /\ parent' = parent
          /\ kpc[p] \in {"wakeparent", "zombie"} \/ (kpc[p] = "reparent" /\ ki[p] > NPROC)
      BY <1>6, <2>2, Moves, Zenon
    <3>2. ki[p] > NPROC => y < ki[p]
      BY <1>0, Loops, Zenon
    <3> QED
      BY <1>d, <1>e, <2>2, <3>1, <3>2, Zenon
  <2> QED
    BY <2>1, <2>2, Zenon
<1>7. \A x \in Slot : parent'[x] \in Slot \cup {NoProc}
  <2>1. TypeOK'
    BY NextStack, Zenon DEF StackInv
  <2> QED
    BY <2>1, Zenon DEF TypeOK
<1>8. \A x \in Slot : parent'[x] # NoProc => Alive(parent[x])'
  BY <1>3, <1>7, Zenon DEF Alive
<1> QED
  BY <1>2, <1>4, <1>5, <1>6, <1>8, Zenon DEF ParentInv

\* How exit() comes to its end, and wait() to its sleep.
LEMMA Stages ==
  ASSUME StackInv, NEW c \in CPU, NEW p \in Slot, Thread(c, p)
  PROVE  /\ kpc'[p] = "wakeparent" =>
              /\ parent' = parent
              /\ \/ kj'[p] = 1
                 \/ kpc[p] = "wakeparent" /\ kj' = kj
                 \/ /\ kpc[p] = "wakeparent" /\ kj[p] \in Slot /\ kj'[p] = kj[p] + 1
                    /\ kj[p] = parent[p] => ~Asleep(parent[p])'
         /\ kpc'[p] = "zombie" =>
              /\ parent' = parent
              /\ \/ kpc[p] = "zombie"
                 \/ kpc[p] = "wakeparent" /\ kj[p] > NPROC
         /\ kpc'[p] = "scan" =>
              \/ ki'[p] = 1
              \/ kpc[p] = "scan" /\ ki' = ki
              \/ /\ kpc[p] = "scan" /\ ki[p] \in Slot /\ ki'[p] = ki[p] + 1
                 /\ UNCHANGED <<parent, state>>
                 /\ parent[ki[p]] = p => state[ki[p]] # "ZOMBIE"
         /\ kpc'[p] = "sleep" =>
              \/ kpc[p] = "sleep"
              \/ kpc[p] = "scan" /\ ki[p] > NPROC
<1>0. TableOK /\ ThreadsOK /\ CpusOK /\ LocalsOK
  BY Pieces, Zenon DEF StackInv
<1>t. /\ DOMAIN state = Slot /\ DOMAIN kpc = Slot /\ DOMAIN ki = Slot /\ DOMAIN kj = Slot
  BY <1>0, Zenon DEF TableOK, ThreadsOK, LocalsOK
<1> USE DEF Goto, At, table, locals
<1>1. CASE Sched(c, p) \/ Resume(c, p) \/ Yield(c, p)
  BY <1>1, Zenon DEF Sched, Resume, Yield
<1>2. ASSUME NEW call \in {"fork", "exit", "wait", "kill"}, Syscall(c, p, call)
      PROVE  kpc'[p] \in {"fork", "exit", "wait", "kill"}
  BY <1>2, <1>t, Zenon DEF Syscall
<1>3. CASE TrapReturn(c, p)
  BY <1>3, <1>t, Zenon DEF TrapReturn
<1>4. CASE Fork(c, p)
  <2>1. kpc'[p] \in {"fork", "trapret", "setparent", "user"}
    BY <1>4, <1>t, Zenon DEF Fork
  <2> QED
    BY <2>1, Zenon
<1>5. CASE ForkSetParent(c, p) \/ ForkSetRunnable(c, p)
  BY <1>5, <1>t, Zenon DEF ForkSetParent, ForkSetRunnable
<1>6. CASE Exit(c, p) \/ Wait(c, p)
  BY <1>6, <1>t, Zenon DEF Exit, Wait
<1>7. CASE Reparent(c, p)
  BY <1>7, <1>t, Zenon DEF Reparent
<1>8. CASE WakeInit(c, p)
  BY <1>8, <1>t, Zenon DEF WakeInit, Wakeup
<1>9. CASE WakeParent(c, p)
  <2>1. kpc[p] = "wakeparent" /\ Runs(c, p) /\ parent' = parent
    BY <1>9, Zenon DEF WakeParent, Wakeup
  <2>2. CASE kj[p] > NPROC
    BY <1>9, <1>t, <2>1, <2>2, Zenon DEF WakeParent, Wakeup
  <2>3. CASE ~(kj[p] > NPROC)
    <3>1. PICK q \in Slot : q = kj[p]
      BY <1>0, <2>3, Loops, Zenon
    <3>2. /\ kj' = [kj EXCEPT ![p] = q + 1] /\ kpc' = kpc
          /\ state' = [state EXCEPT ![q] =
                         IF q # p /\ @ = "SLEEPING" /\ chan[q] = parent[p]
                         THEN "RUNNABLE" ELSE @]
          /\ chan' = chan
      BY <1>9, <2>3, <3>1, Zenon DEF WakeParent, Wakeup
    <3>3. state[p] = "RUNNING"
      BY <2>1, RunsIs, Zenon
    <3>4. q = parent[p] => ~Asleep(parent[p])'
      BY <1>t, <2>1, <3>2, <3>3, Zenon DEF Asleep
    <3>5. kj'[p] = q + 1
      BY <1>t, <3>2, Zenon
    <3> QED
      BY <2>1, <3>1, <3>2, <3>4, <3>5, Zenon
  <2> QED
    BY <2>2, <2>3, Zenon
<1>10. CASE Zombie(c, p) \/ Sleep(c, p)
  BY <1>10, <1>t, Zenon DEF Zombie, Sleep
<1>11. CASE WaitScan(c, p)
  <2>1. ki[p] \in Slot
    BY <1>0, <1>11, Loops, Zenon DEF WaitScan
  <2> QED
    BY <1>11, <1>t, <2>1, Zenon DEF WaitScan
<1>12. CASE WaitDecide(c, p)
  BY <1>12, <1>t, Zenon DEF WaitDecide
<1>13. CASE Kill(c, p)
  BY <1>13, <1>t, Zenon DEF Kill
<1> QED
  BY <1>1, <1>2, <1>3, <1>4, <1>5, <1>6, <1>7, <1>8, <1>9, <1>10, <1>11, <1>12, <1>13, Zenon
     DEF Thread

\* A thread leaves its own CPU only.
LEMMA Switches ==
  ASSUME NEW c \in CPU, NEW p \in Slot, Thread(c, p)
  PROVE  on' = on \/ (on[c] = p /\ on' = [on EXCEPT ![c] = NoProc])
<1> USE DEF cpus
<1>1. CASE Sched(c, p) \/ Resume(c, p) \/ Yield(c, p)
  BY <1>1, Zenon DEF Sched, Resume, Yield
<1>2. ASSUME NEW call, Syscall(c, p, call) PROVE on' = on
  BY <1>2, Zenon DEF Syscall
<1>3. CASE TrapReturn(c, p) \/ Fork(c, p) \/ ForkSetParent(c, p) \/ ForkSetRunnable(c, p)
  BY <1>3, Zenon DEF TrapReturn, Fork, ForkSetParent, ForkSetRunnable
<1>4. CASE Exit(c, p) \/ Reparent(c, p) \/ Zombie(c, p)
  BY <1>4, Zenon DEF Exit, Reparent, Zombie
<1>5. CASE WakeInit(c, p) \/ WakeParent(c, p)
  BY <1>5, Zenon DEF WakeInit, WakeParent, Wakeup
<1>6. CASE Wait(c, p) \/ WaitScan(c, p) \/ WaitDecide(c, p) \/ Sleep(c, p) \/ Kill(c, p)
  BY <1>6, Zenon DEF Wait, WaitScan, WaitDecide, Sleep, Kill
<1> QED
  BY <1>1, <1>2, <1>3, <1>4, <1>5, <1>6, Zenon DEF Thread

\* A step of another thread leaves wait_lock with the thread that is waking
\* init; its own next step wakes it.
LEMMA WakesInit ==
  ASSUME StackInv, InitInv, NEW c \in CPU, NEW p \in Slot, Thread(c, p),
         wlock \in CPU, kpc[on[wlock]] = "wakeinit", kj[on[wlock]] = 1,
         Asleep(initproc)'
  PROVE  /\ wlock' = wlock /\ on'[wlock] = on[wlock]
         /\ kpc'[on[wlock]] = "wakeinit" /\ kj'[on[wlock]] = 1
<1>0. TableOK /\ ThreadsOK /\ CpusOK /\ LocalsOK
  BY Pieces, Zenon DEF StackInv
<1>t. /\ DOMAIN state = Slot /\ DOMAIN on = CPU /\ initproc \in Slot
      /\ \A d \in CPU : on[d] \in Slot \cup {NoProc}
      /\ NoCpu \notin CPU
  BY <1>0, ProcAssumption DEF TableOK, CpusOK, Slot, initproc
<1>h. PICK h \in Slot : h = on[wlock]
  BY <1>t, Zenon DEF StackInv, WaitLockInv
<1>w. /\ kpc[h] = "wakeinit" /\ sw[h] = "none" /\ h # initproc
      /\ \A q \in Slot : kpc[q] \in Waiting => q = h
  BY <1>h, Zenon DEF StackInv, WaitLockInv, Waiting, InitInv, Exiting
<1>1. p # h
  <2> SUFFICES ASSUME p = h
               PROVE  FALSE
    BY Zenon
  <2> USE DEF At, Runs
  <2>1. CASE WakeInit(c, p)
    <3>1. /\ ~(kj[p] > NPROC) /\ kj[p] = initproc /\ initproc # p
          /\ chan' = chan
      BY <1>h, <1>w, <2>1, ProcAssumption DEF WakeInit, Wakeup, initproc
    <3>2. state' = [state EXCEPT ![initproc] =
                      IF @ = "SLEEPING" /\ chan[initproc] = initproc
                      THEN "RUNNABLE" ELSE @]
      BY <2>1, <3>1, Zenon DEF WakeInit, Wakeup
    <3> QED
      BY <1>t, <3>1, <3>2, Zenon DEF Asleep
  <2>2. CASE Yield(c, p)
    <3>1. on[c] = p
      BY <2>2, Zenon DEF Yield
    <3>2. wlock = c
      BY <1>w, <3>1, HolderIs, Zenon DEF Waiting
    <3> QED
      BY <2>2, <3>2, Zenon DEF Yield
  <2>3. CASE Sched(c, p) \/ Resume(c, p)
    BY <1>w, <2>3, Zenon DEF Sched, Resume
  <2>4. ASSUME NEW call, Syscall(c, p, call) PROVE FALSE
    BY <1>w, <2>4, Zenon DEF Syscall
  <2>5. CASE TrapReturn(c, p) \/ Fork(c, p) \/ ForkSetParent(c, p) \/ ForkSetRunnable(c, p)
    BY <1>w, <2>5, Zenon DEF TrapReturn, Fork, ForkSetParent, ForkSetRunnable
  <2>6. CASE Exit(c, p) \/ Reparent(c, p) \/ WakeParent(c, p) \/ Zombie(c, p)
    BY <1>w, <2>6, Zenon DEF Exit, Reparent, WakeParent, Zombie
  <2>7. CASE Wait(c, p) \/ WaitScan(c, p) \/ WaitDecide(c, p) \/ Sleep(c, p) \/ Kill(c, p)
    BY <1>w, <2>7, Zenon DEF Wait, WaitScan, WaitDecide, Sleep, Kill
  <2> QED
    BY <2>1, <2>2, <2>3, <2>4, <2>5, <2>6, <2>7, Zenon DEF Thread
<1>2. kpc'[h] = "wakeinit" /\ kj'[h] = 1
  <2>1. state[h] # "UNUSED"
    BY <1>h, <1>w, RunsIs, Zenon DEF Runs
  <2>2. TypeOK
    BY Zenon DEF StackInv
  <2>3. /\ kpc'[h] # kpc[h] => kpc'[h] = "user" /\ state[h] = "UNUSED"
        /\ kj'[h] = kj[h]
    BY <1>1, <1>h, <2>2, Places
  <2> QED
    BY <1>h, <1>w, <2>1, <2>3, Zenon
<1>3. wlock' = wlock /\ on'[wlock] = h
  <2>1. StackInv'
    BY NextStack, Zenon DEF Next
  <2>2. wlock' \in CPU /\ on'[wlock'] = h
    BY <1>2, <2>1, Zenon DEF StackInv, WaitLockInv, Waiting
  <2>3. on'[wlock] = h
    BY <1>1, <1>h, <1>t, Switches, Zenon
  <2>4. h # NoProc
    BY ProcAssumption DEF Slot, NoProc
  <2>5. CpuInv'
    BY <2>1, Zenon DEF StackInv
  <2>6. cproc'[wlock'] = h /\ cproc'[wlock] = h
    BY <2>2, <2>3, <2>4, <2>5, Zenon DEF CpuInv
  <2> QED
    BY <2>2, <2>3, <2>4, <2>5, <2>6 DEF CpuInv
<1> QED
  BY <1>h, <1>2, <1>3, Zenon

\* The parent of a ZOMBIE still sleeps only while exit() is about to wake init.
LEMMA ZombieStep ==
  ASSUME StackInv, InitInv, WakeInv, NEW c \in CPU, NEW p \in Slot, Thread(c, p),
         NEW x \in Slot, state'[x] = "ZOMBIE",
         NEW y \in Slot, parent'[x] = y, Asleep(y)'
  PROVE  /\ wlock' \in CPU /\ y = initproc
         /\ kpc'[on'[wlock']] = "wakeinit" /\ kj'[on'[wlock']] = 1
<1>n. NoProc \notin Slot
  BY ProcAssumption DEF Slot, NoProc
<1>1. state[x] = "ZOMBIE" \/ (x = p /\ kpc[p] = "zombie")
  BY States, Zenon
<1>2. Asleep(y) \/ (y = p /\ kpc[p] = "sleep")
  BY States, Zenon
<1>3. CASE parent'[x] # parent[x]
  <2>1. CASE kpc[p] = "setparent" /\ x = knp[p] /\ state' = state
    BY <2>1, Zenon DEF StackInv, ForkInv, Filling
  <2>2. CASE /\ kpc[p] = "reparent" /\ parent'[x] = initproc
             /\ kpc'[p] = "wakeinit" /\ kj'[p] = 1 /\ UNCHANGED <<wlock, on>>
    <3>1. wlock \in CPU /\ on[wlock] = p
      BY <2>2, Zenon DEF StackInv, WaitLockInv, Waiting
    <3> QED
      BY <2>2, <3>1, Zenon
  <2>3. parent'[x] # NoProc
    BY <1>n, Zenon
  <2> QED
    BY <1>3, <2>1, <2>2, <2>3, Parents
<1>4. CASE parent'[x] = parent[x]
  <2>1. ~(kpc[p] = "zombie" /\ x = p)
    BY <1>2, <1>4, <1>n, Zenon DEF WakeInv
  <2>2. state[x] = "ZOMBIE"
    BY <1>1, <2>1, Zenon
  <2>3. Asleep(y)
    BY <1>2, <1>4, <2>2, Zenon DEF WakeInv
  <2>4. /\ wlock \in CPU /\ y = initproc
        /\ kpc[on[wlock]] = "wakeinit" /\ kj[on[wlock]] = 1
    BY <1>4, <1>n, <2>2, <2>3, Zenon DEF WakeInv
  <2> QED
    BY <2>4, WakesInit, Zenon
<1> QED
  BY <1>3, <1>4, Zenon

\* Nobody misses what the thread itself has seen: the parent it has woken is
\* awake, the children it has scanned are not ZOMBIEs.
LEMMA OwnStep ==
  ASSUME StackInv, WakeInv, NEW c \in CPU, NEW p \in Slot, Thread(c, p),
         NEW y \in Slot
  PROVE  /\ kpc'[p] = "wakeparent" /\ parent'[p] = y /\ y < kj'[p] => ~Asleep(y)'
         /\ kpc'[p] = "zombie" /\ parent'[p] = y => ~Asleep(y)'
         /\ kpc'[p] = "scan" /\ y < ki'[p] /\ parent'[y] = p => state'[y] # "ZOMBIE"
         /\ kpc'[p] = "sleep" /\ parent'[y] = p => state'[y] # "ZOMBIE"
<1>0. TableOK /\ ThreadsOK /\ CpusOK /\ LocalsOK
  BY Pieces, Zenon DEF StackInv
<1>n. NoProc \notin Slot /\ y \in Nat /\ y >= 1 /\ y <= NPROC /\ NPROC \in Nat
  BY ProcAssumption DEF Slot, NoProc
<1>t. ki[p] \in Nat /\ kj[p] \in Nat
  <2>1. ki[p] \in 1 .. NPROC + 1 /\ kj[p] \in 1 .. NPROC + 1
    BY <1>0, Zenon DEF LocalsOK
  <2> QED
    BY <1>n, <2>1
<1>1. ASSUME kpc'[p] = "wakeparent", parent'[p] = y, y < kj'[p] PROVE ~Asleep(y)'
  <2>1. parent[p] = y
    BY <1>1, Stages, Zenon
  <2>2. Asleep(y)' => Asleep(y)
    BY <1>1, States, Zenon
  <2>3. kpc[p] = "wakeparent" /\ y < kj[p] => ~Asleep(y)
    BY <1>n, <2>1, Zenon DEF WakeInv
  <2>4. kj'[p] # 1
    BY <1>1, <1>n
  <2>5. \/ kpc[p] = "wakeparent" /\ kj' = kj
        \/ /\ kpc[p] = "wakeparent" /\ kj'[p] = kj[p] + 1
           /\ kj[p] = y => ~Asleep(parent[p])'
    BY <1>1, <2>1, <2>4, Stages, Zenon
  <2>6. parent' = parent
    BY <1>1, Stages, Zenon
  <2>7. kpc[p] = "wakeparent" /\ (y < kj[p] \/ ~Asleep(parent[p])')
    BY <1>1, <1>n, <1>t, <2>5
  <2> QED
    BY <2>1, <2>2, <2>3, <2>6, <2>7, Zenon DEF Asleep
<1>2. ASSUME kpc'[p] = "zombie", parent'[p] = y PROVE ~Asleep(y)'
  <2>1. parent[p] = y
    BY <1>2, Stages, Zenon
  <2>2. Asleep(y)' => Asleep(y)
    BY <1>2, States, Zenon
  <2>3. kpc[p] = "zombie" => ~Asleep(y)
    BY <1>n, <2>1, Zenon DEF WakeInv
  <2>4. kpc[p] = "wakeparent" /\ y < kj[p] => ~Asleep(y)
    BY <1>n, <2>1, Zenon DEF WakeInv
  <2>5. kj[p] > NPROC => y < kj[p]
    BY <1>n, <1>t
  <2> QED
    BY <1>2, <2>2, <2>3, <2>4, <2>5, Stages, Zenon
<1>3. ASSUME kpc[p] \in {"scan", "sleep"}, parent'[y] = p
      PROVE  parent[y] = p /\ (state'[y] = "ZOMBIE" => state[y] = "ZOMBIE")
  BY <1>3, <1>n, Parents, States
<1>4. ASSUME kpc'[p] = "scan", y < ki'[p], parent'[y] = p PROVE state'[y] # "ZOMBIE"
  <2>1. ki'[p] # 1
    BY <1>4, <1>n
  <2>2. CASE kpc[p] = "scan" /\ ki' = ki
    BY <1>3, <1>4, <2>2, Zenon DEF WakeInv
  <2>3. CASE /\ kpc[p] = "scan" /\ ki'[p] = ki[p] + 1 /\ UNCHANGED <<parent, state>>
             /\ parent[ki[p]] = p => state[ki[p]] # "ZOMBIE"
    <3>1. y < ki[p] \/ y = ki[p]
      BY <1>4, <1>n, <1>t, <2>3
    <3> QED
      BY <1>4, <2>3, <3>1, Zenon DEF WakeInv
  <2> QED
    BY <1>4, <2>1, <2>2, <2>3, Stages, Zenon
<1>5. ASSUME kpc'[p] = "sleep", parent'[y] = p PROVE state'[y] # "ZOMBIE"
  <2>1. CASE kpc[p] = "sleep"
    BY <1>3, <1>5, <2>1, Zenon DEF WakeInv
  <2>2. CASE kpc[p] = "scan" /\ ki[p] > NPROC
    <3>1. y < ki[p]
      BY <1>n, <1>t, <2>2
    <3> QED
      BY <1>3, <1>5, <2>2, <3>1, Zenon DEF WakeInv
  <2> QED
    BY <1>5, <2>1, <2>2, Stages, Zenon
<1> QED
  BY <1>1, <1>2, <1>4, <1>5, Zenon

\* Each step keeps the wakeups of exit() and wait() matched.
LEMMA NextWake ==
  ASSUME StackInv, InitInv, WakeInv, [Next]_vars
  PROVE  WakeInv'
<1>n. NoProc \notin Slot
  BY ProcAssumption DEF Slot, NoProc
<1>t. \A q \in Slot : parent'[q] \in Slot \cup {NoProc}
  <2>1. TypeOK'
    BY NextStack, Zenon DEF StackInv
  <2> QED
    BY <2>1, Zenon DEF TypeOK
<1>1. CASE (\E c \in CPU : Scheduler(c) \/ SchedulerReturn(c)) \/ UNCHANGED vars
  <2>1. /\ UNCHANGED <<chan, parent, wlock, kpc, ki, kj>>
        /\ \A x \in Slot : \/ state'[x] = state[x]
                           \/ state[x] = "RUNNABLE" /\ state'[x] = "RUNNING"
        /\ wlock \in CPU => on'[wlock] = on[wlock]
    BY <1>1, SchedulerStates, Zenon DEF locals
  <2>2. \A x \in Slot : /\ state'[x] = "ZOMBIE" => state[x] = "ZOMBIE"
                        /\ Asleep(x)' => Asleep(x)
    BY <2>1, Zenon DEF Asleep
  <2>3. ASSUME NEW x \in Slot, state'[x] = "ZOMBIE", NEW y \in Slot, parent'[x] = y, Asleep(y)'
        PROVE  /\ wlock' \in CPU /\ y = initproc
               /\ kpc'[on'[wlock']] = "wakeinit" /\ kj'[on'[wlock']] = 1
    <3>1. /\ wlock \in CPU /\ y = initproc
          /\ kpc[on[wlock]] = "wakeinit" /\ kj[on[wlock]] = 1
      BY <1>n, <2>1, <2>2, <2>3, Zenon DEF WakeInv
    <3> QED
      BY <2>1, <3>1, Zenon
  <2>4. ASSUME NEW x \in Slot, NEW y \in Slot
        PROVE  /\ kpc'[x] = "wakeparent" /\ parent'[x] = y /\ y < kj'[x] => ~Asleep(y)'
               /\ kpc'[x] = "zombie" /\ parent'[x] = y => ~Asleep(y)'
               /\ kpc'[x] = "scan" /\ y < ki'[x] /\ parent'[y] = x => state'[y] # "ZOMBIE"
               /\ kpc'[x] = "sleep" /\ parent'[y] = x => state'[y] # "ZOMBIE"
    BY <1>n, <2>1, <2>2, Zenon DEF WakeInv
  <2> QED
    BY <1>t, <2>3, <2>4, Zenon DEF WakeInv, Asleep
<1>2. ASSUME NEW c \in CPU, NEW p \in Slot, Thread(c, p)
      PROVE  WakeInv'
  <2>3. ASSUME NEW x \in Slot, state'[x] = "ZOMBIE", NEW y \in Slot, parent'[x] = y, Asleep(y)'
        PROVE  /\ wlock' \in CPU /\ y = initproc
               /\ kpc'[on'[wlock']] = "wakeinit" /\ kj'[on'[wlock']] = 1
    BY <1>2, <2>3, ZombieStep, Zenon
  <2>4. ASSUME NEW x \in Slot, NEW y \in Slot
        PROVE  /\ kpc'[x] = "wakeparent" /\ parent'[x] = y /\ y < kj'[x] => ~Asleep(y)'
               /\ kpc'[x] = "zombie" /\ parent'[x] = y => ~Asleep(y)'
               /\ kpc'[x] = "scan" /\ y < ki'[x] /\ parent'[y] = x => state'[y] # "ZOMBIE"
               /\ kpc'[x] = "sleep" /\ parent'[y] = x => state'[y] # "ZOMBIE"
    <3>1. CASE x = p
      BY <1>2, <3>1, OwnStep, Zenon
    <3>2. CASE x # p /\ kpc'[x] \in Waiting
      <4>1. /\ kpc'[x] = kpc[x] /\ ki'[x] = ki[x] /\ kj'[x] = kj[x]
            /\ \A z \in Slot : parent'[z] # parent[z] => parent'[z] = NoProc
            /\ \A z \in Slot : state'[z] = "ZOMBIE" => state[z] = "ZOMBIE"
            /\ \A z \in Slot : Asleep(z)' => Asleep(z)
        BY <1>2, <3>2, Others, Zenon
      <4> QED
        BY <1>n, <4>1 DEF WakeInv
    <3> QED
      BY <3>1, <3>2, Zenon DEF Waiting
  <2> QED
    BY <1>t, <2>3, <2>4, Zenon DEF WakeInv, Asleep
<1> QED
  BY <1>1, <1>2, Zenon DEF Next

\* Whenever wait_lock is free, a process's parent is alive and can still call
\* wait(), and the parent of a ZOMBIE does not sleep there: exit() loses no
\* wakeup.  init must not be a victim of kill().
THEOREM ProcParentsCanWait ==
  ASSUME 1 \notin KillPid
  PROVE  Spec => []ParentsCanWait
<1> DEFINE Inv == StackInv /\ KillInv /\ InitInv /\ ParentInv /\ WakeInv
<1>1. Init => Inv
  <2> SUFFICES ASSUME Init PROVE Inv
    BY Zenon
  <2>1. StackInv
    BY InitStack, Zenon
  <2>2. KillInv
    BY Zenon DEF Init, KillInv
  <2>3. InitInv
    BY ProcAssumption DEF Init, InitInv, Alive, Exiting, Slot, initproc
  <2>4. ParentInv
    BY Zenon DEF Init, ParentInv
  <2>5. WakeInv
    BY Zenon DEF Init, WakeInv
  <2> QED
    BY <2>1, <2>2, <2>3, <2>4, <2>5, Zenon
<1>2. Inv /\ [Next]_vars => Inv'
  BY NextStack, NextKill, NextInit, NextParent, NextWake, Zenon
<1>3. Inv => ParentsCanWait
  <2> SUFFICES ASSUME Inv PROVE ParentsCanWait
    BY Zenon
  <2> USE ProcAssumption DEF ParentsCanWait, Alive, Asleep
  <2> QED
    BY Zenon DEF ParentInv, WakeInv
<1> QED
  BY <1>1, <1>2, <1>3, PTL DEF Spec
=============================================================================
