------------------------------ MODULE Spinlock ------------------------------
(***************************************************************************)
(* kernel/spinlock.c: acquire(), release(), holding(), push_off() and      *)
(* pop_off(), as executed by several CPUs with interrupts.                 *)
(*                                                                         *)
(* A thread of control is <<cpu, "main">>, the code a trap interrupts, or  *)
(* <<cpu, "intr">>, the handler (kernelvec/kerneltrap) that runs on top of *)
(* it.  Each load or store another CPU can observe is a step of its own:   *)
(* the two reads of holding(), the amoswap, the store of lk->cpu after it, *)
(* the clearing of lk->cpu before the lock is given up.                    *)
(*                                                                         *)
(* The client is any kernel code that nests locks in increasing order and  *)
(* releases what it acquired, in any order.                                *)
(***************************************************************************)
EXTENDS Naturals

CONSTANTS CPU,      \* the harts
          Lock,     \* the spinlocks, numbered in the order code nests them
          NoCpu     \* lk->cpu == 0

ASSUME SpinlockAssumption == NoCpu \notin CPU /\ Lock \subseteq Nat

VARIABLES locked,   \* lk->locked
          lcpu,     \* lk->cpu
          intr,     \* SSTATUS_SIE of each hart
          noff,     \* cpus[c].noff
          intena,   \* cpus[c].intena
          pc,       \* control point of each thread
          arg,      \* the lock the thread operates on
          old,      \* local variable of push_off()
          held,     \* locks each CPU has swapped in and not yet given back
          wanted    \* interrupt state the code on the CPU last asked for

vars == <<locked, lcpu, intr, noff, intena, pc, arg, old, held, wanted>>

Thread == CPU \X {"main", "intr"}

\* "run" is outside the functions of spinlock.c; "none" is a handler that is
\* not active; "panic" is the infinite loop of panic().
ControlPoint == {"none", "run", "push", "chk1", "chk2", "spin", "setcpu",
                 "rel1", "rel2", "clear", "unlock", "pop", "panic"}

TypeOK ==
  /\ locked \in [Lock -> BOOLEAN]
  /\ lcpu \in [Lock -> CPU \cup {NoCpu}]
  /\ intr \in [CPU -> BOOLEAN]
  /\ noff \in [CPU -> Nat]
  /\ intena \in [CPU -> BOOLEAN]
  /\ pc \in [Thread -> ControlPoint]
  /\ arg \in [Thread -> Lock]
  /\ old \in [Thread -> BOOLEAN]
  /\ held \in [CPU -> SUBSET Lock]
  /\ wanted \in [CPU -> BOOLEAN]

Main(c) == <<c, "main">>
Handler(c) == <<c, "intr">>

\* A handler runs to its end before the code it interrupted goes on.
Active(t) == t[2] = "intr" \/ pc[Handler(t[1])] = "none"

\* initlock() for every lock; each hart enters its first thread with
\* interrupts still off.
Init ==
  /\ locked = [l \in Lock |-> FALSE]
  /\ lcpu = [l \in Lock |-> NoCpu]
  /\ intr = [c \in CPU |-> FALSE]
  /\ noff = [c \in CPU |-> 0]
  /\ intena = [c \in CPU |-> FALSE]
  /\ pc = [t \in Thread |-> IF t[2] = "main" THEN "run" ELSE "none"]
  /\ arg \in [Thread -> Lock]
  /\ old = [t \in Thread |-> FALSE]
  /\ held = [c \in CPU |-> {}]
  /\ wanted = [c \in CPU |-> FALSE]

-----------------------------------------------------------------------------
(* acquire() *)

Goto(t, from, to) ==
  /\ Active(t)
  /\ pc[t] = from
  /\ pc' = [pc EXCEPT ![t] = to]

\* The call, up to push_off()'s "int old = intr_get()".
Acquire(t, l) ==
  /\ \A h \in held[t[1]] : h < l
  /\ Goto(t, "run", "push")
  /\ arg' = [arg EXCEPT ![t] = l]
  /\ old' = [old EXCEPT ![t] = intr[t[1]]]
  /\ UNCHANGED <<locked, lcpu, intr, noff, intena, held, wanted>>

\* Mutant of PushOff: intr_off() is forgotten.
PushOffLeavesIntrOn(t) ==
  LET c == t[1] IN
  /\ Goto(t, "push", "chk1")
  /\ intena' = [intena EXCEPT ![c] = IF noff[c] = 0 THEN old[t] ELSE @]
  /\ noff' = [noff EXCEPT ![c] = @ + 1]
  /\ UNCHANGED <<locked, lcpu, intr, arg, old, held, wanted>>

\* The rest of push_off(): intr_off(), then noff and intena.
PushOff(t) ==
  LET c == t[1] IN
  /\ Goto(t, "push", "chk1")
  /\ intr' = [intr EXCEPT ![c] = FALSE]
  /\ intena' = [intena EXCEPT ![c] = IF noff[c] = 0 THEN old[t] ELSE @]
  /\ noff' = [noff EXCEPT ![c] = @ + 1]
  /\ UNCHANGED <<locked, lcpu, arg, old, held, wanted>>

\* holding() in acquire(): the read of lk->locked, then that of lk->cpu.
AcquireReadLocked(t) ==
  /\ Goto(t, "chk1", IF locked[arg[t]] THEN "chk2" ELSE "spin")
  /\ UNCHANGED <<locked, lcpu, intr, noff, intena, arg, old, held, wanted>>

AcquireReadCpu(t) ==
  /\ Goto(t, "chk2", IF lcpu[arg[t]] = t[1] THEN "panic" ELSE "spin")
  /\ UNCHANGED <<locked, lcpu, intr, noff, intena, arg, old, held, wanted>>

\* Mutant of TestAndSet: the old value of the swap is ignored.
TestThenSet(t) ==
  LET c == t[1] IN
  /\ Goto(t, "spin", "setcpu")
  /\ locked' = [locked EXCEPT ![arg[t]] = TRUE]
  /\ held' = [held EXCEPT ![c] = @ \cup {arg[t]}]
  /\ UNCHANGED <<lcpu, intr, noff, intena, arg, old, wanted>>

\* The amoswap that finds the lock free; one that does not leaves no trace.
TestAndSet(t) ==
  LET c == t[1] IN
  /\ ~locked[arg[t]]
  /\ Goto(t, "spin", "setcpu")
  /\ locked' = [locked EXCEPT ![arg[t]] = TRUE]
  /\ held' = [held EXCEPT ![c] = @ \cup {arg[t]}]
  /\ UNCHANGED <<lcpu, intr, noff, intena, arg, old, wanted>>

SetCpu(t) ==
  /\ Goto(t, "setcpu", "run")
  /\ lcpu' = [lcpu EXCEPT ![arg[t]] = t[1]]
  /\ UNCHANGED <<locked, intr, noff, intena, arg, old, held, wanted>>

-----------------------------------------------------------------------------
(* release() *)

Release(t, l) ==
  /\ l \in held[t[1]]
  /\ Goto(t, "run", "rel1")
  /\ arg' = [arg EXCEPT ![t] = l]
  /\ UNCHANGED <<locked, lcpu, intr, noff, intena, old, held, wanted>>

\* holding() in release().
ReleaseReadLocked(t) ==
  /\ Goto(t, "rel1", IF locked[arg[t]] THEN "rel2" ELSE "panic")
  /\ UNCHANGED <<locked, lcpu, intr, noff, intena, arg, old, held, wanted>>

ReleaseReadCpu(t) ==
  /\ Goto(t, "rel2", IF lcpu[arg[t]] = t[1] THEN "clear" ELSE "panic")
  /\ UNCHANGED <<locked, lcpu, intr, noff, intena, arg, old, held, wanted>>

\* Mutant of ClearCpu: lk->cpu keeps its last holder.
KeepCpu(t) ==
  /\ Goto(t, "clear", "unlock")
  /\ UNCHANGED <<locked, lcpu, intr, noff, intena, arg, old, held, wanted>>

ClearCpu(t) ==
  /\ Goto(t, "clear", "unlock")
  /\ lcpu' = [lcpu EXCEPT ![arg[t]] = NoCpu]
  /\ UNCHANGED <<locked, intr, noff, intena, arg, old, held, wanted>>

\* __sync_lock_release()
Unlock(t) ==
  LET c == t[1] IN
  /\ Goto(t, "unlock", "pop")
  /\ locked' = [locked EXCEPT ![arg[t]] = FALSE]
  /\ held' = [held EXCEPT ![c] = @ \ {arg[t]}]
  /\ UNCHANGED <<lcpu, intr, noff, intena, arg, old, wanted>>

\* pop_off(): both panics, then noff and the interrupt state.
PopOff(t) ==
  LET c == t[1]
      ok == ~intr[c] /\ noff[c] >= 1
  IN
  /\ Goto(t, "pop", IF ok THEN "run" ELSE "panic")
  /\ noff' = [noff EXCEPT ![c] = IF ok THEN @ - 1 ELSE @]
  /\ intr' = [intr EXCEPT ![c] = IF ok /\ noff[c] = 1 /\ intena[c]
                                 THEN TRUE ELSE @]
  /\ UNCHANGED <<locked, lcpu, intena, arg, old, held, wanted>>

-----------------------------------------------------------------------------
(* Interrupts *)

\* intr_on() and intr_off() outside any lock: scheduler(), usertrap() and
\* usertrapret().
SetIntr(c, on) ==
  /\ Active(Main(c)) /\ pc[Main(c)] = "run"
  /\ noff[c] = 0
  /\ intr' = [intr EXCEPT ![c] = on]
  /\ wanted' = [wanted EXCEPT ![c] = on]
  /\ UNCHANGED <<locked, lcpu, noff, intena, pc, arg, old, held>>

\* The hart takes an interrupt: SIE is cleared and kernelvec runs.
Trap(c) ==
  /\ intr[c]
  /\ pc[Handler(c)] = "none"
  /\ intr' = [intr EXCEPT ![c] = FALSE]
  /\ pc' = [pc EXCEPT ![Handler(c)] = "run"]
  /\ UNCHANGED <<locked, lcpu, noff, intena, arg, old, held, wanted>>

\* kerneltrap() returns; sret restores SIE, which was set.
Sret(c) ==
  /\ pc[Handler(c)] = "run"
  /\ held[c] = {}
  /\ intr' = [intr EXCEPT ![c] = TRUE]
  /\ pc' = [pc EXCEPT ![Handler(c)] = "none"]
  /\ UNCHANGED <<locked, lcpu, noff, intena, arg, old, held, wanted>>

Step(t) ==
  \/ \E l \in Lock : Acquire(t, l)
  \/ PushOff(t)
  \/ AcquireReadLocked(t)
  \/ AcquireReadCpu(t)
  \/ TestAndSet(t)
  \/ SetCpu(t)
  \/ \E l \in Lock : Release(t, l)
  \/ ReleaseReadLocked(t)
  \/ ReleaseReadCpu(t)
  \/ ClearCpu(t)
  \/ Unlock(t)
  \/ PopOff(t)

Next ==
  \/ \E t \in Thread : Step(t)
  \/ \E c \in CPU, on \in BOOLEAN : SetIntr(c, on)
  \/ \E c \in CPU : Trap(c)
  \/ \E c \in CPU : Sret(c)

Spec == Init /\ [][Next]_vars

-----------------------------------------------------------------------------
(* Properties *)

\* A lock is held by one CPU at a time: the amoswap loop of acquire() lets
\* nobody in while lk->locked is set.
MutualExclusion ==
  \A c, d \in CPU : c # d => held[c] \cap held[d] = {}

\* The panics of acquire(), release() and pop_off() are unreachable: what
\* holding() reads in two separate loads, while other CPUs take and drop the
\* lock, is never wrong about the CPU itself, and no interrupt handler ever
\* waits for a lock of the code it interrupted.
NoPanic == \A t \in Thread : pc[t] # "panic"

\* push_off() and pop_off() nest: a CPU is interruptible only when it holds
\* no lock, and when the last lock is gone the interrupt state is the one the
\* code had asked for before the first acquire(), whatever happened between.
IntrDiscipline ==
  \A c \in CPU :
    /\ intr[c] => held[c] = {} /\ noff[c] = 0
    /\ pc[Main(c)] = "run" /\ pc[Handler(c)] = "none" /\ noff[c] = 0
         => (intr[c] <=> wanted[c])
=============================================================================
