----------------------------- MODULE LocksProof -----------------------------
(***************************************************************************)
(* Proofs about the two kinds of lock: about Spinlock for any number of    *)
(* harts and locks, and about BufCache for any number of processes,        *)
(* buffers and blocks.                                                     *)
(***************************************************************************)
EXTENDS Spinlock, BufCache, FiniteSetTheorems, WellFoundedInduction, TLAPS

-----------------------------------------------------------------------------
(* Spinlocks *)

\* Points between push_off() and the amoswap, or between the release of the
\* lock and pop_off(): noff counts a lock that is not held.
Counted == {"chk1", "chk2", "spin", "pop"}

\* Points at which the thread's argument is a lock its CPU holds.
Owning == {"setcpu", "rel1", "rel2", "clear", "unlock"}

Extra(c) ==
  IF pc[Main(c)] \in Counted \/ pc[Handler(c)] \in Counted THEN 1 ELSE 0

\* lk->locked and lk->cpu tell the truth about who holds the lock.
LockInv ==
  /\ MutualExclusion
  /\ \A c \in CPU : \A l \in held[c] : locked[l]
  /\ \A c \in CPU : \A l \in Lock : lcpu[l] = c => l \in held[c]
  /\ \A c \in CPU : \A l \in held[c] :
       \/ lcpu[l] = c
       \/ \E t \in Thread : /\ t[1] = c /\ arg[t] = l
                            /\ pc[t] \in {"setcpu", "unlock"}

\* What a thread's control point says about its lock.
ThreadOK(t) ==
    /\ pc[t] # "panic"
    /\ t[2] = "main" => pc[t] # "none"
    /\ pc[t] \in Owning => arg[t] \in held[t[1]]
    /\ pc[t] \in {"chk1", "chk2", "spin"} => arg[t] \notin held[t[1]]
    /\ pc[t] = "push" /\ Active(t) => arg[t] \notin held[t[1]]
    /\ pc[t] = "unlock" => lcpu[arg[t]] # t[1]

ThreadInv == \A t \in Thread : ThreadOK(t)

\* Nesting: noff counts the locks, a handler only interrupts code that holds
\* none, and the saved interrupt states lead back to the wanted one.
CpuOK(c) ==
    /\ IsFiniteSet(held[c])
    /\ noff[c] = Cardinality(held[c]) + Extra(c)
    /\ intr[c] => noff[c] = 0 /\ pc[Handler(c)] = "none"
    /\ pc[Handler(c)] # "none" =>
         /\ pc[Main(c)] \in {"run", "push"}
         /\ wanted[c]
         /\ noff[c] > 0 => ~intena[c]
         /\ pc[Handler(c)] = "push" => ~old[Handler(c)]
         /\ pc[Main(c)] = "push" => old[Main(c)]
    /\ pc[Handler(c)] = "none" =>
         /\ noff[c] = 0 => (intr[c] <=> wanted[c])
         /\ noff[c] > 0 => (intena[c] <=> wanted[c])
         /\ pc[Main(c)] = "push" /\ noff[c] = 0 => (old[Main(c)] <=> wanted[c])

CpuInv == \A c \in CPU : CpuOK(c)

IInv == TypeOK /\ LockInv /\ ThreadInv /\ CpuInv

\* What CpuInv says of the CPU whose running thread is t.
NestOK(t) ==
  LET c == t[1] IN
  /\ IsFiniteSet(held[c])
  /\ noff[c] = Cardinality(held[c]) + (IF pc[t] \in Counted THEN 1 ELSE 0)
  /\ intr[c] => noff[c] = 0 /\ t[2] = "main"
  /\ t[2] = "intr" =>
       /\ noff[c] > 0 => ~intena[c]
       /\ pc[t] = "push" => ~old[t]
  /\ t[2] = "main" =>
       /\ noff[c] = 0 => (intr[c] <=> wanted[c])
       /\ noff[c] > 0 => (intena[c] <=> wanted[c])
       /\ pc[t] = "push" /\ noff[c] = 0 => (old[t] <=> wanted[c])

\* What a step of thread t leaves alone: the other threads, the other CPUs,
\* and the owner of a lock other than its own CPU.
Frame(t) ==
  /\ Active(t) /\ pc[t] # "none" /\ pc'[t] # "none"
  /\ \A u \in Thread \ {t} :
       pc'[u] = pc[u] /\ arg'[u] = arg[u] /\ (old'[u] <=> old[u])
  /\ \A d \in CPU \ {t[1]} :
       /\ held'[d] = held[d] /\ noff'[d] = noff[d]
       /\ (intr'[d] <=> intr[d]) /\ (intena'[d] <=> intena[d])
       /\ \A l \in Lock : lcpu'[l] = d => lcpu[l] = d
  /\ wanted' = wanted

-----------------------------------------------------------------------------
\* Init establishes the inductive invariant.
LEMMA InitIInv ==
  ASSUME Init
  PROVE  IInv
<1> USE SpinlockAssumption
<1>1. TypeOK
  BY Zenon DEF Init, TypeOK, Thread, ControlPoint
<1>2. LockInv
  BY Zenon DEF Init, LockInv, MutualExclusion
<1>3. ThreadInv
  BY Zenon DEF Init, ThreadInv, ThreadOK, Thread, Owning
<1>4. CpuInv
  <2> SUFFICES ASSUME NEW c \in CPU
               PROVE  CpuOK(c)
    BY Zenon DEF CpuInv
  <2>1. pc[Main(c)] = "run" /\ pc[Handler(c)] = "none"
    BY Zenon DEF Init, Thread, Main, Handler
  <2>2. IsFiniteSet(held[c]) /\ Cardinality(held[c]) = 0
    BY FS_EmptySet, Zenon DEF Init
  <2>3. Extra(c) = 0
    BY <2>1, Zenon DEF Extra, Counted
  <2>4. noff[c] = 0 /\ ~intr[c] /\ ~wanted[c]
    BY Zenon DEF Init
  <2> QED
    BY <2>1, <2>2, <2>3, <2>4 DEF CpuOK
<1> QED
  BY <1>1, <1>2, <1>3, <1>4, Zenon DEF IInv

\* Every thread is a CPU's main thread or its handler.
LEMMA ThreadIs ==
  ASSUME NEW t \in Thread
  PROVE  /\ t[1] \in CPU
         /\ t = Main(t[1]) \/ t = Handler(t[1])
         /\ t[2] \in {"main", "intr"}
  BY DEF Thread, Main, Handler

\* Threads of different CPUs, and the two of one CPU, are different.
LEMMA Threads ==
  ASSUME NEW c \in CPU
  PROVE  /\ Main(c) \in Thread /\ Handler(c) \in Thread
         /\ Main(c) # Handler(c)
         /\ Main(c)[1] = c /\ Handler(c)[1] = c
         /\ Main(c)[2] = "main" /\ Handler(c)[2] = "intr"
         /\ \A d \in CPU : d # c => /\ Main(c) # Main(d)
                                  /\ Handler(c) # Handler(d)
                                  /\ Main(c) # Handler(d)
                                  /\ Handler(c) # Main(d)
  BY Zenon DEF Thread, Main, Handler

\* A step of one thread leaves the other threads and CPUs alone.
LEMMA StepFrame ==
  ASSUME TypeOK, NEW t \in Thread, Step(t)
  PROVE  Frame(t)
<1> USE SpinlockAssumption, ThreadIs, Threads
<1>1. ASSUME NEW l \in Lock, Acquire(t, l)
      PROVE  Frame(t)
  BY <1>1 DEF TypeOK, Acquire, Goto, Frame
<1>2. CASE PushOff(t)
  BY <1>2 DEF TypeOK, PushOff, Goto, Frame
<1>3. CASE AcquireReadLocked(t)
  BY <1>3 DEF TypeOK, AcquireReadLocked, Goto, Frame
<1>4. CASE AcquireReadCpu(t)
  BY <1>4 DEF TypeOK, AcquireReadCpu, Goto, Frame
<1>5. CASE TestAndSet(t)
  BY <1>5 DEF TypeOK, TestAndSet, Goto, Frame
<1>6. CASE SetCpu(t)
  BY <1>6 DEF TypeOK, SetCpu, Goto, Frame
<1>7. ASSUME NEW l \in Lock, Release(t, l)
      PROVE  Frame(t)
  BY <1>7 DEF TypeOK, Release, Goto, Frame
<1>8. CASE ReleaseReadLocked(t)
  BY <1>8 DEF TypeOK, ReleaseReadLocked, Goto, Frame
<1>9. CASE ReleaseReadCpu(t)
  BY <1>9 DEF TypeOK, ReleaseReadCpu, Goto, Frame
<1>10. CASE ClearCpu(t)
  BY <1>10 DEF TypeOK, ClearCpu, Goto, Frame
<1>11. CASE Unlock(t)
  BY <1>11 DEF TypeOK, Unlock, Goto, Frame
<1>12. CASE PopOff(t)
  BY <1>12 DEF TypeOK, PopOff, Goto, Frame
<1> QED
  BY <1>1, <1>2, <1>3, <1>4, <1>5, <1>6, <1>7,
     <1>8, <1>9, <1>10, <1>11, <1>12, Zenon DEF Step

\* The running thread of a CPU knows its CPU's nesting state.
LEMMA Acting ==
  ASSUME IInv, NEW t \in Thread, Active(t), pc[t] # "none"
  PROVE  /\ t[1] \in CPU /\ ThreadOK(t) /\ NestOK(t)
         /\ t = Handler(t[1]) =>
              /\ wanted[t[1]] /\ pc[Main(t[1])] \in {"run", "push"}
              /\ pc[Main(t[1])] = "push" => old[Main(t[1])]
<1> DEFINE c == t[1]
<1> USE ThreadIs, Threads
<1>1. c \in CPU /\ ThreadOK(t) /\ CpuOK(c)
  BY Zenon DEF IInv, ThreadInv, CpuInv
<1>2. CASE t = Main(c)
  <2>1. pc[Handler(c)] = "none" /\ t[2] = "main" /\ t # Handler(c)
    BY <1>1, <1>2, Zenon DEF Active
  <2>2. Extra(c) = IF pc[t] \in Counted THEN 1 ELSE 0
    BY <1>2, <2>1, Zenon DEF Extra, Counted
  <2> QED
    BY <1>1, <1>2, <2>1, <2>2 DEF CpuOK, NestOK
<1>3. CASE t = Handler(c)
  <2>1. t[2] = "intr" /\ pc[Main(c)] \in {"run", "push"}
    BY <1>1, <1>3, Zenon DEF CpuOK
  <2>2. Extra(c) = IF pc[t] \in Counted THEN 1 ELSE 0
    BY <1>3, <2>1, Zenon DEF Extra, Counted
  <2> QED
    BY <1>1, <1>3, <2>1, <2>2 DEF CpuOK, NestOK
<1> QED
  BY <1>1, <1>2, <1>3, Zenon

\* A step of t keeps CpuInv if it keeps what t knows of its own CPU.
LEMMA CpuStep ==
  ASSUME IInv, NEW t \in Thread, Frame(t), NestOK(t)'
  PROVE  CpuInv'
<1> DEFINE c == t[1]
<1> USE ThreadIs, Threads
<1> SUFFICES ASSUME NEW d \in CPU
             PROVE  CpuOK(d)'
  BY Zenon DEF CpuInv
<1>0. c \in CPU /\ CpuOK(c) /\ CpuOK(d)
  BY Zenon DEF IInv, CpuInv
<1>1. CASE d # c
  <2>1. Main(d) \in Thread \ {t} /\ Handler(d) \in Thread \ {t}
    BY <1>0, <1>1, Zenon
  <2>2. pc'[Main(d)] = pc[Main(d)] /\ pc'[Handler(d)] = pc[Handler(d)]
    BY <2>1, Zenon DEF Frame
  <2>3. Extra(d)' = Extra(d)
    BY <2>2, Zenon DEF Extra
  <2> QED
    BY <1>0, <1>1, <2>1, <2>2, <2>3 DEF Frame, CpuOK
<1>2. CASE d = c /\ t = Main(c)
  <2>1. pc'[Handler(c)] = "none" /\ t[2] = "main"
    BY <1>0, <1>2, Zenon DEF Frame, Active
  <2>2. Extra(c)' = IF pc'[t] \in Counted THEN 1 ELSE 0
    BY <1>2, <2>1, Zenon DEF Extra, Counted
  <2> QED
    BY <1>2, <2>1, <2>2, Zenon DEF CpuOK, NestOK
<1>3. CASE d = c /\ t = Handler(c)
  <2>1. /\ pc'[Main(c)] = pc[Main(c)] /\ t[2] = "intr"
        /\ old'[Main(c)] <=> old[Main(c)]
    BY <1>0, <1>3, Zenon DEF Frame
  <2>2. /\ wanted'[c] /\ pc'[Main(c)] \in {"run", "push"}
        /\ pc'[Main(c)] = "push" => old'[Main(c)]
    BY <1>0, <1>3, <2>1, Zenon DEF Frame, CpuOK
  <2>3. Extra(c)' = IF pc'[t] \in Counted THEN 1 ELSE 0
    BY <1>3, <2>2, Zenon DEF Extra, Counted
  <2>4. pc'[t] # "none"
    BY Zenon DEF Frame
  <2> QED
    BY <1>3, <2>1, <2>2, <2>3, <2>4, Zenon DEF CpuOK, NestOK
<1> QED
  BY <1>0, <1>1, <1>2, <1>3, Zenon

\* A step of t keeps ThreadInv if it keeps what t's control point says.
LEMMA ThreadStep ==
  ASSUME IInv, NEW t \in Thread, Frame(t), ThreadOK(t)'
  PROVE  ThreadInv'
<1> DEFINE c == t[1]
<1> USE ThreadIs, Threads
<1> SUFFICES ASSUME NEW u \in Thread, u # t
             PROVE  ThreadOK(u)'
  BY Zenon DEF ThreadInv
<1>0. /\ c \in CPU /\ u[1] \in CPU /\ ThreadOK(u) /\ arg[u] \in Lock
      /\ pc'[u] = pc[u] /\ arg'[u] = arg[u]
  BY Zenon DEF IInv, TypeOK, ThreadInv, Frame
<1>1. CASE u[1] # c
  <2>1. held'[u[1]] = held[u[1]] /\ (lcpu'[arg[u]] = u[1] => lcpu[arg[u]] = u[1])
    BY <1>0, <1>1 DEF Frame
  <2>2. Active(u)' <=> Active(u)
    <3>1. Handler(u[1]) \in Thread \ {t}
      BY <1>0, <1>1, Zenon
    <3> QED
      BY <3>1, Zenon DEF Active, Frame
  <2> QED
    BY <1>0, <2>1, <2>2, Zenon DEF ThreadOK
<1>2. CASE u[1] = c /\ t = Main(c)
  <2>1. u = Handler(c) /\ pc[u] = "none"
    BY <1>0, <1>2 DEF Frame, Active
  <2> QED
    BY <1>0, <2>1, Zenon DEF ThreadOK, Owning
<1>3. CASE u[1] = c /\ t = Handler(c)
  <2>1. u = Main(c) /\ u[2] = "main" /\ pc[u] \in {"run", "push"}
    BY <1>0, <1>3, Acting DEF Frame
  <2>2. ~Active(u)'
    BY <1>0, <1>3, <2>1 DEF Active, Frame
  <2> QED
    BY <1>0, <2>1, <2>2, Zenon DEF ThreadOK, Owning
<1> QED
  BY <1>0, <1>1, <1>2, <1>3, Zenon

\* A step of acquire() or release() keeps the types; pop_off() finds noff
\* positive.
LEMMA TypeStep ==
  ASSUME IInv, NEW t \in Thread, Step(t)
  PROVE  TypeOK'
<1> USE SpinlockAssumption, ThreadIs, Threads
<1>0. t[1] \in CPU /\ ThreadOK(t) /\ NestOK(t)
  BY Acting, StepFrame, Zenon DEF IInv, Frame
<1>1. ASSUME NEW l \in Lock, Acquire(t, l)
      PROVE  TypeOK'
  BY <1>1, <1>0 DEF IInv, TypeOK, Acquire, Goto, ControlPoint
<1>2. CASE PushOff(t)
  BY <1>2, <1>0 DEF IInv, TypeOK, PushOff, Goto, ControlPoint
<1>3. CASE AcquireReadLocked(t)
  BY <1>3, <1>0, Zenon DEF IInv, TypeOK, AcquireReadLocked, Goto, ControlPoint
<1>4. CASE AcquireReadCpu(t)
  BY <1>4, <1>0, Zenon DEF IInv, TypeOK, AcquireReadCpu, Goto, ControlPoint
<1>5. CASE TestAndSet(t)
  BY <1>5, <1>0 DEF IInv, TypeOK, TestAndSet, Goto, ControlPoint
<1>6. CASE SetCpu(t)
  BY <1>6, <1>0, Zenon DEF IInv, TypeOK, SetCpu, Goto, ControlPoint
<1>7. ASSUME NEW l \in Lock, Release(t, l)
      PROVE  TypeOK'
  BY <1>7, <1>0, Zenon DEF IInv, TypeOK, Release, Goto, ControlPoint
<1>8. CASE ReleaseReadLocked(t)
  BY <1>8, <1>0, Zenon DEF IInv, TypeOK, ReleaseReadLocked, Goto, ControlPoint
<1>9. CASE ReleaseReadCpu(t)
  BY <1>9, <1>0, Zenon DEF IInv, TypeOK, ReleaseReadCpu, Goto, ControlPoint
<1>10. CASE ClearCpu(t)
  BY <1>10, <1>0, Zenon DEF IInv, TypeOK, ClearCpu, Goto, ControlPoint
<1>11. CASE Unlock(t)
  BY <1>11, <1>0, Zenon DEF IInv, TypeOK, Unlock, Goto, ControlPoint
<1>12. CASE PopOff(t)
  <2>1. noff[t[1]] \in Nat /\ (noff[t[1]] >= 1 => noff[t[1]] - 1 \in Nat)
    BY <1>0 DEF IInv, TypeOK
  <2>2. noff' \in [CPU -> Nat]
    BY <1>12, <1>0, <2>1, Zenon DEF IInv, TypeOK, PopOff
  <2>4. intr' \in [CPU -> BOOLEAN]
    <3>1. PICK b \in BOOLEAN : intr' = [intr EXCEPT ![t[1]] = b]
      <4>1. intr[t[1]] \in BOOLEAN
        BY <1>0, Zenon DEF IInv, TypeOK
      <4>2. CASE ~intr[t[1]] /\ noff[t[1]] >= 1 /\ noff[t[1]] = 1 /\ intena[t[1]]
        BY <1>12, <4>2, Zenon DEF PopOff
      <4>3. CASE ~(~intr[t[1]] /\ noff[t[1]] >= 1
                   /\ noff[t[1]] = 1 /\ intena[t[1]])
        BY <1>12, <4>1, <4>3, Zenon DEF PopOff
      <4> QED
        BY <4>2, <4>3, Zenon
    <3> QED
      BY <3>1, Zenon DEF IInv, TypeOK
  <2>3. pc' \in [Thread -> ControlPoint]
    BY <1>12, Zenon DEF IInv, TypeOK, PopOff, Goto, ControlPoint
  <2> QED
    BY <1>12, <2>2, <2>3, <2>4, Zenon DEF IInv, TypeOK, PopOff
<1> QED
  BY <1>1, <1>2, <1>3, <1>4, <1>5, <1>6, <1>7,
     <1>8, <1>9, <1>10, <1>11, <1>12, Zenon DEF Step

\* A step leaves its thread at a control point that is right about the lock:
\* in particular not at a panic.
LEMMA PointStep ==
  ASSUME IInv, NEW t \in Thread, Step(t)
  PROVE  ThreadOK(t)'
<1> USE SpinlockAssumption, ThreadIs, Threads
<1>0. t[1] \in CPU /\ ThreadOK(t) /\ NestOK(t)
  BY Acting, StepFrame, Zenon DEF IInv, Frame
<1>1. ASSUME NEW l \in Lock, Acquire(t, l)
      PROVE  ThreadOK(t)'
  <2>1. l \notin held[t[1]]
    BY <1>1 DEF Acquire
  <2> QED
    BY <1>1, <1>0, <2>1 DEF IInv, TypeOK, ThreadOK, Owning, Acquire, Goto
<1>2. CASE PushOff(t)
  BY <1>2, <1>0 DEF IInv, TypeOK, ThreadOK, Owning, Active, PushOff, Goto
<1>3. CASE AcquireReadLocked(t)
  BY <1>3, <1>0 DEF IInv, TypeOK, ThreadOK, Owning, Active, AcquireReadLocked, Goto
<1>4. CASE AcquireReadCpu(t)
  <2>1. pc[t] = "chk2" /\ arg[t] \notin held[t[1]] /\ arg[t] \in Lock
    BY <1>4, <1>0 DEF IInv, TypeOK, ThreadOK, AcquireReadCpu, Goto
  <2>2. lcpu[arg[t]] # t[1]
    BY <1>0, <2>1, Zenon DEF IInv, LockInv
  <2> QED
    BY <1>4, <1>0, <2>1, <2>2 DEF IInv, TypeOK, ThreadOK, Owning, AcquireReadCpu, Goto
<1>5. CASE TestAndSet(t)
  BY <1>5, <1>0 DEF IInv, TypeOK, ThreadOK, Owning, Active, TestAndSet, Goto
<1>6. CASE SetCpu(t)
  BY <1>6, <1>0 DEF IInv, TypeOK, ThreadOK, Owning, Active, SetCpu, Goto
<1>7. ASSUME NEW l \in Lock, Release(t, l)
      PROVE  ThreadOK(t)'
  BY <1>7, <1>0 DEF IInv, TypeOK, ThreadOK, Owning, Active, Release, Goto
<1>8. CASE ReleaseReadLocked(t)
  <2>1. pc[t] = "rel1" /\ arg[t] \in held[t[1]]
    BY <1>8, <1>0, Zenon DEF ThreadOK, Owning, ReleaseReadLocked, Goto
  <2>2. locked[arg[t]]
    BY <1>0, <2>1, Zenon DEF IInv, LockInv
  <2> QED
    BY <1>8, <2>1, <2>2 DEF IInv, TypeOK, ThreadOK, Owning, ReleaseReadLocked, Goto
<1>9. CASE ReleaseReadCpu(t)
  <2>1. pc[t] = "rel2" /\ arg[t] \in held[t[1]] /\ Active(t)
    BY <1>9, <1>0, Zenon DEF ThreadOK, Owning, ReleaseReadCpu, Goto
  <2>2. ASSUME NEW u \in Thread, u[1] = t[1], u # t
        PROVE  pc[u] \notin {"setcpu", "unlock"}
    <3>1. CASE t = Main(t[1])
      BY <1>0, <2>1, <2>2, <3>1 DEF Active
    <3>2. CASE t = Handler(t[1])
      BY <1>0, <2>1, <2>2, <3>2, Acting
    <3> QED
      BY <3>1, <3>2, Zenon
  <2>3. lcpu[arg[t]] = t[1]
    BY <1>0, <2>1, <2>2 DEF IInv, LockInv
  <2> QED
    BY <1>9, <2>1, <2>3, Zenon DEF IInv, TypeOK, ThreadOK, Owning, ReleaseReadCpu, Goto
<1>10. CASE ClearCpu(t)
  BY <1>10, <1>0 DEF IInv, TypeOK, ThreadOK, Owning, Active, ClearCpu, Goto
<1>11. CASE Unlock(t)
  BY <1>11, <1>0 DEF IInv, TypeOK, ThreadOK, Owning, Active, Unlock, Goto
<1>12. CASE PopOff(t)
  <2>1. Cardinality(held[t[1]]) \in Nat /\ pc[t] = "pop"
    BY <1>12, <1>0, FS_CardinalityType, Zenon DEF NestOK, PopOff, Goto
  <2>2. noff[t[1]] >= 1 /\ ~intr[t[1]]
    <3>1. pc[t] \in Counted
      BY <2>1, Zenon DEF Counted
    <3>2. noff[t[1]] = Cardinality(held[t[1]]) + 1 /\ (intr[t[1]] => noff[t[1]] = 0)
      BY <1>0, <3>1, Zenon DEF NestOK
    <3> QED
      BY <2>1, <3>2
  <2>3. pc'[t] = "run"
    BY <1>12, <2>2, Zenon DEF IInv, TypeOK, PopOff, Goto
  <2> QED
    BY <2>3, Zenon DEF ThreadOK, Owning
<1> QED
  BY <1>1, <1>2, <1>3, <1>4, <1>5, <1>6, <1>7,
     <1>8, <1>9, <1>10, <1>11, <1>12, Zenon DEF Step

\* A step that neither counts a lock nor touches the interrupt state keeps
\* the nesting invariant.
LEMMA QuietNest ==
  ASSUME NEW t \in Thread, NestOK(t), UNCHANGED <<held, noff, intr, intena, wanted>>,
         pc[t] \in Counted <=> pc'[t] \in Counted, pc'[t] # "push"
  PROVE  NestOK(t)'
  BY Zenon DEF NestOK

\* push_off() and pop_off() count locks and interrupt states as the nesting
\* invariant says.
LEMMA NestStep ==
  ASSUME IInv, NEW t \in Thread, Step(t)
  PROVE  NestOK(t)'
<1> DEFINE c == t[1]
<1>0. t[1] \in CPU /\ ThreadOK(t) /\ NestOK(t)
  BY Acting, StepFrame, Zenon DEF IInv, Frame
<1>a. IsFiniteSet(held[c]) /\ Cardinality(held[c]) \in Nat
  BY <1>0, FS_CardinalityType, Zenon DEF NestOK
<1>1. ASSUME NEW l \in Lock, Acquire(t, l)
      PROVE  NestOK(t)'
  BY <1>1, <1>0, Zenon DEF IInv, TypeOK, NestOK, Counted, Acquire, Goto
<1>2. CASE PushOff(t)
  <2>1. /\ pc[t] = "push" /\ pc'[t] = "chk1" /\ ~intr'[c]
        /\ noff'[c] = noff[c] + 1 /\ held'[c] = held[c]
        /\ noff[c] = 0 => (intena'[c] <=> old[t])
        /\ noff[c] > 0 => (intena'[c] <=> intena[c])
        /\ wanted'[c] <=> wanted[c]
    BY <1>2, <1>0 DEF IInv, TypeOK, PushOff, Goto
  <2>2. /\ pc[t] \notin Counted /\ pc'[t] \in Counted
        /\ noff[c] = Cardinality(held[c])
    BY <1>0, <1>a, <2>1 DEF NestOK, Counted
  <2>3. /\ IsFiniteSet(held'[c]) /\ noff'[c] = Cardinality(held'[c]) + 1
        /\ noff'[c] > 0 /\ noff'[c] # 0
    <3> HIDE DEF c
    <3> QED
      BY <1>a, <2>1, <2>2
  <2>4. t[2] = "intr" => ~intena'[c]
    BY <1>0, <1>a, <2>1, <2>2 DEF NestOK
  <2>5. t[2] = "main" => (intena'[c] <=> wanted'[c])
    BY <1>0, <1>a, <2>1, <2>2 DEF NestOK
  <2> QED
    BY <2>1, <2>2, <2>3, <2>4, <2>5, Zenon DEF NestOK
<1>3. CASE AcquireReadLocked(t)
  BY <1>3, <1>0, QuietNest, PointStep, Zenon
     DEF IInv, TypeOK, ThreadOK, Counted, AcquireReadLocked, Goto
<1>4. CASE AcquireReadCpu(t)
  <2>1. pc[t] = "chk2" /\ pc'[t] \in {"panic", "spin"}
    BY <1>4, <1>0, Zenon DEF IInv, TypeOK, AcquireReadCpu, Goto
  <2>2. pc'[t] = "spin"
    BY <1>4, <2>1, PointStep, Zenon DEF ThreadOK
  <2> QED
    BY <1>4, <1>0, <2>1, <2>2, QuietNest, Zenon DEF AcquireReadCpu, Counted
<1>5. CASE TestAndSet(t)
  <2>1. /\ pc[t] = "spin" /\ pc'[t] = "setcpu"
        /\ held'[c] = held[c] \cup {arg[t]} /\ arg[t] \notin held[c]
    BY <1>5, <1>0, Zenon DEF IInv, TypeOK, ThreadOK, TestAndSet, Goto
  <2>2. IsFiniteSet(held'[c]) /\ Cardinality(held'[c]) = Cardinality(held[c]) + 1
    BY <1>a, <2>1, FS_AddElement, SMTT(20)
  <2> QED
    BY <1>5, <1>0, <1>a, <2>1, <2>2 DEF TestAndSet, NestOK, Counted
<1>6. CASE SetCpu(t)
  BY <1>6, <1>0, QuietNest, Zenon DEF IInv, TypeOK, Counted, SetCpu, Goto
<1>7. ASSUME NEW l \in Lock, Release(t, l)
      PROVE  NestOK(t)'
  BY <1>7, <1>0, Zenon DEF IInv, TypeOK, NestOK, Counted, Release, Goto
<1>8. CASE ReleaseReadLocked(t)
  BY <1>8, <1>0, QuietNest, PointStep, Zenon
     DEF IInv, TypeOK, ThreadOK, Counted, ReleaseReadLocked, Goto
<1>9. CASE ReleaseReadCpu(t)
  BY <1>9, <1>0, QuietNest, PointStep, Zenon
     DEF IInv, TypeOK, ThreadOK, Counted, ReleaseReadCpu, Goto
<1>10. CASE ClearCpu(t)
  BY <1>10, <1>0, QuietNest, Zenon DEF IInv, TypeOK, Counted, ClearCpu, Goto
<1>11. CASE Unlock(t)
  <2>1. /\ pc[t] = "unlock" /\ pc'[t] = "pop"
        /\ held'[c] = held[c] \ {arg[t]} /\ arg[t] \in held[c]
    BY <1>11, <1>0, Zenon DEF IInv, TypeOK, ThreadOK, Owning, Unlock, Goto
  <2>2. held'[c] \in SUBSET held[c]
    BY <2>1, Zenon
  <2>3. IsFiniteSet(held'[c]) /\ Cardinality(held'[c]) \in Nat
    BY <1>a, <2>2, FS_Subset, FS_CardinalityType, Zenon
  <2>4. held[c] = held'[c] \cup {arg[t]} /\ arg[t] \notin held'[c]
    BY <2>1, Zenon
  <2>5. Cardinality(held[c]) = Cardinality(held'[c]) + 1
    <3> HIDE DEF c
    <3> QED
      BY <2>3, <2>4, FS_CardinalityType, FS_AddElement, Zenon
  <2>6. /\ noff'[c] = noff[c] /\ (intr'[c] <=> intr[c])
        /\ (intena'[c] <=> intena[c]) /\ (wanted'[c] <=> wanted[c])
    BY <1>11, Zenon DEF Unlock
  <2>7. noff'[c] = Cardinality(held'[c]) + 1
    BY <1>0, <2>1, <2>3, <2>5, <2>6 DEF NestOK, Counted
  <2> QED
    BY <1>0, <2>1, <2>3, <2>6, <2>7, Zenon DEF NestOK, Counted
<1>12. CASE PopOff(t)
  <2>1. noff[c] = Cardinality(held[c]) + 1 /\ ~intr[c]
    <3>1. pc[t] = "pop"
      BY <1>12, Zenon DEF PopOff, Goto
    <3> QED
      BY <1>0, <1>a, <3>1 DEF NestOK, Counted
  <2>2. /\ pc'[t] = "run" /\ noff'[c] = noff[c] - 1
        /\ noff[c] = 1 /\ intena[c] => intr'[c]
        /\ ~(noff[c] = 1 /\ intena[c]) => ~intr'[c]
        /\ UNCHANGED <<held, intena, wanted, old>>
    <3>1. noff[c] >= 1
      BY <1>a, <2>1
    <3> QED
      BY <1>12, <1>0, <2>1, <3>1, Zenon DEF IInv, TypeOK, PopOff, Goto
  <2>3. /\ IsFiniteSet(held'[c]) /\ noff'[c] = Cardinality(held'[c])
        /\ pc'[t] \notin Counted /\ noff[c] > 0
        /\ (noff'[c] = 0 <=> noff[c] = 1)
    BY <1>a, <2>1, <2>2 DEF Counted
  <2>4. t[2] = "intr" => ~intena[c]
    BY <1>0, <2>3, Zenon DEF NestOK
  <2>5. t[2] = "main" => (intena[c] <=> wanted[c])
    BY <1>0, <2>3, Zenon DEF NestOK
  <2>6. t[2] \in {"main", "intr"}
    BY ThreadIs, Zenon
  <2> QED
    BY <1>a, <2>2, <2>3, <2>4, <2>5, <2>6 DEF NestOK
<1> QED
  BY <1>1, <1>2, <1>3, <1>4, <1>5, <1>6, <1>7,
     <1>8, <1>9, <1>10, <1>11, <1>12, Zenon DEF Step

\* A step that changes no lock, and moves no thread into or out of the two
\* points around the stores of lk->cpu, keeps the lock invariant.
LEMMA LockFrame ==
  ASSUME LockInv, UNCHANGED <<locked, lcpu, held>>,
         \A u \in Thread : pc[u] \in {"setcpu", "unlock"}
                             => pc'[u] = pc[u] /\ arg'[u] = arg[u]
  PROVE  LockInv'
<1>1. ASSUME NEW c \in CPU, NEW l \in held'[c]
      PROVE  \/ lcpu'[l] = c
             \/ \E t \in Thread : /\ t[1] = c /\ arg'[t] = l
                                  /\ pc'[t] \in {"setcpu", "unlock"}
  <2>1. CASE lcpu[l] = c
    BY <2>1, Zenon
  <2>2. CASE \E t \in Thread : /\ t[1] = c /\ arg[t] = l
                               /\ pc[t] \in {"setcpu", "unlock"}
    BY <2>2, Zenon
  <2> QED
    BY <1>1, <2>1, <2>2 DEF LockInv
<1>2. MutualExclusion'
  BY Zenon DEF LockInv, MutualExclusion
<1> QED
  BY <1>1, <1>2, Zenon DEF LockInv

\* lk->locked and lk->cpu stay right about who holds the lock.
LEMMA LockStep ==
  ASSUME IInv, NEW t \in Thread, Step(t)
  PROVE  LockInv'
<1>0. t[1] \in CPU /\ ThreadOK(t)
  BY Acting, StepFrame, Zenon DEF IInv, Frame
<1>1. ASSUME NEW l \in Lock, Acquire(t, l)
      PROVE  LockInv'
  BY <1>1, LockFrame, Zenon DEF IInv, TypeOK, Acquire, Goto
<1>2. CASE PushOff(t)
  BY <1>2, LockFrame, Zenon DEF IInv, TypeOK, PushOff, Goto
<1>3. CASE AcquireReadLocked(t)
  BY <1>3, LockFrame, Zenon DEF IInv, TypeOK, AcquireReadLocked, Goto
<1>4. CASE AcquireReadCpu(t)
  BY <1>4, LockFrame, Zenon DEF IInv, TypeOK, AcquireReadCpu, Goto
<1>5. CASE TestAndSet(t)
  <2>1. /\ \A d \in CPU : arg[t] \notin held[d]
        /\ held' = [held EXCEPT ![t[1]] = @ \cup {arg[t]}]
        /\ locked' = [locked EXCEPT ![arg[t]] = TRUE]
        /\ UNCHANGED <<lcpu, arg>>
        /\ pc[t] = "spin" /\ pc' = [pc EXCEPT ![t] = "setcpu"]
    BY <1>5, <1>0, Zenon DEF IInv, LockInv, TestAndSet, Goto
  <2>2. MutualExclusion'
    BY <1>0, <2>1 DEF IInv, TypeOK, LockInv, MutualExclusion
  <2>3. /\ \A d \in CPU : \A l \in held'[d] : locked'[l]
        /\ \A d \in CPU : \A l \in Lock : lcpu'[l] = d => l \in held'[d]
    BY <1>0, <2>1 DEF IInv, TypeOK, LockInv
  <2>4. ASSUME NEW d \in CPU, NEW l \in held'[d]
        PROVE  \/ lcpu'[l] = d
               \/ \E u \in Thread : /\ u[1] = d /\ arg'[u] = l
                                    /\ pc'[u] \in {"setcpu", "unlock"}
    BY <1>0, <2>1, <2>4 DEF IInv, TypeOK, LockInv
  <2> QED
    BY <2>2, <2>3, <2>4, Zenon DEF LockInv
<1>6. CASE SetCpu(t)
  BY <1>6, <1>0 DEF IInv, TypeOK, LockInv, MutualExclusion, ThreadOK, Owning, SetCpu, Goto
<1>7. ASSUME NEW l \in Lock, Release(t, l)
      PROVE  LockInv'
  BY <1>7, LockFrame, Zenon DEF IInv, TypeOK, Release, Goto
<1>8. CASE ReleaseReadLocked(t)
  BY <1>8, LockFrame, Zenon DEF IInv, TypeOK, ReleaseReadLocked, Goto
<1>9. CASE ReleaseReadCpu(t)
  BY <1>9, LockFrame, Zenon DEF IInv, TypeOK, ReleaseReadCpu, Goto
<1>10. CASE ClearCpu(t)
  BY <1>10, <1>0, SpinlockAssumption
     DEF IInv, TypeOK, LockInv, MutualExclusion, ThreadOK, Owning, ClearCpu, Goto
<1>11. CASE Unlock(t)
  BY <1>11, <1>0, SMTT(40)
     DEF IInv, TypeOK, LockInv, MutualExclusion, ThreadOK, Owning, Unlock, Goto
<1>12. CASE PopOff(t)
  BY <1>12, LockFrame, Zenon DEF IInv, TypeOK, PopOff, Goto
<1> QED
  BY <1>1, <1>2, <1>3, <1>4, <1>5, <1>6, <1>7,
     <1>8, <1>9, <1>10, <1>11, <1>12, Zenon DEF Step

\* intr_on() and intr_off() outside any lock keep the invariant.
LEMMA SetIntrIInv ==
  ASSUME IInv, NEW c \in CPU, NEW on \in BOOLEAN, SetIntr(c, on)
  PROVE  IInv'
<1>1. TypeOK'
  BY Zenon DEF IInv, TypeOK, SetIntr
<1>2. LockInv'
  BY LockFrame, Zenon DEF IInv, SetIntr
<1>3. ThreadInv'
  BY Zenon DEF IInv, ThreadInv, ThreadOK, Active, SetIntr
<1>4. CpuInv'
  <2> SUFFICES ASSUME NEW d \in CPU
               PROVE  CpuOK(d)'
    BY Zenon DEF CpuInv
  <2>0. CpuOK(d) /\ Extra(d)' = Extra(d)
    BY Zenon DEF IInv, CpuInv, SetIntr, Extra
  <2>1. CASE d # c
    BY <2>0, <2>1, Zenon DEF IInv, TypeOK, CpuOK, SetIntr
  <2>2. CASE d = c
    <3>1. pc[Main(c)] = "run" /\ pc[Handler(c)] = "none" /\ noff[c] = 0
      BY Threads, Zenon DEF SetIntr, Active
    <3>2. intr'[c] <=> wanted'[c]
      BY Zenon DEF IInv, TypeOK, SetIntr
    <3>3. UNCHANGED <<pc, held, noff, intena, old>>
      BY Zenon DEF SetIntr
    <3> QED
      BY <2>0, <2>2, <3>1, <3>2, <3>3 DEF CpuOK
  <2> QED
    BY <2>1, <2>2, Zenon
<1> QED
  BY <1>1, <1>2, <1>3, <1>4, Zenon DEF IInv

\* Taking an interrupt keeps the invariant: the interrupted code holds no
\* lock, and what it was about to do with its own saved state stays true.
LEMMA TrapIInv ==
  ASSUME IInv, NEW c \in CPU, Trap(c)
  PROVE  IInv'
<1> USE SpinlockAssumption, ThreadIs, Threads
<1>0. /\ CpuOK(c) /\ ThreadOK(Main(c))
      /\ noff[c] = 0 /\ intr[c] /\ pc[Handler(c)] = "none" /\ wanted[c]
  BY Zenon DEF IInv, TypeOK, CpuInv, CpuOK, ThreadInv, Trap
<1>a. Cardinality(held[c]) = 0 /\ Extra(c) = 0 /\ held[c] = {}
  <2>1. Cardinality(held[c]) \in Nat /\ Extra(c) \in {0, 1}
    BY <1>0, FS_CardinalityType, Zenon DEF CpuOK, Extra
  <2>2. Cardinality(held[c]) = 0 /\ Extra(c) = 0
    <3>1. noff[c] = Cardinality(held[c]) + Extra(c)
      BY <1>0, Zenon DEF CpuOK
    <3>2. ASSUME NEW m \in Nat, NEW n \in {0, 1}, m + n = 0 PROVE m = 0 /\ n = 0
      BY <3>2
    <3>3. Cardinality(held[c]) + Extra(c) = 0
      BY <1>0, <3>1, Zenon
    <3> QED
      BY <2>1, <3>2, <3>3, Zenon
  <2> QED
    BY <1>0, <2>2, FS_EmptySet, Zenon DEF CpuOK
<1>1. TypeOK'
  BY Zenon DEF IInv, TypeOK, Trap, ControlPoint
<1>2. LockInv'
  <2>1. \A t \in Thread : pc[t] \in {"setcpu", "unlock"} => pc'[t] = pc[t]
    BY <1>0 DEF IInv, TypeOK, Trap
  <2> QED
    BY <2>1, LockFrame, Zenon DEF IInv, Trap
<1>3. ThreadInv'
  <2> SUFFICES ASSUME NEW u \in Thread
               PROVE  ThreadOK(u)'
    BY Zenon DEF ThreadInv
  <2>0. ThreadOK(u)
    BY Zenon DEF IInv, ThreadInv
  <2>1. CASE u = Handler(c)
    <3>1. pc'[u] = "run"
      BY <2>1, Zenon DEF IInv, TypeOK, Trap
    <3> QED
      BY <2>1, <3>1, Zenon DEF ThreadOK, Owning
  <2>2. CASE u # Handler(c)
    <3>1. pc'[u] = pc[u] /\ (Active(u)' => Active(u))
      BY <2>2, <1>0 DEF IInv, TypeOK, Trap, Active
    <3> QED
      BY <2>0, <3>1, Zenon DEF ThreadOK, Trap
  <2> QED
    BY <2>1, <2>2, Zenon
<1>4. CpuInv'
  <2> SUFFICES ASSUME NEW d \in CPU
               PROVE  CpuOK(d)'
    BY Zenon DEF CpuInv
  <2>0. CpuOK(d)
    BY Zenon DEF IInv, CpuInv
  <2>1. CASE d # c
    <3>1. pc'[Main(d)] = pc[Main(d)] /\ pc'[Handler(d)] = pc[Handler(d)]
      BY <2>1 DEF IInv, TypeOK, Trap
    <3>2. /\ intr'[d] <=> intr[d]
          /\ UNCHANGED <<held, noff, wanted, intena, old>>
      BY <2>1 DEF IInv, TypeOK, Trap
    <3>3. Extra(d)' = Extra(d)
      BY <3>1, Zenon DEF Extra
    <3> QED
      BY <2>0, <3>1, <3>2, <3>3, Zenon DEF CpuOK
  <2>2. CASE d = c
    <3>1. /\ pc'[Handler(c)] = "run" /\ pc'[Main(c)] = pc[Main(c)]
          /\ ~intr'[c] /\ UNCHANGED <<held, noff, wanted, intena, old>>
      BY DEF IInv, TypeOK, Trap
    <3>2. pc[Main(c)] \in {"run", "push"}
      BY <1>0, <1>a DEF IInv, TypeOK, ControlPoint, ThreadOK, Owning, Extra, Counted
    <3>3. Extra(c)' = 0
      BY <3>1, <3>2, Zenon DEF Extra, Counted
    <3>4. pc[Main(c)] = "push" => old[Main(c)]
      BY <1>0, Zenon DEF CpuOK
    <3>5. /\ IsFiniteSet(held'[c]) /\ Cardinality(held'[c]) = 0
          /\ noff'[c] = 0 /\ wanted'[c]
          /\ pc'[Main(c)] = "push" => old'[Main(c)]
      BY <1>0, <1>a, <3>1, <3>4, Zenon DEF CpuOK
    <3> QED
      BY <2>2, <3>1, <3>2, <3>3, <3>5 DEF CpuOK
  <2> QED
    BY <2>1, <2>2, Zenon
<1> QED
  BY <1>1, <1>2, <1>3, <1>4, Zenon DEF IInv

\* Returning from the interrupt keeps the invariant: the handler has given
\* back its locks, so the interrupted code finds noff as it left it.
LEMMA SretIInv ==
  ASSUME IInv, NEW c \in CPU, Sret(c)
  PROVE  IInv'
<1>0. /\ CpuOK(c) /\ pc[Handler(c)] = "run" /\ held[c] = {} /\ wanted[c]
      /\ pc[Main(c)] \in {"run", "push"}
      /\ pc[Main(c)] = "push" => old[Main(c)]
  BY Zenon DEF IInv, CpuInv, CpuOK, Sret
<1>a. Extra(c) = 0 /\ noff[c] = 0 /\ Cardinality(held[c]) = 0
  <2>1. Extra(c) = 0
    BY <1>0, Zenon DEF Extra, Counted
  <2>2. Cardinality(held[c]) = 0
    BY <1>0, FS_EmptySet, Zenon
  <2> QED
    BY <1>0, <2>1, <2>2, SMTT(40) DEF CpuOK
<1> USE SpinlockAssumption, ThreadIs, Threads
<1>1. TypeOK'
  BY Zenon DEF IInv, TypeOK, Sret, ControlPoint
<1>2. LockInv'
  <2>1. \A t \in Thread : pc[t] \in {"setcpu", "unlock"} => pc'[t] = pc[t]
    BY <1>0 DEF IInv, TypeOK, Sret
  <2> QED
    BY <2>1, LockFrame, Zenon DEF IInv, Sret
<1>3. ThreadInv'
  <2> SUFFICES ASSUME NEW u \in Thread
               PROVE  ThreadOK(u)'
    BY Zenon DEF ThreadInv
  <2>0. ThreadOK(u)
    BY Zenon DEF IInv, ThreadInv
  <2>1. CASE u = Handler(c)
    <3>1. pc'[u] = "none" /\ u[2] = "intr"
      BY <2>1, Zenon DEF IInv, TypeOK, Sret
    <3> QED
      BY <2>1, <3>1, Zenon DEF ThreadOK, Owning
  <2>2. CASE u # Handler(c)
    <3>1. pc'[u] = pc[u] /\ (u[1] # c => (Active(u)' <=> Active(u)))
      BY <2>2, <1>0 DEF IInv, TypeOK, Sret, Active
    <3>2. u[1] = c => arg[u] \notin held[u[1]]
      BY <1>0, Zenon
    <3> QED
      BY <2>0, <3>1, <3>2, Zenon DEF ThreadOK, Sret
  <2> QED
    BY <2>1, <2>2, Zenon
<1>4. CpuInv'
  <2> SUFFICES ASSUME NEW d \in CPU
               PROVE  CpuOK(d)'
    BY Zenon DEF CpuInv
  <2>0. CpuOK(d)
    BY Zenon DEF IInv, CpuInv
  <2>1. CASE d # c
    <3>1. pc'[Main(d)] = pc[Main(d)] /\ pc'[Handler(d)] = pc[Handler(d)]
      BY <2>1 DEF IInv, TypeOK, Sret
    <3>2. /\ intr'[d] <=> intr[d]
          /\ UNCHANGED <<held, noff, wanted, intena, old>>
      BY <2>1 DEF IInv, TypeOK, Sret
    <3>3. Extra(d)' = Extra(d)
      BY <3>1, Zenon DEF Extra
    <3> QED
      BY <2>0, <3>1, <3>2, <3>3, Zenon DEF CpuOK
  <2>2. CASE d = c
    <3>1. /\ pc'[Handler(c)] = "none" /\ pc'[Main(c)] = pc[Main(c)]
          /\ intr'[c] /\ UNCHANGED <<held, noff, wanted, intena, old>>
      BY DEF IInv, TypeOK, Sret
    <3>2. Extra(c)' = 0
      BY <1>0, <3>1, Zenon DEF Extra, Counted
    <3>3. /\ IsFiniteSet(held'[c]) /\ Cardinality(held'[c]) = 0
          /\ noff'[c] = 0 /\ wanted'[c]
          /\ pc'[Main(c)] = "push" => old'[Main(c)]
      BY <1>0, <1>a, <3>1, Zenon DEF CpuOK
    <3> QED
      BY <2>2, <3>1, <3>2, <3>3 DEF CpuOK
  <2> QED
    BY <2>1, <2>2, Zenon
<1> QED
  BY <1>1, <1>2, <1>3, <1>4, Zenon DEF IInv

-----------------------------------------------------------------------------
\* Every step of acquire(), release(), an interrupt or its return keeps the
\* invariant.
LEMMA StepIInv ==
  ASSUME IInv, [Next]_vars
  PROVE  IInv'
<1>1. CASE UNCHANGED vars
  <2> USE <1>1 DEF vars
  <2>1. TypeOK'
    BY Zenon DEF IInv, TypeOK
  <2>2. LockInv'
    BY LockFrame, Zenon DEF IInv
  <2>3. ThreadInv'
    BY Zenon DEF IInv, ThreadInv, ThreadOK, Active
  <2>4. CpuInv'
    BY Zenon DEF IInv, CpuInv, CpuOK, Extra
  <2> QED
    BY <2>1, <2>2, <2>3, <2>4, Zenon DEF IInv
<1>2. ASSUME NEW t \in Thread, Step(t)
      PROVE  IInv'
  BY <1>2, StepFrame, TypeStep, NestStep, PointStep, LockStep, CpuStep,
     ThreadStep, Zenon DEF IInv
<1> QED
  BY <1>1, <1>2, SetIntrIInv, TrapIInv, SretIInv, Zenon DEF Next

\* The inductive invariant holds throughout.
LEMMA Inductive == Spec => []IInv
  BY InitIInv, StepIInv, PTL DEF Spec

\* The state of locks, harts and threads stays well formed.
THEOREM SpinlockTypeOK == Spec => []TypeOK
<1>1. IInv => TypeOK
  BY Zenon DEF IInv
<1> QED
  BY <1>1, Inductive, PTL

\* The amoswap loop of acquire() admits one CPU at a time to each lock.
THEOREM SpinlockMutualExclusion == Spec => []MutualExclusion
<1>1. IInv => MutualExclusion
  BY Zenon DEF IInv, LockInv
<1> QED
  BY <1>1, Inductive, PTL

\* The panics of acquire(), release() and pop_off() are unreachable, whatever
\* the interleaving of holding()'s two loads with other CPUs and interrupts.
THEOREM SpinlockNoPanic == Spec => []NoPanic
<1>1. IInv => NoPanic
  BY Zenon DEF IInv, ThreadInv, ThreadOK, NoPanic
<1> QED
  BY <1>1, Inductive, PTL

\* push_off() and pop_off() nest: interrupts are on only where no lock is
\* held, and the last pop_off() brings back the state that was asked for.
THEOREM SpinlockIntrDiscipline == Spec => []IntrDiscipline
<1>1. ASSUME IInv
      PROVE  IntrDiscipline
  <2> SUFFICES ASSUME NEW c \in CPU
               PROVE  /\ intr[c] => held[c] = {} /\ noff[c] = 0
                      /\ /\ pc[Main(c)] = "run" /\ pc[Handler(c)] = "none"
                         /\ noff[c] = 0
                         => (intr[c] <=> wanted[c])
    BY Zenon DEF IntrDiscipline
  <2>1. CpuOK(c)
    BY <1>1, Zenon DEF IInv, CpuInv
  <2>2. ASSUME intr[c]
        PROVE  held[c] = {} /\ noff[c] = 0
    <3>1. noff[c] = 0 /\ Cardinality(held[c]) \in Nat /\ Extra(c) \in {0, 1}
      BY <2>1, <2>2, FS_CardinalityType, Zenon DEF CpuOK, Extra
    <3>2. Cardinality(held[c]) = 0
      BY <2>1, <3>1 DEF CpuOK
    <3> QED
      BY <2>1, <3>1, <3>2, FS_EmptySet, Zenon DEF CpuOK
  <2> QED
    BY <2>1, <2>2, Zenon DEF CpuOK
<1> QED
  BY <1>1, Inductive, PTL

-----------------------------------------------------------------------------
(* The buffer cache and its sleep locks: reference counts are exact, bget() *)
(* always finds a buffer, no wakeup is lost, and the cache implements       *)
(* BlockStore.                                                              *)

PcSet == {"idle", "lock", "check", "io", "use", "unref"}
Locked == {"check", "io", "use"}

\* refcnt may be any number here; its range follows from RefInv.
TypeInv ==
  /\ lru \in [1 .. Cardinality(Buf) -> Buf]
  /\ \A i, j \in 1 .. Cardinality(Buf) : i # j => lru[i] # lru[j]
  /\ blockno \in [Buf -> Block \cup {NoBlock}]
  /\ refcnt \in [Buf -> Nat]
  /\ valid \in [Buf -> BOOLEAN]
  /\ data \in [Buf -> Value]
  /\ lockpid \in [Buf -> Process \cup {NoProc}]
  /\ asleep \subseteq Process
  /\ disk \in [Block -> Value]
  /\ bpc \in [Process -> PcSet]
  /\ buf \in [Process -> Buf \cup {NoBuf}]
  /\ dirty \subseteq Process
  /\ pinned \subseteq Block
  /\ panicked = FALSE

\* A process has a buffer, of some block, from bget() to the end of brelse().
HoldInv ==
  \A p \in Process :
    /\ buf[p] = NoBuf <=> bpc[p] = "idle"
    /\ buf[p] # NoBuf => blockno[buf[p]] \in Block

\* A block has one buffer.
UniqueInv ==
  \A b, c \in Buf : blockno[b] = blockno[c] /\ blockno[b] # NoBlock => b = c

\* b->lock names the process that is between acquiresleep() and releasesleep().
BufLockInv ==
  /\ \A p \in Process : bpc[p] \in Locked => lockpid[buf[p]] = p
  /\ \A b \in Buf : lockpid[b] # NoProc =>
       bpc[lockpid[b]] \in Locked /\ buf[lockpid[b]] = b

SleepInv == \A p \in asleep : bpc[p] = "lock" /\ lockpid[buf[p]] # NoProc

Pin(b) == IF blockno[b] \in pinned THEN 1 ELSE 0

RefInv == \A b \in Buf : refcnt[b] = Cardinality(Referers(b)) + Pin(b)

\* Pinned blocks are cached, and no more than the log has room for.
PinInv ==
  /\ IsFiniteSet(pinned) /\ Cardinality(pinned) <= MaxPinned
  /\ \A k \in pinned : \E b \in Buf : blockno[b] = k

\* What is read and differs from the disk is pinned, or is being changed.
DataInv ==
  /\ \A p \in dirty : bpc[p] = "use"
  /\ \A p \in Process : bpc[p] = "use" => valid[buf[p]]
  /\ \A p \in Process : bpc[p] = "io" =>
       ~valid[buf[p]] /\ data[buf[p]] = disk[blockno[buf[p]]]
  /\ \A b \in Buf : valid[b] =>
       /\ blockno[b] \in Block
       /\ \/ data[b] = disk[blockno[b]]
          \/ blockno[b] \in pinned
          \/ \E p \in dirty : buf[p] = b

BufIInv ==
  /\ TypeInv /\ HoldInv /\ UniqueInv /\ BufLockInv /\ SleepInv
  /\ RefInv /\ PinInv /\ DataInv

-----------------------------------------------------------------------------

\* A set of natural numbers up to n has a greatest element.
LEMMA Greatest ==
  ASSUME NEW n \in Nat, NEW T, T \subseteq 0 .. n, T # {}
  PROVE  \E k \in T : \A j \in T : k >= j
<1> DEFINE Gap == {d \in Nat : d <= n /\ n - d \in T}
<1>1. Gap \subseteq Nat /\ Gap # {}
  <2>1. PICK k \in T : TRUE
    BY Zenon
  <2>2. n - k \in Nat /\ n - k <= n /\ n - (n - k) = k
    OBVIOUS
  <2>3. n - k \in Gap
    BY <2>2, Zenon
  <2> QED
    BY <2>3, Zenon
<1>2. PICK d \in Gap : \A x \in Gap : ~(<<x, d>> \in OpToRel(<, Nat))
  BY <1>1, NatLessThanWellFounded, WFMin, Zenon
<1>3. \A x \in Gap : d <= x
  <2> SUFFICES ASSUME NEW x \in Gap, x < d
               PROVE  FALSE
    OBVIOUS
  <2>1. <<x, d>> \in OpToRel(<, Nat)
    BY Zenon DEF OpToRel
  <2> QED
    BY <1>2, <2>1, Zenon
<1>4. ASSUME NEW j \in T
      PROVE  n - d >= j
  <2>1. n - j \in Nat /\ n - j <= n /\ n - (n - j) = j
    OBVIOUS
  <2>2. n - j \in Gap
    BY <2>1, Zenon
  <2> QED
    BY <1>3, <2>1, <2>2
<1> QED
  BY <1>4, Zenon

\* The number of buffers.
LEMMA Bufs == Cardinality(Buf) \in Nat /\ Cardinality(Process) \in Nat
  BY BufCacheAssumption, FS_CardinalityType, Zenon

\* Those who refer to a buffer can be counted.
LEMMA ReferersFinite ==
  ASSUME NEW b
  PROVE  /\ IsFiniteSet(Referers(b)) /\ Cardinality(Referers(b)) \in Nat
         /\ Cardinality(Referers(b)) <= Cardinality(Process)
         /\ Cardinality(Referers(b)) = 0 <=> Referers(b) = {}
<1>1. Referers(b) \in SUBSET Process
  BY Zenon DEF Referers
<1>2. IsFiniteSet(Referers(b)) /\ Cardinality(Referers(b)) <= Cardinality(Process)
  BY <1>1, BufCacheAssumption, FS_Subset, Zenon
<1> QED
  BY <1>2, FS_CardinalityType, FS_EmptySet, Zenon

\* The list has every buffer.
LEMMA ListIsAll ==
  ASSUME TypeInv, NEW b \in Buf
  PROVE  \E i \in 1 .. Cardinality(Buf) : lru[i] = b
<1> DEFINE n == Cardinality(Buf)
<1>1. n \in Nat /\ IsFiniteSet(1 .. n) /\ Cardinality(1 .. n) = n
  <2>1. n \in Nat
    BY Bufs, Zenon
  <2>2. IsFiniteSet(1 .. n) /\ Cardinality(1 .. n) = IF 1 > n THEN 0 ELSE n - 1 + 1
    BY <2>1, FS_Interval, SMTT(40)
  <2> QED
    BY <2>1, <2>2
<1>2. lru \in Injection(1 .. n, Buf)
  BY Zenon DEF TypeInv, Injection, IsInjective
<1>3. lru \in Surjection(1 .. n, Buf)
  BY <1>1, <1>2, BufCacheAssumption, FS_Injection, Zenon
<1> QED
  BY <1>3, Zenon DEF Surjection

\* The buffers that the log keeps are no more than it has room for, and those of
\* the other processes no more than these, so one is left for a process that
\* calls bget().
LEMMA SomeUnused ==
  ASSUME BufIInv, NEW p \in Process, bpc[p] = "idle"
  PROVE  Unused # {}
<1> DEFINE A == {b \in Buf : blockno[b] \in pinned}
           P == Process \ {p}
           B == {b \in Buf : \E q \in P : buf[q] = b}
<1> SUFFICES ASSUME Unused = {} PROVE FALSE
  BY Zenon
<1>1. IsFiniteSet(A) /\ Cardinality(A) <= MaxPinned
  <2> DEFINE f == [b \in A |-> blockno[b]]
  <2>1. f \in [A -> pinned]
    BY Zenon
  <2>2. \A b, c \in A : f[b] = f[c] => b = c
    BY BufCacheAssumption, Zenon DEF BufIInv, UniqueInv, TypeInv
  <2>3. f \in Injection(A, pinned)
    BY <2>1, <2>2, Zenon DEF Injection, IsInjective
  <2> HIDE DEF f
  <2>4. IsFiniteSet(pinned) /\ Cardinality(pinned) <= MaxPinned
    BY Zenon DEF BufIInv, PinInv
  <2>5. IsFiniteSet(A) /\ Cardinality(A) <= Cardinality(pinned)
    BY <2>3, <2>4, FS_Injection, Zenon
  <2>6. Cardinality(A) \in Nat /\ Cardinality(pinned) \in Nat /\ MaxPinned \in Nat
    BY <2>4, <2>5, FS_CardinalityType, BufCacheAssumption, Zenon
  <2> QED
    BY <2>4, <2>5, <2>6
<1>2. IsFiniteSet(P) /\ Cardinality(P) = Cardinality(Process) - 1
  BY FS_RemoveElement, BufCacheAssumption, Zenon
<1>3. IsFiniteSet(B) /\ Cardinality(B) <= Cardinality(P)
  <2> DEFINE g == [b \in B |-> CHOOSE q \in P : buf[q] = b]
  <2>1. \A b \in B : g[b] \in P /\ buf[g[b]] = b
    BY Zenon
  <2>2. g \in [B -> P] /\ \A b, c \in B : g[b] = g[c] => b = c
    BY <2>1, Zenon
  <2>3. g \in Injection(B, P)
    BY <2>2, Zenon DEF Injection, IsInjective
  <2> HIDE DEF g
  <2> QED
    BY <1>2, <2>3, FS_Injection, Zenon
<1>4. Buf = A \cup B
  <2> SUFFICES ASSUME NEW b \in Buf, b \notin A PROVE b \in B
    BY Zenon
  <2>1. refcnt[b] # 0
    <3>1. PICK i \in 1 .. Cardinality(Buf) : lru[i] = b
      BY ListIsAll, Zenon DEF BufIInv
    <3> QED
      BY <3>1, Zenon DEF Unused, BufIInv, TypeInv
  <2>2. Referers(b) # {}
    <3>1. refcnt[b] = Cardinality(Referers(b)) + 0
      BY Zenon DEF BufIInv, RefInv, Pin
    <3> QED
      BY <2>1, <3>1, ReferersFinite
  <2>3. buf[p] # b
    BY BufCacheAssumption, Zenon DEF BufIInv, HoldInv
  <2> QED
    BY <2>2, <2>3, Zenon DEF Referers
<1> HIDE DEF A, B, P
<1>5. /\ Cardinality(Buf) = Cardinality(A) + Cardinality(B) - Cardinality(A \cap B)
      /\ IsFiniteSet(A \cap B)
  BY <1>1, <1>3, <1>4, FS_Union, FS_Intersection, Zenon
<1>6. /\ Cardinality(A) \in Nat /\ Cardinality(B) \in Nat /\ Cardinality(A \cap B) \in Nat
      /\ Cardinality(Process) \in Nat
  BY <1>1, <1>3, <1>5, FS_CardinalityType, Bufs, Zenon
<1> QED
  BY <1>1, <1>2, <1>3, <1>5, <1>6, BufCacheAssumption

\* What a miss of bget() does: a buffer that nobody uses is given to the block.
Missed(p, k, b) ==
  /\ bpc[p] = "idle" /\ k \notin pinned
  /\ \A c \in Buf : blockno[c] # k
  /\ refcnt[b] = 0 /\ blockno[b] \notin pinned /\ lockpid[b] = NoProc
  /\ \A q \in Process : buf[q] # b
  /\ blockno' = [blockno EXCEPT ![b] = k]
  /\ valid' = [valid EXCEPT ![b] = FALSE]
  /\ refcnt' = [refcnt EXCEPT ![b] = 1]
  /\ buf' = [buf EXCEPT ![p] = b]
  /\ bpc' = [bpc EXCEPT ![p] = "lock"]
  /\ UNCHANGED <<lru, data, locks, disk, dirty, pinned, panicked>>

\* There always is such a buffer, and bget() finds it.
LEMMA MissIs ==
  ASSUME BufIInv, NEW p \in Process, NEW k \in Block, BgetMiss(p, k)
  PROVE  \E b \in Buf : Missed(p, k, b)
<1> DEFINE i == Max(Unused)
           b == lru[i]
<1>1. bpc[p] = "idle" /\ \A c \in Buf : blockno[c] # k
  BY Zenon DEF BgetMiss, Missing
<1>2. Unused # {}
  BY <1>1, SomeUnused, Zenon
<1>3. i \in 1 .. Cardinality(Buf) /\ refcnt[b] = 0
  <2>1. Unused \subseteq 0 .. Cardinality(Buf)
    BY Bufs DEF Unused, BufIInv, TypeInv
  <2>2. \E m \in Unused : \A j \in Unused : m >= j
    BY <1>2, <2>1, Greatest, Bufs, Zenon
  <2>3. i \in Unused
    BY <2>2, Zenon DEF Max
  <2> QED
    BY <2>3, Zenon DEF Unused, BufIInv, TypeInv
<1>4. b \in Buf
  BY <1>3, Zenon DEF BufIInv, TypeInv
<1>5. Recycle(p, k, FALSE, 1)
  BY <1>2, Zenon DEF BgetMiss
<1>6. blockno[b] \notin pinned /\ Referers(b) = {}
  <2>1. refcnt[b] = Cardinality(Referers(b)) + Pin(b)
    BY <1>4, Zenon DEF BufIInv, RefInv
  <2> QED
    BY <1>3, <2>1, ReferersFinite DEF Pin
<1>7. \A q \in Process : buf[q] # b
  BY <1>6, Zenon DEF Referers
<1>8. lockpid[b] = NoProc
  BY <1>4, <1>7 DEF BufIInv, BufLockInv, TypeInv
<1>9. k \notin pinned
  BY <1>1, Zenon DEF BufIInv, PinInv
<1> HIDE DEF b
<1>10. Missed(p, k, b)
  BY <1>1, <1>3, <1>5, <1>6, <1>7, <1>8, <1>9, Zenon DEF Recycle, BufGoto, Missed, b
<1> QED
  BY <1>4, <1>10, Zenon

\* Moving a buffer to the front keeps the list a list of all buffers.
LEMMA ToFrontIs ==
  ASSUME TypeInv, NEW b \in Buf
  PROVE  /\ ToFront(b) \in [1 .. Cardinality(Buf) -> Buf]
         /\ \A i, j \in 1 .. Cardinality(Buf) : i # j => ToFront(b)[i] # ToFront(b)[j]
<1> DEFINE n == Cardinality(Buf)
           m == CHOOSE i \in DOMAIN lru : lru[i] = b
<1>1. n \in Nat /\ DOMAIN lru = 1 .. n
  BY Bufs, Zenon DEF TypeInv
<1>2. m \in 1 .. n /\ lru[m] = b
  BY <1>1, ListIsAll, Zenon
<1>3. ToFront(b) = [j \in 1 .. n |->
                      IF j = 1 THEN b ELSE IF j <= m THEN lru[j - 1] ELSE lru[j]]
  BY <1>1, Zenon DEF ToFront
<1> HIDE DEF m, n
<1>4. lru \in [1 .. n -> Buf] /\ \A i, j \in 1 .. n : i # j => lru[i] # lru[j]
  BY Zenon DEF TypeInv, n
<1>5. \A j \in 1 .. n : j # 1 => j - 1 \in 1 .. n
  BY <1>1
<1>6. ToFront(b) \in [1 .. n -> Buf]
  BY <1>3, <1>4, <1>5
<1>7. ASSUME NEW i \in 1 .. n, NEW j \in 1 .. n, i < j
      PROVE  ToFront(b)[i] # ToFront(b)[j]
  <2>1. j # 1 /\ j - 1 \in 1 .. n
    BY <1>1, <1>7
  <2>2. CASE i = 1
    <3>1. ToFront(b)[i] = lru[m] /\ ToFront(b)[j] = IF j <= m THEN lru[j - 1] ELSE lru[j]
      BY <1>2, <1>3, <2>1, <2>2, Zenon
    <3>2. j <= m => j - 1 # m
      BY <1>1, <1>2
    <3>3. ~(j <= m) => j # m
      BY <1>1, <1>2
    <3> QED
      BY <1>2, <1>4, <2>1, <3>1, <3>2, <3>3, Zenon
  <2>3. CASE i # 1
    <3>1. i - 1 \in 1 .. n /\ i - 1 # j - 1 /\ i - 1 # j
      BY <1>1, <1>7, <2>3
    <3>2. ~(i <= m) => ~(j <= m)
      BY <1>1, <1>2, <1>7
    <3>3. /\ ToFront(b)[i] = IF i <= m THEN lru[i - 1] ELSE lru[i]
          /\ ToFront(b)[j] = IF j <= m THEN lru[j - 1] ELSE lru[j]
      BY <1>3, <2>1, <2>3, Zenon
    <3> QED
      BY <1>4, <1>7, <2>1, <3>1, <3>2, <3>3, Zenon
  <2> QED
    BY <2>2, <2>3, Zenon
<1>8. \A i, j \in 1 .. n : i # j => ToFront(b)[i] # ToFront(b)[j]
  <2> SUFFICES ASSUME NEW i \in 1 .. n, NEW j \in 1 .. n, i # j
               PROVE  ToFront(b)[i] # ToFront(b)[j]
    BY Zenon
  <2>1. i < j \/ j < i
    BY <1>1
  <2> QED
    BY <1>7, <2>1, Zenon
<1> QED
  BY <1>6, <1>8, Zenon DEF n

\* BufInit establishes the inductive invariant.
LEMMA InitBufIInv ==
  ASSUME BufInit
  PROVE  BufIInv
<1>1. /\ lru \in [1 .. Cardinality(Buf) -> Buf]
      /\ \A i, j \in 1 .. Cardinality(Buf) : i # j => lru[i] # lru[j]
  <2>1. \E f : f \in Bijection(1 .. Cardinality(Buf), Buf)
    BY BufCacheAssumption, FS_CardinalityType, Zenon DEF ExistsBijection
  <2>2. lru \in Bijection(1 .. Cardinality(Buf), Buf)
    BY <2>1, Zenon DEF BufInit
  <2> QED
    BY <2>2, Zenon DEF Bijection, Injection, IsInjective
<1>2. TypeInv
  BY <1>1, BufCacheAssumption, Zenon DEF BufInit, TypeInv, PcSet
<1>3. HoldInv /\ UniqueInv /\ BufLockInv /\ SleepInv /\ DataInv
  BY BufCacheAssumption, Zenon DEF BufInit, HoldInv, UniqueInv, BufLockInv, SleepInv, DataInv, Locked
<1>4. RefInv
  <2>1. \A b \in Buf : Referers(b) = {}
    BY BufCacheAssumption, Zenon DEF BufInit, Referers
  <2>2. Cardinality({}) = 0 /\ 0 = 0 + 0
    BY FS_EmptySet
  <2>3. \A b \in Buf : refcnt[b] = 0 /\ blockno[b] \notin pinned
    BY Zenon DEF BufInit
  <2> QED
    BY <2>1, <2>2, <2>3, Zenon DEF RefInv, Pin
<1>5. PinInv
  BY FS_EmptySet, BufCacheAssumption DEF BufInit, PinInv
<1> QED
  BY <1>2, <1>3, <1>4, <1>5, Zenon DEF BufIInv

-----------------------------------------------------------------------------

\* The steps of process p, with a miss as MissIs has it.
BufMove(p) ==
  \/ \E k \in Block, b \in Buf : BgetHit(p, k, b) \/ Missed(p, k, b)
  \/ SleepOnLock(p) \/ TakeLock(p) \/ BreadCached(p) \/ DiskRead(p) \/ BreadDone(p)
  \/ \E v \in Value : Change(p, v)
  \/ Bwrite(p) \/ LogWrite(p) \/ Releasesleep(p) \/ Brelse(p)

\* BufNext has no other steps.
LEMMA NextIsStep ==
  ASSUME BufIInv, [BufNext]_bufvars
  PROVE  (\E p \in Process : BufMove(p)) \/ UNCHANGED bufvars
  BY MissIs, Zenon DEF BufNext, Bget, Bread, Use, BufMove

\* Who is not idle has a buffer, of some block.
LEMMA HasBuf ==
  ASSUME BufIInv, NEW p \in Process, bpc[p] # "idle"
  PROVE  buf[p] \in Buf /\ blockno[buf[p]] \in Block
  BY Zenon DEF BufIInv, TypeInv, HoldInv

\* A reference is dropped by somebody who has one, and bunpin() undoes a bpin().
LEMMA RefPositive ==
  ASSUME BufIInv, NEW b \in Buf
  PROVE  /\ \A p \in Process : buf[p] = b => refcnt[b] - 1 \in Nat
         /\ blockno[b] \in pinned => refcnt[b] - 1 \in Nat
<1>1. refcnt[b] = Cardinality(Referers(b)) + Pin(b)
  BY Zenon DEF BufIInv, RefInv
<1>2. ASSUME NEW p \in Process, buf[p] = b PROVE Cardinality(Referers(b)) >= 1
  <2>1. Referers(b) # {}
    BY <1>2, Zenon DEF Referers
  <2> QED
    BY <2>1, ReferersFinite
<1> QED
  BY <1>1, <1>2, ReferersFinite DEF Pin

\* Every step keeps the types.
LEMMA StepType ==
  ASSUME BufIInv, NEW p \in Process, BufMove(p)
  PROVE  TypeInv'
<1>0. TypeInv
  BY Zenon DEF BufIInv
<1> USE DEF TypeInv, PcSet, BufGoto, bufs, locks
<1>1. ASSUME NEW k \in Block, NEW b \in Buf, BgetHit(p, k, b) PROVE TypeInv'
  BY <1>0, <1>1 DEF BgetHit
<1>2. ASSUME NEW k \in Block, NEW b \in Buf, Missed(p, k, b) PROVE TypeInv'
  BY <1>0, <1>2, Zenon DEF Missed
<1>3. CASE SleepOnLock(p)
  BY <1>0, <1>3, Zenon DEF SleepOnLock
<1>4. CASE TakeLock(p)
  BY <1>0, <1>4, HasBuf, Zenon DEF TakeLock
<1>5. CASE BreadCached(p)
  BY <1>0, <1>5, Zenon DEF BreadCached
<1>6. CASE DiskRead(p)
  BY <1>0, <1>6, HasBuf, Zenon DEF DiskRead
<1>7. CASE BreadDone(p)
  BY <1>0, <1>7, Zenon DEF BreadDone
<1>8. ASSUME NEW v \in Value, Change(p, v) PROVE TypeInv'
  BY <1>0, <1>8, Zenon DEF Change
<1>9. CASE Bwrite(p)
  <2>1. buf[p] \in Buf /\ blockno[buf[p]] \in Block
    BY <1>9, HasBuf, Zenon DEF Bwrite
  <2>2. refcnt' \in [Buf -> Nat]
    BY <1>0, <1>9, <2>1, RefPositive, Zenon DEF Bwrite
  <2> QED
    BY <1>0, <1>9, <2>1, <2>2, Zenon DEF Bwrite
<1>10. CASE LogWrite(p)
  <2>1. buf[p] \in Buf /\ blockno[buf[p]] \in Block
    BY <1>10, HasBuf, Zenon DEF LogWrite
  <2> QED
    BY <1>0, <1>10, <2>1 DEF LogWrite
<1>11. CASE Releasesleep(p)
  BY <1>0, <1>11, Zenon DEF Releasesleep
<1>12. CASE Brelse(p)
  <2>1. buf[p] \in Buf
    BY <1>12, HasBuf, Zenon DEF Brelse
  <2>2. refcnt' \in [Buf -> Nat]
    BY <1>0, <1>12, <2>1, RefPositive, Zenon DEF Brelse
  <2>3. /\ lru' \in [1 .. Cardinality(Buf) -> Buf]
        /\ \A i, j \in 1 .. Cardinality(Buf) : i # j => lru'[i] # lru'[j]
    BY <1>0, <1>12, <2>1, ToFrontIs, Zenon DEF Brelse
  <2> QED
    BY <1>0, <1>12, <2>2, <2>3, Zenon DEF Brelse
<1> QED
  BY <1>1, <1>2, <1>3, <1>4, <1>5, <1>6, <1>7, <1>8, <1>9, <1>10, <1>11, <1>12, Zenon
     DEF BufMove

\* Every step keeps who has which buffer, and a block in one of them.
LEMMA StepHold ==
  ASSUME BufIInv, NEW p \in Process, BufMove(p)
  PROVE  HoldInv' /\ UniqueInv'
<1>0. TypeInv /\ HoldInv /\ UniqueInv
  BY Zenon DEF BufIInv
<1> USE BufCacheAssumption DEF TypeInv, HoldInv, UniqueInv, PcSet, BufGoto, bufs, locks
<1>1. ASSUME NEW k \in Block, NEW b \in Buf, BgetHit(p, k, b) PROVE HoldInv' /\ UniqueInv'
  BY <1>0, <1>1, Zenon DEF BgetHit
<1>2. ASSUME NEW k \in Block, NEW b \in Buf, Missed(p, k, b) PROVE HoldInv' /\ UniqueInv'
  <2>1. \A c \in Buf : blockno'[c] = IF c = b THEN k ELSE blockno[c]
    BY <1>0, <1>2, Zenon DEF Missed
  <2>2. UniqueInv'
    BY <1>0, <1>2, <2>1, Zenon DEF Missed
  <2>3. \A q \in Process : q # p => buf'[q] = buf[q] /\ bpc'[q] = bpc[q] /\ buf[q] # b
    BY <1>0, <1>2, Zenon DEF Missed
  <2>4. buf'[p] = b /\ bpc'[p] = "lock"
    BY <1>0, <1>2, Zenon DEF Missed
  <2> QED
    BY <1>0, <2>1, <2>2, <2>3, <2>4, SMTT(40)
<1>3. CASE SleepOnLock(p) \/ TakeLock(p) \/ BreadCached(p) \/ DiskRead(p) \/ BreadDone(p)
  <2>1. /\ UNCHANGED <<blockno, buf>>
        /\ bpc[p] # "idle" /\ \E l \in PcSet \ {"idle"} : bpc' = [bpc EXCEPT ![p] = l]
    BY <1>0, <1>3, SMTT(40) DEF SleepOnLock, TakeLock, BreadCached, DiskRead, BreadDone
  <2> QED
    BY <1>0, <2>1, Zenon
<1>4. CASE (\E v \in Value : Change(p, v)) \/ Bwrite(p) \/ LogWrite(p)
  <2>1. UNCHANGED <<blockno, buf, bpc>>
    BY <1>4, Zenon DEF Change, Bwrite, LogWrite
  <2> QED
    BY <1>0, <2>1, Zenon
<1>5. CASE Releasesleep(p)
  BY <1>0, <1>5, Zenon DEF Releasesleep
<1>6. CASE Brelse(p)
  BY <1>0, <1>6, Zenon DEF Brelse
<1> QED
  BY <1>1, <1>2, <1>3, <1>4, <1>5, <1>6, Zenon DEF BufMove

\* Every step keeps the locks in the right hands, and nobody asleep on a free one.
LEMMA StepLock ==
  ASSUME BufIInv, NEW p \in Process, BufMove(p)
  PROVE  BufLockInv' /\ SleepInv'
<1>0. TypeInv /\ HoldInv /\ BufLockInv /\ SleepInv
  BY Zenon DEF BufIInv
<1> USE BufCacheAssumption DEF TypeInv, HoldInv, BufLockInv, SleepInv, PcSet, Locked, BufGoto, bufs, locks
<1>1. ASSUME UNCHANGED <<lockpid, asleep>>,
             \A q \in Process \ {p} : buf'[q] = buf[q] /\ bpc'[q] = bpc[q],
             bpc[p] \in {"idle", "unref"}, bpc'[p] \in {"lock", "idle"}
      PROVE  BufLockInv' /\ SleepInv'
  <2>1. \A b \in Buf : lockpid[b] # p
    BY <1>0, <1>1, Zenon
  <2>2. p \notin asleep
    BY <1>0, <1>1, Zenon
  <2>3. BufLockInv'
    <3>1. \A q \in Process : bpc'[q] \in Locked => lockpid'[buf'[q]] = q
      BY <1>0, <1>1, Zenon
    <3>2. ASSUME NEW b \in Buf, lockpid'[b] # NoProc
          PROVE  bpc'[lockpid'[b]] \in Locked /\ buf'[lockpid'[b]] = b
      <4>1. lockpid'[b] = lockpid[b] /\ lockpid[b] \in Process \ {p}
        BY <1>0, <1>1, <2>1, <3>2
      <4> QED
        BY <1>0, <1>1, <4>1, SMTT(40)
    <3> QED
      BY <3>1, <3>2, Zenon
  <2>4. SleepInv'
    BY <1>0, <1>1, <2>2, Zenon
  <2> QED
    BY <2>3, <2>4, Zenon
<1>2. ASSUME NEW k \in Block, NEW b \in Buf, BgetHit(p, k, b) \/ Missed(p, k, b)
      PROVE  BufLockInv' /\ SleepInv'
  BY <1>0, <1>1, <1>2, SMTT(40) DEF BgetHit, Missed
<1>3. CASE SleepOnLock(p)
  BY <1>0, <1>3, Zenon DEF SleepOnLock
<1>4. CASE TakeLock(p)
  <2>1. /\ buf[p] \in Buf /\ buf' = buf /\ asleep' = asleep /\ p \notin asleep
        /\ lockpid[buf[p]] = NoProc /\ bpc[p] = "lock"
        /\ \A b \in Buf : lockpid'[b] = IF b = buf[p] THEN p ELSE lockpid[b]
        /\ \A q \in Process : bpc'[q] = IF q = p THEN "check" ELSE bpc[q]
    BY <1>0, <1>4, HasBuf, SMTT(40) DEF TakeLock
  <2>2. \A q \in Process : bpc[q] \in Locked => buf[q] \in Buf /\ buf[q] # buf[p]
    BY <1>0, <2>1, SMTT(40)
  <2>3. BufLockInv'
    <3>1. ASSUME NEW q \in Process, bpc'[q] \in Locked PROVE lockpid'[buf'[q]] = q
      <4>1. CASE q = p
        BY <2>1, <3>1, <4>1, Zenon
      <4>2. CASE q # p
        <5>1. bpc[q] \in Locked /\ buf[q] \in Buf /\ buf[q] # buf[p]
          BY <2>1, <2>2, <3>1, <4>2, Zenon
        <5> QED
          BY <1>0, <2>1, <5>1, SMTT(40)
      <4> QED
        BY <4>1, <4>2, Zenon
    <3>2. ASSUME NEW b \in Buf, lockpid'[b] # NoProc
          PROVE  bpc'[lockpid'[b]] \in Locked /\ buf'[lockpid'[b]] = b
      <4>1. CASE b = buf[p]
        BY <2>1, <3>2, <4>1, Zenon
      <4>2. CASE b # buf[p]
        <5>1. lockpid'[b] = lockpid[b] /\ lockpid[b] \in Process
          BY <1>0, <2>1, <3>2, <4>2
        <5>2. bpc[lockpid[b]] \in Locked /\ buf[lockpid[b]] = b
          BY <1>0, <3>2, <5>1, Zenon
        <5> QED
          BY <2>1, <4>2, <5>1, <5>2, Zenon
      <4> QED
        BY <4>1, <4>2, Zenon
    <3> QED
      BY <3>1, <3>2, Zenon
  <2>4. SleepInv'
    BY <1>0, <2>1, SMTT(40)
  <2> QED
    BY <2>3, <2>4, Zenon
<1>5. CASE BreadCached(p) \/ DiskRead(p) \/ BreadDone(p)
  <2>1. /\ UNCHANGED <<locks, buf>> /\ bpc[p] \in Locked
        /\ \E l \in Locked : bpc' = [bpc EXCEPT ![p] = l]
    BY <1>0, <1>5, Zenon DEF BreadCached, DiskRead, BreadDone
  <2> QED
    BY <1>0, <2>1, SMTT(40)
<1>6. CASE (\E v \in Value : Change(p, v)) \/ Bwrite(p) \/ LogWrite(p)
  <2>1. UNCHANGED <<lockpid, asleep, buf, bpc>>
    BY <1>6, Zenon DEF Change, Bwrite, LogWrite
  <2> QED
    BY <1>0, <2>1, Zenon
<1>7. CASE Releasesleep(p)
  <2>1. /\ buf[p] \in Buf /\ buf' = buf /\ lockpid[buf[p]] = p /\ bpc[p] = "use"
        /\ asleep' = {q \in asleep : buf[q] # buf[p]}
        /\ \A b \in Buf : lockpid'[b] = IF b = buf[p] THEN NoProc ELSE lockpid[b]
        /\ \A q \in Process : bpc'[q] = IF q = p THEN "unref" ELSE bpc[q]
    BY <1>0, <1>7, HasBuf DEF Releasesleep
  <2>2. \A q \in Process \ {p} : bpc[q] \in Locked => buf[q] \in Buf /\ buf[q] # buf[p]
    BY <1>0, <2>1
  <2>3. BufLockInv'
    <3>1. ASSUME NEW q \in Process, bpc'[q] \in Locked PROVE lockpid'[buf'[q]] = q
      <4>1. CASE q = p
        BY <2>1, <3>1, <4>1, Zenon
      <4>2. CASE q # p
        <5>1. bpc[q] \in Locked /\ buf[q] \in Buf /\ buf[q] # buf[p]
          BY <2>1, <2>2, <3>1, <4>2, Zenon
        <5> QED
          BY <1>0, <2>1, <5>1, Zenon
      <4> QED
        BY <4>1, <4>2, Zenon
    <3>2. ASSUME NEW b \in Buf, lockpid'[b] # NoProc
          PROVE  bpc'[lockpid'[b]] \in Locked /\ buf'[lockpid'[b]] = b
      <4>1. CASE b = buf[p]
        BY <2>1, <3>2, <4>1, Zenon
      <4>2. CASE b # buf[p]
        <5>1. lockpid'[b] = lockpid[b] /\ lockpid[b] \in Process
          BY <1>0, <2>1, <3>2, <4>2, SMTT(40)
        <5>2. bpc[lockpid[b]] \in Locked /\ buf[lockpid[b]] = b
          BY <1>0, <3>2, <5>1, Zenon
        <5> QED
          BY <2>1, <4>2, <5>1, <5>2, Zenon
      <4> QED
        BY <4>1, <4>2, Zenon
    <3> QED
      BY <3>1, <3>2, Zenon
  <2>4. SleepInv'
    <3>1. \A q \in asleep : buf[q] \in Buf /\ q # p
      BY <1>0, <2>1
    <3> QED
      BY <1>0, <2>1, <3>1, Zenon
  <2> QED
    BY <2>3, <2>4, Zenon
<1>8. CASE Brelse(p)
  BY <1>0, <1>1, <1>8 DEF Brelse
<1> QED
  BY <1>2, <1>3, <1>4, <1>5, <1>6, <1>7, <1>8, Zenon DEF BufMove

\* Every step keeps the reference counts exact.
LEMMA StepRef ==
  ASSUME BufIInv, NEW p \in Process, BufMove(p)
  PROVE  RefInv'
<1>0. TypeInv /\ HoldInv /\ UniqueInv /\ RefInv /\ TypeInv' /\ UniqueInv'
  BY StepType, StepHold, Zenon DEF BufIInv
<1> USE BufCacheAssumption DEF TypeInv, HoldInv, UniqueInv
<1>r. \A b \in Buf : refcnt[b] = Cardinality(Referers(b)) + Pin(b) /\ refcnt[b] \in Nat
  BY <1>0, Zenon DEF RefInv
<1>t. /\ blockno \in [Buf -> Block \cup {NoBlock}] /\ refcnt \in [Buf -> Nat]
      /\ buf[p] = NoBuf <=> bpc[p] = "idle"
  BY <1>0, Zenon
<1>1. ASSUME NEW b \in Buf, buf[p] # b, buf' = [buf EXCEPT ![p] = b]
      PROVE  /\ Cardinality(Referers(b)') = Cardinality(Referers(b)) + 1
             /\ buf[p] = NoBuf => \A c \in Buf \ {b} : Referers(c)' = Referers(c)
  <2>1. Referers(b)' = Referers(b) \cup {p} /\ p \notin Referers(b)
    BY <1>0, <1>1 DEF Referers
  <2>2. Cardinality(Referers(b)') = Cardinality(Referers(b)) + 1
    BY <2>1, ReferersFinite, FS_AddElement, Zenon
  <2>3. ASSUME buf[p] = NoBuf, NEW c \in Buf \ {b} PROVE Referers(c)' = Referers(c)
    BY <1>0, <1>1, <2>3, Zenon DEF Referers
  <2> QED
    BY <2>2, <2>3, Zenon
<1>2. ASSUME UNCHANGED buf PROVE \A c \in Buf : Referers(c)' = Referers(c)
  BY <1>2, Zenon DEF Referers
<1>3. ASSUME NEW k \in Block, NEW b \in Buf, BgetHit(p, k, b) PROVE RefInv'
  <2>1. /\ buf[p] = NoBuf /\ buf' = [buf EXCEPT ![p] = b]
        /\ UNCHANGED <<blockno, pinned>>
        /\ \A c \in Buf : refcnt'[c] = IF c = b THEN refcnt[c] + 1 ELSE refcnt[c]
    BY <1>0, <1>3, Zenon DEF BgetHit
  <2>2. \A c \in Buf : Pin(c)' = Pin(c)
    BY <2>1, Zenon DEF Pin
  <2>3. ASSUME NEW c \in Buf PROVE refcnt'[c] = Cardinality(Referers(c)') + Pin(c)'
    <3>1. CASE c = b
      <4>1. buf[p] # c /\ buf' = [buf EXCEPT ![p] = c]
        BY <2>1, <3>1, Zenon
      <4>2. Cardinality(Referers(c)') = Cardinality(Referers(c)) + 1
        BY <1>1, <4>1, Zenon
      <4>3. refcnt'[c] = refcnt[c] + 1 /\ refcnt[c] = Cardinality(Referers(c)) + Pin(c)
        BY <1>r, <2>1, <3>1, Zenon
      <4> QED
        BY <2>2, <4>2, <4>3, ReferersFinite, SMTT(40) DEF Pin
    <3>2. CASE c # b
      BY <1>1, <1>r, <2>1, <2>2, <3>2, Zenon
    <3> QED
      BY <3>1, <3>2, Zenon
  <2> QED
    BY <2>3, Zenon DEF RefInv
<1>4. ASSUME NEW k \in Block, NEW b \in Buf, Missed(p, k, b) PROVE RefInv'
  <2>1. /\ buf[p] = NoBuf /\ buf' = [buf EXCEPT ![p] = b]
        /\ \A c \in Buf : refcnt'[c] = IF c = b THEN 1 ELSE refcnt[c]
        /\ \A c \in Buf : blockno'[c] = IF c = b THEN k ELSE blockno[c]
        /\ pinned' = pinned /\ k \notin pinned
    BY <1>t, <1>4, Zenon DEF Missed
  <2>2. Pin(b)' = 0 /\ \A c \in Buf \ {b} : Pin(c)' = Pin(c)
    BY <2>1, Zenon DEF Pin
  <2>3. Referers(b) = {} /\ Cardinality(Referers(b)) = 0
    BY <1>4, ReferersFinite, Zenon DEF Missed, Referers
  <2>4. ASSUME NEW c \in Buf PROVE refcnt'[c] = Cardinality(Referers(c)') + Pin(c)'
    <3>1. CASE c = b
      <4>1. buf[p] # c /\ buf' = [buf EXCEPT ![p] = c]
        BY <2>1, <3>1, Zenon
      <4>2. Cardinality(Referers(c)') = Cardinality(Referers(c)) + 1
        BY <1>1, <4>1, Zenon
      <4>3. Cardinality(Referers(c)) = 0 /\ refcnt'[c] = 1
        BY <2>1, <2>3, <3>1, Zenon
      <4>4. Pin(c)' = 0
        BY <2>1, <3>1, Zenon DEF Pin
      <4> QED
        BY <4>2, <4>3, <4>4
    <3>2. CASE c # b
      BY <1>1, <1>r, <2>1, <2>2, <3>2, Zenon
    <3> QED
      BY <3>1, <3>2, Zenon
  <2> QED
    BY <2>4, Zenon DEF RefInv
<1>5. ASSUME UNCHANGED <<refcnt, buf, blockno, pinned>> PROVE RefInv'
  BY <1>0, <1>5 DEF RefInv, Referers, Pin
<1>6. CASE \/ SleepOnLock(p) \/ TakeLock(p) \/ BreadCached(p) \/ DiskRead(p) \/ BreadDone(p)
           \/ (\E v \in Value : Change(p, v)) \/ Releasesleep(p)
  BY <1>5, <1>6, Zenon DEF SleepOnLock, TakeLock, BreadCached, DiskRead, BreadDone, Change,
                    Releasesleep, bufs
<1>7. CASE Bwrite(p) \/ LogWrite(p)
  <2>0. PICK b \in Buf : b = buf[p]
    BY <1>7, HasBuf, Zenon DEF Bwrite, LogWrite
  <2>1. blockno[b] \in Block /\ UNCHANGED <<buf, blockno>>
    BY <1>7, <2>0, HasBuf, Zenon DEF Bwrite, LogWrite
  <2>2. \A c \in Buf \ {b} : refcnt'[c] = refcnt[c] /\ (blockno[c] \in pinned' <=> blockno[c] \in pinned)
    BY <1>0, <1>7, <2>0, <2>1, Zenon DEF Bwrite, LogWrite
  <2>3. refcnt'[b] = refcnt[b] - Pin(b) + (IF blockno[b] \in pinned' THEN 1 ELSE 0)
    BY <1>0, <1>7, <2>0, <2>1, <1>r, SMTT(40) DEF Bwrite, LogWrite, Pin
  <2>4. \A c \in Buf : Pin(c)' = IF blockno[c] \in pinned' THEN 1 ELSE 0
    BY <2>1, Zenon DEF Pin
  <2>5. ASSUME NEW c \in Buf PROVE refcnt'[c] = Cardinality(Referers(c)') + Pin(c)'
    <3>1. CASE c = b
      BY <1>2, <1>r, <2>1, <2>3, <2>4, <3>1, ReferersFinite, SMTT(40) DEF Pin
    <3>2. CASE c # b
      BY <1>2, <1>r, <2>1, <2>2, <2>4, <3>2, Zenon DEF Pin
    <3> QED
      BY <3>1, <3>2, Zenon
  <2> QED
    BY <2>5, Zenon DEF RefInv
<1>8. CASE Brelse(p)
  <2>0. PICK b \in Buf : b = buf[p]
    BY <1>8, HasBuf, Zenon DEF Brelse
  <2>1. /\ UNCHANGED <<blockno, pinned>> /\ buf' = [buf EXCEPT ![p] = NoBuf]
        /\ \A c \in Buf : refcnt'[c] = IF c = b THEN refcnt[c] - 1 ELSE refcnt[c]
    BY <1>0, <1>8, <2>0, Zenon DEF Brelse
  <2>3. \A c \in Buf \ {b} : Referers(c)' = Referers(c)
    BY <1>0, <2>0, <2>1, SMTT(40) DEF Referers
  <2>4. \A c \in Buf : c = b => Cardinality(Referers(c)') = Cardinality(Referers(c)) - 1
    <3> SUFFICES ASSUME NEW c \in Buf, c = b
                 PROVE  Cardinality(Referers(c)') = Cardinality(Referers(c)) - 1
      BY Zenon
    <3>1. Referers(c)' = Referers(c) \ {p} /\ p \in Referers(c)
      BY <1>0, <2>0, <2>1, Zenon DEF Referers
    <3>2. IsFiniteSet(Referers(c))
      BY ReferersFinite, Zenon
    <3> QED
      BY <3>1, <3>2, FS_RemoveElement, Zenon
  <2>5. \A c \in Buf : Pin(c)' = Pin(c)
    BY <2>1, Zenon DEF Pin
  <2>6. ASSUME NEW c \in Buf PROVE refcnt'[c] = Cardinality(Referers(c)') + Pin(c)'
    <3>1. CASE c = b
      <4>1. Cardinality(Referers(c)') = Cardinality(Referers(c)) - 1
        BY <2>4, <3>1, Zenon
      <4>2. refcnt'[c] = refcnt[c] - 1 /\ refcnt[c] = Cardinality(Referers(c)) + Pin(c)
        BY <1>r, <2>1, <3>1, Zenon
      <4> QED
        BY <2>5, <4>1, <4>2, ReferersFinite, SMTT(40) DEF Pin
    <3>2. CASE c # b
      BY <1>r, <2>1, <2>3, <2>5, <3>2, Zenon
    <3> QED
      BY <3>1, <3>2, Zenon
  <2> QED
    BY <2>6, Zenon DEF RefInv
<1> QED
  BY <1>3, <1>4, <1>6, <1>7, <1>8, Zenon DEF BufMove

\* Every step keeps what is pinned in the cache and within the log's size.
LEMMA StepPin ==
  ASSUME BufIInv, NEW p \in Process, BufMove(p)
  PROVE  PinInv'
<1>0. TypeInv /\ PinInv
  BY Zenon DEF BufIInv
<1>1. ASSUME pinned' = pinned,
             \A b \in Buf : blockno'[b] = blockno[b] \/ blockno[b] \notin pinned
      PROVE  PinInv'
  BY <1>0, <1>1, Zenon DEF PinInv
<1>2. ASSUME NEW k \in Block, NEW b \in Buf, Missed(p, k, b) PROVE PinInv'
  <2>1. \A c \in Buf : blockno'[c] = blockno[c] \/ blockno[c] \notin pinned
    BY <1>0, <1>2, Zenon DEF Missed, TypeInv
  <2> QED
    BY <1>1, <1>2, <2>1, Zenon DEF Missed
<1>3. CASE \/ \E k \in Block, b \in Buf : BgetHit(p, k, b)
           \/ SleepOnLock(p) \/ TakeLock(p) \/ BreadCached(p) \/ DiskRead(p) \/ BreadDone(p)
           \/ (\E v \in Value : Change(p, v)) \/ Releasesleep(p) \/ Brelse(p)
  <2>1. pinned' = pinned /\ blockno' = blockno
    BY <1>3, Zenon DEF BgetHit, SleepOnLock, TakeLock, BreadCached, DiskRead, BreadDone,
                Change, Releasesleep, Brelse, bufs
  <2> QED
    BY <1>1, <2>1, Zenon
<1>4. CASE Bwrite(p)
  <2> DEFINE k == blockno[buf[p]]
  <2>1. pinned' = pinned \ {k} /\ blockno' = blockno
    BY <1>4, Zenon DEF Bwrite
  <2> HIDE DEF k
  <2>2. IsFiniteSet(pinned') /\ Cardinality(pinned') <= Cardinality(pinned)
    BY <1>0, <2>1, FS_Subset, Zenon DEF PinInv
  <2>3. Cardinality(pinned) \in Nat /\ Cardinality(pinned') \in Nat /\ MaxPinned \in Nat
    BY <1>0, <2>2, FS_CardinalityType, BufCacheAssumption, Zenon DEF PinInv
  <2> QED
    BY <1>0, <2>1, <2>2, <2>3 DEF PinInv
<1>5. CASE LogWrite(p)
  <2> DEFINE k == blockno[buf[p]]
  <2>1. /\ pinned' = pinned \cup {k} /\ blockno' = blockno
        /\ k \in pinned \/ Cardinality(pinned) < MaxPinned
        /\ \E b \in Buf : blockno[b] = k
    BY <1>5, HasBuf, Zenon DEF LogWrite
  <2> HIDE DEF k
  <2>2. /\ IsFiniteSet(pinned')
        /\ Cardinality(pinned') = IF k \in pinned THEN Cardinality(pinned)
                                  ELSE Cardinality(pinned) + 1
    BY <1>0, <2>1, FS_AddElement, Zenon DEF PinInv
  <2>3. Cardinality(pinned) \in Nat /\ MaxPinned \in Nat
    BY <1>0, FS_CardinalityType, BufCacheAssumption, Zenon DEF PinInv
  <2>4. Cardinality(pinned') <= MaxPinned
    BY <1>0, <2>1, <2>2, <2>3 DEF PinInv
  <2> QED
    BY <1>0, <2>1, <2>2, <2>4, Zenon DEF PinInv
<1> QED
  BY <1>2, <1>3, <1>4, <1>5, Zenon DEF BufMove

\* Two processes that are past acquiresleep() have different buffers, and these
\* different blocks.
LEMMA LockedApart ==
  ASSUME BufIInv, NEW p \in Process, NEW q \in Process, p # q,
         bpc[p] \in Locked, bpc[q] \in Locked
  PROVE  buf[p] # buf[q] /\ blockno[buf[p]] # blockno[buf[q]]
<1>1. buf[p] \in Buf /\ buf[q] \in Buf /\ blockno[buf[p]] \in Block
  BY HasBuf, Zenon DEF Locked
<1>2. buf[p] # buf[q]
  BY <1>1, Zenon DEF BufIInv, BufLockInv
<1> QED
  BY <1>1, <1>2, BufCacheAssumption, Zenon DEF BufIInv, UniqueInv

\* Every step keeps what is neither pinned nor being changed equal to the disk.
LEMMA StepData ==
  ASSUME BufIInv, NEW p \in Process, BufMove(p)
  PROVE  DataInv'
<1>0. TypeInv /\ HoldInv /\ UniqueInv /\ DataInv
  BY Zenon DEF BufIInv
<1>t. /\ blockno \in [Buf -> Block \cup {NoBlock}] /\ valid \in [Buf -> BOOLEAN]
      /\ data \in [Buf -> Value] /\ disk \in [Block -> Value]
      /\ bpc \in [Process -> PcSet] /\ buf \in [Process -> Buf \cup {NoBuf}]
  BY <1>0, Zenon DEF TypeInv
<1>b. \A q \in Process : bpc[q] # "idle" => buf[q] \in Buf /\ blockno[buf[q]] \in Block
  BY HasBuf, Zenon
<1>l. \A q \in Process \ {p} : bpc[p] \in Locked /\ bpc[q] \in Locked =>
        buf[q] # buf[p] /\ blockno[buf[q]] # blockno[buf[p]]
  BY LockedApart, Zenon
<1>d. \A q \in dirty : q \in Process /\ bpc[q] = "use"
  BY <1>0, Zenon DEF TypeInv, DataInv
<1>u. \A q \in Process : bpc[q] = "use" => valid[buf[q]]
  BY <1>0, Zenon DEF DataInv
<1>i. \A q \in Process : bpc[q] = "io" =>
        ~valid[buf[q]] /\ data[buf[q]] = disk[blockno[buf[q]]]
  BY <1>0, Zenon DEF DataInv
<1>v. \A c \in Buf : valid[c] =>
        /\ blockno[c] \in Block
        /\ \/ data[c] = disk[blockno[c]]
           \/ blockno[c] \in pinned
           \/ \E q \in dirty : buf[q] = c
  BY <1>0, Zenon DEF DataInv
<1>1. ASSUME NEW k \in Block, NEW b \in Buf, BgetHit(p, k, b) PROVE DataInv'
  <2>1. /\ UNCHANGED <<blockno, valid, data, disk, dirty, pinned>>
        /\ bpc[p] = "idle" /\ bpc'[p] = "lock"
        /\ \A q \in Process \ {p} : bpc'[q] = bpc[q] /\ buf'[q] = buf[q]
    BY <1>t, <1>1, Zenon DEF BgetHit, BufGoto, bufs, locks
  <2>2. \A q \in dirty' : bpc'[q] = "use"
    BY <1>d, <2>1, Zenon
  <2>3. \A q \in Process : bpc'[q] = "use" => valid'[buf'[q]]
    BY <1>u, <2>1, Zenon
  <2>4. \A q \in Process : bpc'[q] = "io" =>
          ~valid'[buf'[q]] /\ data'[buf'[q]] = disk'[blockno'[buf'[q]]]
    BY <1>i, <2>1, Zenon
  <2>5. \A q \in dirty : buf'[q] = buf[q]
    BY <1>d, <2>1, Zenon
  <2>6. \A c \in Buf : valid'[c] =>
          /\ blockno'[c] \in Block
          /\ \/ data'[c] = disk'[blockno'[c]]
             \/ blockno'[c] \in pinned'
             \/ \E q \in dirty' : buf'[q] = c
    BY <1>v, <2>1, <2>5, SMTT(40)
  <2> QED
    BY <2>2, <2>3, <2>4, <2>6, Zenon DEF DataInv
<1>2. ASSUME NEW k \in Block, NEW b \in Buf, Missed(p, k, b) PROVE DataInv'
  <2>1. /\ \A c \in Buf : blockno'[c] = IF c = b THEN k ELSE blockno[c]
        /\ \A q \in Process : q # p => buf'[q] = buf[q] /\ bpc'[q] = bpc[q] /\ buf[q] # b
        /\ bpc[p] = "idle" /\ bpc'[p] = "lock"
        /\ UNCHANGED <<data, disk, dirty, pinned>>
    BY <1>t, <1>2, Zenon DEF Missed, BufGoto, bufs, locks
  <2>v. \A c \in Buf : valid'[c] <=> c # b /\ valid[c]
    BY <1>t, <1>2, Zenon DEF Missed, BufGoto, bufs, locks
  <2>2. \A q \in dirty' : bpc'[q] = "use"
    BY <1>d, <2>1, <2>v, Zenon
  <2>3. \A q \in Process : bpc'[q] = "use" => valid'[buf'[q]]
    BY <1>b, <1>u, <2>1, <2>v, Zenon
  <2>4. ASSUME NEW q \in Process, bpc'[q] = "io"
        PROVE  ~valid'[buf'[q]] /\ data'[buf'[q]] = disk'[blockno'[buf'[q]]]
    <3>1. CASE q = p
      BY <1>b, <1>i, <2>1, <2>v, <2>4, <3>1, Zenon
    <3>2. CASE q # p
      BY <1>b, <1>i, <2>1, <2>v, <2>4, <3>2, SMTT(40)
    <3> QED
      BY <3>1, <3>2, Zenon
  <2>5. ASSUME NEW c \in Buf, valid'[c]
        PROVE  /\ blockno'[c] \in Block
               /\ \/ data'[c] = disk'[blockno'[c]]
                  \/ blockno'[c] \in pinned'
                  \/ \E q \in dirty' : buf'[q] = c
    <3>1. c # b /\ valid[c] /\ blockno'[c] = blockno[c]
      BY <2>1, <2>v, <2>5, Zenon
    <3>2. ASSUME NEW q \in dirty, buf[q] = c PROVE q \in dirty' /\ buf'[q] = c
      BY <1>d, <2>1, <3>2, Zenon
    <3> QED
      BY <1>v, <2>1, <3>1, <3>2, Zenon
  <2> QED
    BY <2>2, <2>3, <2>4, <2>5, Zenon DEF DataInv
<1>3. CASE SleepOnLock(p) \/ TakeLock(p) \/ BreadCached(p)
  <2>1. /\ UNCHANGED <<blockno, valid, data, disk, buf, dirty, pinned>>
        /\ bpc[p] \notin {"io", "use"}
        /\ \A q \in Process \ {p} : bpc'[q] = bpc[q]
        /\ bpc'[p] # "io" /\ (bpc'[p] = "use" => valid[buf[p]])
    BY <1>t, <1>3, Zenon DEF SleepOnLock, TakeLock, BreadCached, BufGoto, bufs, locks
  <2>2. \A q \in dirty' : bpc'[q] = "use"
    BY <1>d, <2>1, Zenon
  <2>3. \A q \in Process : bpc'[q] = "use" => valid'[buf'[q]]
    BY <1>u, <2>1, Zenon
  <2>4. \A q \in Process : bpc'[q] = "io" =>
          ~valid'[buf'[q]] /\ data'[buf'[q]] = disk'[blockno'[buf'[q]]]
    BY <1>i, <2>1, Zenon
  <2>5. \A c \in Buf : valid'[c] =>
          /\ blockno'[c] \in Block
          /\ \/ data'[c] = disk'[blockno'[c]]
             \/ blockno'[c] \in pinned'
             \/ \E q \in dirty' : buf'[q] = c
    BY <1>v, <2>1, Zenon
  <2> QED
    BY <2>2, <2>3, <2>4, <2>5, Zenon DEF DataInv
<1>4. CASE DiskRead(p)
  <2>1. /\ UNCHANGED <<blockno, valid, disk, buf, dirty, pinned>>
        /\ bpc[p] = "check" /\ bpc'[p] = "io" /\ ~valid[buf[p]]
        /\ \A q \in Process \ {p} : bpc'[q] = bpc[q]
        /\ \A c \in Buf : data'[c] = IF c = buf[p] THEN disk[blockno[c]] ELSE data[c]
    BY <1>t, <1>b, <1>4, Zenon DEF DiskRead, BufGoto, bufs, locks
  <2>2. \A q \in dirty' : bpc'[q] = "use"
    BY <1>d, <2>1, Zenon
  <2>3. \A q \in Process : bpc'[q] = "use" => valid'[buf'[q]]
    BY <1>b, <1>u, <2>1, Zenon
  <2>4. ASSUME NEW q \in Process, bpc'[q] = "io"
        PROVE  ~valid'[buf'[q]] /\ data'[buf'[q]] = disk'[blockno'[buf'[q]]]
    <3>1. CASE q = p
      BY <1>b, <1>i, <2>1, <2>4, <3>1, Zenon
    <3>2. CASE q # p
      BY <1>b, <1>i, <1>l, <2>1, <2>4, <3>2, Zenon DEF Locked
    <3> QED
      BY <3>1, <3>2, Zenon
  <2>5. ASSUME NEW c \in Buf, valid'[c]
        PROVE  /\ blockno'[c] \in Block
               /\ \/ data'[c] = disk'[blockno'[c]]
                  \/ blockno'[c] \in pinned'
                  \/ \E q \in dirty' : buf'[q] = c
    BY <1>b, <1>d, <1>v, <1>l, <2>1, <2>5, Zenon DEF Locked
  <2> QED
    BY <2>2, <2>3, <2>4, <2>5, Zenon DEF DataInv
<1>5. CASE BreadDone(p)
  <2>1. /\ UNCHANGED <<blockno, data, disk, buf, dirty, pinned>>
        /\ bpc[p] = "io" /\ bpc'[p] = "use"
        /\ \A q \in Process \ {p} : bpc'[q] = bpc[q]
    BY <1>t, <1>b, <1>5, Zenon DEF BreadDone, BufGoto, bufs, locks
  <2>v. \A c \in Buf : valid'[c] <=> c = buf[p] \/ valid[c]
    BY <1>t, <1>b, <1>5, Zenon DEF BreadDone, BufGoto, bufs, locks
  <2>2. \A q \in dirty' : bpc'[q] = "use"
    BY <1>d, <2>1, <2>v, Zenon
  <2>3. \A q \in Process : bpc'[q] = "use" => valid'[buf'[q]]
    BY <1>b, <1>u, <2>1, <2>v, Zenon
  <2>4. ASSUME NEW q \in Process, bpc'[q] = "io"
        PROVE  ~valid'[buf'[q]] /\ data'[buf'[q]] = disk'[blockno'[buf'[q]]]
    <3>1. CASE q = p
      BY <1>b, <1>i, <2>1, <2>v, <2>4, <3>1, Zenon
    <3>2. CASE q # p
      BY <1>b, <1>i, <1>l, <2>1, <2>v, <2>4, <3>2, Zenon DEF Locked
    <3> QED
      BY <3>1, <3>2, Zenon
  <2>5. ASSUME NEW c \in Buf, valid'[c]
        PROVE  /\ blockno'[c] \in Block
               /\ \/ data'[c] = disk'[blockno'[c]]
                  \/ blockno'[c] \in pinned'
                  \/ \E q \in dirty' : buf'[q] = c
    <3>1. CASE c = buf[p]
      BY <1>b, <1>i, <2>1, <3>1, Zenon
    <3>2. CASE c # buf[p]
      BY <1>v, <2>1, <2>v, <2>5, <3>2, Zenon
    <3> QED
      BY <3>1, <3>2, Zenon
  <2> QED
    BY <2>2, <2>3, <2>4, <2>5, Zenon DEF DataInv
<1>6. ASSUME NEW v \in Value, Change(p, v) PROVE DataInv'
  <2>1. /\ UNCHANGED <<blockno, valid, disk, buf, bpc, pinned>>
        /\ bpc[p] = "use" /\ dirty' = dirty \cup {p}
        /\ \A c \in Buf : c # buf[p] => data'[c] = data[c]
    BY <1>t, <1>b, <1>6, Zenon DEF Change, BufGoto, bufs, locks
  <2>2. \A q \in dirty' : bpc'[q] = "use"
    BY <1>d, <2>1, Zenon
  <2>3. \A q \in Process : bpc'[q] = "use" => valid'[buf'[q]]
    BY <1>u, <2>1, Zenon
  <2>4. ASSUME NEW q \in Process, bpc'[q] = "io"
        PROVE  ~valid'[buf'[q]] /\ data'[buf'[q]] = disk'[blockno'[buf'[q]]]
    <3>1. bpc[q] = "io" /\ q \in Process \ {p}
      BY <2>1, <2>4, Zenon
    <3>2. buf[q] \in Buf /\ buf[q] # buf[p]
      BY <1>b, <1>l, <2>1, <3>1, Zenon DEF Locked
    <3> QED
      BY <1>i, <2>1, <3>1, <3>2, Zenon
  <2>5. ASSUME NEW c \in Buf, valid'[c]
        PROVE  /\ blockno'[c] \in Block
               /\ \/ data'[c] = disk'[blockno'[c]]
                  \/ blockno'[c] \in pinned'
                  \/ \E q \in dirty' : buf'[q] = c
    <3>1. CASE c = buf[p]
      BY <1>v, <2>1, <2>5, <3>1, Zenon
    <3>2. CASE c # buf[p]
      BY <1>v, <2>1, <2>5, <3>2, Zenon
    <3> QED
      BY <3>1, <3>2, Zenon
  <2> QED
    BY <2>2, <2>3, <2>4, <2>5, Zenon DEF DataInv
<1>7. CASE Bwrite(p)
  <2>1. /\ UNCHANGED <<blockno, valid, data, buf, bpc>>
        /\ bpc[p] = "use" /\ dirty' = dirty \ {p}
        /\ pinned' = pinned \ {blockno[buf[p]]}
        /\ \A k \in Block : disk'[k] = IF k = blockno[buf[p]] THEN data[buf[p]] ELSE disk[k]
    BY <1>t, <1>b, <1>7, Zenon DEF Bwrite, BufGoto, bufs, locks
  <2>2. \A c \in Buf : blockno[c] = blockno[buf[p]] => c = buf[p]
    BY <1>0, <1>b, <2>1, BufCacheAssumption, Zenon DEF UniqueInv
  <2>3. ASSUME NEW c \in Buf, valid[c]
        PROVE  /\ blockno[c] \in Block
               /\ data[c] = disk'[blockno[c]] \/ blockno[c] \in pinned' \/ \E q \in dirty' : buf[q] = c
    BY <1>b, <1>d, <1>v, <2>1, <2>2, <2>3, Zenon
  <2> QED
    BY <1>b, <1>d, <1>u, <1>i, <1>v, <1>l, <2>1, <2>3, SMTT(40) DEF DataInv, Locked
<1>8. CASE LogWrite(p)
  <2>1. /\ UNCHANGED <<blockno, valid, data, disk, buf, bpc>>
        /\ bpc[p] = "use" /\ dirty' = dirty \ {p}
        /\ pinned' = pinned \cup {blockno[buf[p]]}
    BY <1>t, <1>b, <1>8, Zenon DEF LogWrite, BufGoto, bufs, locks
  <2> QED
    BY <1>b, <1>d, <1>u, <1>i, <1>v, <2>1, Zenon DEF DataInv
<1>9. CASE Releasesleep(p)
  <2>1. /\ UNCHANGED <<blockno, valid, data, disk, buf, dirty, pinned>>
        /\ p \notin dirty /\ bpc'[p] = "unref"
        /\ \A q \in Process \ {p} : bpc'[q] = bpc[q]
    BY <1>t, <1>9, Zenon DEF Releasesleep, BufGoto, bufs, locks
  <2>2. \A q \in dirty' : bpc'[q] = "use"
    BY <1>d, <2>1, Zenon
  <2>3. \A q \in Process : bpc'[q] = "use" => valid'[buf'[q]]
    BY <1>u, <2>1, Zenon
  <2>4. \A q \in Process : bpc'[q] = "io" =>
          ~valid'[buf'[q]] /\ data'[buf'[q]] = disk'[blockno'[buf'[q]]]
    BY <1>i, <2>1, Zenon
  <2> QED
    BY <1>v, <2>1, <2>2, <2>3, <2>4, SMTT(40) DEF DataInv
<1>10. CASE Brelse(p)
  <2>1. /\ UNCHANGED <<blockno, valid, data, disk, dirty, pinned>>
        /\ bpc[p] = "unref" /\ bpc'[p] = "idle"
        /\ \A q \in Process \ {p} : bpc'[q] = bpc[q] /\ buf'[q] = buf[q]
    BY <1>t, <1>10, Zenon DEF Brelse, BufGoto, bufs, locks
  <2>2. \A q \in dirty' : bpc'[q] = "use"
    BY <1>d, <2>1, Zenon
  <2>3. \A q \in Process : bpc'[q] = "use" => valid'[buf'[q]]
    BY <1>b, <1>u, <2>1, Zenon
  <2>4. ASSUME NEW q \in Process, bpc'[q] = "io"
        PROVE  ~valid'[buf'[q]] /\ data'[buf'[q]] = disk'[blockno'[buf'[q]]]
    <3>1. CASE q = p
      BY <1>b, <1>i, <2>1, <2>4, <3>1, Zenon
    <3>2. CASE q # p
      BY <1>b, <1>i, <2>1, <2>4, <3>2, Zenon
    <3> QED
      BY <3>1, <3>2, Zenon
  <2>5. ASSUME NEW c \in Buf, valid'[c]
        PROVE  /\ blockno'[c] \in Block
               /\ \/ data'[c] = disk'[blockno'[c]]
                  \/ blockno'[c] \in pinned'
                  \/ \E q \in dirty' : buf'[q] = c
    BY <1>b, <1>d, <1>v, <2>1, <2>5, SMTT(40)
  <2> QED
    BY <2>2, <2>3, <2>4, <2>5, Zenon DEF DataInv
<1> QED
  BY <1>1, <1>2, <1>3, <1>4, <1>5, <1>6, <1>7, <1>8, <1>9, <1>10, Zenon DEF BufMove

\* Every step keeps the inductive invariant.
LEMMA NextIInv ==
  ASSUME BufIInv, [BufNext]_bufvars
  PROVE  BufIInv'
<1>1. ASSUME NEW p \in Process, BufMove(p) PROVE BufIInv'
  BY <1>1, StepType, StepHold, StepLock, StepRef, StepPin, StepData, Zenon DEF BufIInv
<1>2. CASE UNCHANGED bufvars
  <2>1. TypeInv' /\ HoldInv' /\ UniqueInv' /\ BufLockInv' /\ SleepInv'
    BY <1>2, Zenon DEF BufIInv, bufvars, bufs, locks, TypeInv, HoldInv, UniqueInv, BufLockInv, SleepInv
  <2>2. RefInv' /\ PinInv'
    BY <1>2, Zenon DEF BufIInv, bufvars, bufs, locks, RefInv, Referers, Pin, PinInv
  <2>3. DataInv'
    BY <1>2, Zenon DEF BufIInv, bufvars, bufs, locks, DataInv
  <2> QED
    BY <2>1, <2>2, <2>3, Zenon DEF BufIInv
<1> QED
  BY <1>1, <1>2, NextIsStep, Zenon

\* It holds in every reachable state.
LEMMA BufIInvAlways == BufSpec => []BufIInv
  BY InitBufIInv, NextIInv, PTL DEF BufSpec

\* refcnt counts the processes that have or wait for the buffer, and the log;
\* panic("bget: no buffers") is unreachable; whoever sleeps in acquiresleep()
\* faces a held lock: for any processes, buffers and blocks, with a buffer for
\* each process and each block of the log.
THEOREM BufCacheRefcntExact == BufSpec => []RefcntExact
<1>1. BufIInv => RefcntExact
  <2> SUFFICES ASSUME BufIInv PROVE RefcntExact
    BY Zenon
  <2>1. \A b \in Buf : refcnt[b] = Cardinality(Referers(b))
                                   + (IF blockno[b] \in pinned THEN 1 ELSE 0)
    BY Zenon DEF BufIInv, RefInv, Pin
  <2>2. refcnt \in [Buf -> 0 .. Cardinality(Process) + 1]
    <3>1. ASSUME NEW b \in Buf PROVE refcnt[b] \in 0 .. Cardinality(Process) + 1
      BY <2>1, ReferersFinite, Bufs
    <3> QED
      BY <3>1, Zenon DEF BufIInv, TypeInv
  <2>3. lru \in Bijection(1 .. Cardinality(Buf), Buf)
    <3>1. lru \in Injection(1 .. Cardinality(Buf), Buf)
      BY Zenon DEF BufIInv, TypeInv, Injection, IsInjective
    <3>2. lru \in Surjection(1 .. Cardinality(Buf), Buf)
      BY ListIsAll, Zenon DEF BufIInv, TypeInv, Surjection
    <3> QED
      BY <3>1, <3>2, Zenon DEF Bijection
  <2>4. BufTypeOK /\ ~panicked
    <3>1. panicked = FALSE /\ panicked \in BOOLEAN
      BY Zenon DEF BufIInv, TypeInv
    <3> QED
      BY <2>2, <2>3, <3>1, Zenon DEF BufIInv, TypeInv, BufTypeOK, PcSet
  <2>5. \A p \in asleep : lockpid[buf[p]] # NoProc
    BY Zenon DEF BufIInv, SleepInv
  <2> QED
    BY <2>1, <2>4, <2>5, Zenon DEF RefcntExact
<1> QED
  BY <1>1, BufIInvAlways, PTL

-----------------------------------------------------------------------------
(* The cache implements BlockStore *)

\* Block k appears to hold v, and process p has it.
Shows(k, v) ==
  \/ \E b \in Buf : blockno[b] = k /\ valid[b] /\ data[b] = v
  \/ (\A b \in Buf : blockno[b] = k => ~valid[b]) /\ disk[k] = v

Has(k, p) == bpc[p] = "use" /\ blockno[buf[p]] = k

\* Content and Owner, without their CHOOSE.
ContentIs == \A k \in Block : \A v \in Value : Shows(k, v) <=> Content[k] = v

OwnerIs ==
  \A k \in Block :
    /\ \A p \in Process : Has(k, p) <=> Owner[k] = p
    /\ Owner[k] \in Process \cup {NoProc}

\* A block is in one buffer, so Content is what the block shows.
LEMMA ContentOk == BufIInv => ContentIs /\ Content \in [Block -> Value]
<1> SUFFICES ASSUME BufIInv PROVE ContentIs /\ Content \in [Block -> Value]
  BY Zenon
<1>1. ASSUME NEW k \in Block
      PROVE  Content[k] \in Value /\ \A v \in Value : Shows(k, v) <=> Content[k] = v
  <2>1. CASE \E b \in Buf : blockno[b] = k /\ valid[b]
    <3> DEFINE c == CHOOSE b \in Buf : blockno[b] = k /\ valid[b]
    <3>1. c \in Buf /\ blockno[c] = k /\ valid[c]
      BY <2>1, Zenon
    <3>2. Content[k] = data[c]
      BY <2>1, Zenon DEF Content
    <3> HIDE DEF c
    <3>3. \A b \in Buf : blockno[b] = k => b = c
      BY <3>1, BufCacheAssumption, Zenon DEF BufIInv, UniqueInv
    <3> QED
      BY <3>1, <3>2, <3>3, Zenon DEF Shows, BufIInv, TypeInv
  <2>2. CASE ~ \E b \in Buf : blockno[b] = k /\ valid[b]
    BY <2>2, Zenon DEF Content, Shows, BufIInv, TypeInv
  <2> QED
    BY <2>1, <2>2, Zenon
<1> QED
  BY <1>1, Zenon DEF ContentIs, Content

\* Two processes do not use a block at a time, so Owner is the one that has it.
LEMMA OwnerOk == BufIInv => OwnerIs
<1> SUFFICES ASSUME BufIInv, NEW k \in Block
             PROVE  /\ \A p \in Process : Has(k, p) <=> Owner[k] = p
                    /\ Owner[k] \in Process \cup {NoProc}
  BY Zenon DEF OwnerIs
<1>1. CASE \E p \in Process : Has(k, p)
  <2> DEFINE o == CHOOSE p \in Process : bpc[p] = "use" /\ blockno[buf[p]] = k
  <2>1. o \in Process /\ Has(k, o) /\ Owner[k] = o
    BY <1>1, Zenon DEF Has, Owner
  <2> HIDE DEF o
  <2>2. \A p \in Process : Has(k, p) => p = o
    BY <2>1, LockedApart, Zenon DEF Has, Locked
  <2> QED
    BY <2>1, <2>2, Zenon
<1>2. CASE ~ \E p \in Process : Has(k, p)
  BY <1>2, BufCacheAssumption, Zenon DEF Has, Owner
<1> QED
  BY <1>1, <1>2, Zenon

\* The same after a step.
LEMMA OkNext == BufIInv' => ContentIs' /\ (Content \in [Block -> Value])' /\ OwnerIs'
  BY ContentOk, OwnerOk, PTL

\* A step that changes what no block shows leaves Content alone ...
LEMMA SameContent ==
  ASSUME BufIInv, BufIInv', \A k \in Block : \A v \in Value : Shows(k, v) => Shows(k, v)'
  PROVE  Content' = Content
<1>1. ContentIs /\ Content \in [Block -> Value] /\ ContentIs' /\ Content' \in [Block -> Value]
  BY ContentOk, OkNext, Zenon
<1>2. ASSUME NEW k \in Block PROVE Content'[k] = Content[k]
  <2>1. PICK v \in Value : v = Content[k]
    BY <1>1, Zenon
  <2>2. Shows(k, v)
    BY <1>1, <2>1, Zenon DEF ContentIs
  <2>3. Shows(k, v)'
    BY <2>2, Zenon
  <2>4. Content'[k] = v
    BY <1>1, <2>3, Zenon DEF ContentIs
  <2> QED
    BY <2>1, <2>4, Zenon
<1> QED
  BY <1>1, <1>2

\* ... and one after which the same process has block k leaves Owner[k] alone.
LEMMA OwnerFrame ==
  ASSUME BufIInv, BufIInv', NEW k \in Block,
         \A p \in Process : Has(k, p)' <=> Has(k, p)
  PROVE  Owner'[k] = Owner[k]
<1>1. OwnerIs /\ OwnerIs'
  BY OwnerOk, OkNext, Zenon
<1>2. \A p \in Process : Owner'[k] = p <=> Owner[k] = p
  BY <1>1, Zenon DEF OwnerIs
<1>3. Owner[k] \in Process \cup {NoProc} /\ Owner'[k] \in Process \cup {NoProc}
  BY <1>1, Zenon DEF OwnerIs
<1> QED
  BY <1>2, <1>3, Zenon

\* So does one that changes it for no block.
LEMMA SameOwner ==
  ASSUME BufIInv, BufIInv', \A k \in Block : \A p \in Process : Has(k, p)' <=> Has(k, p)
  PROVE  Owner' = Owner
<1>1. \A k \in Block : Owner'[k] = Owner[k]
  BY OwnerFrame, Zenon
<1> QED
  BY <1>1, Zenon DEF Owner

\* Every step is one of BlockStore, or none.
LEMMA StepStore ==
  ASSUME BufIInv, BufIInv', NEW p \in Process, BufMove(p)
  PROVE  Store!Next \/ UNCHANGED <<Content, Owner>>
<1>0. TypeInv /\ TypeInv' /\ OwnerIs /\ OwnerIs'
  BY OwnerOk, OkNext, Zenon DEF BufIInv
<1>w. OwnerIs
  BY <1>0, Zenon
<1>f. Owner \in [Block -> Process \cup {NoProc}] /\ Owner' \in [Block -> Process \cup {NoProc}]
  <2>1. /\ \A k \in Block : Owner[k] \in Process \cup {NoProc}
        /\ \A k \in Block : Owner'[k] \in Process \cup {NoProc}
    BY <1>0, Zenon DEF OwnerIs
  <2>2. Owner = [k \in Block |-> Owner[k]] /\ Owner' = [k \in Block |-> Owner'[k]]
    BY Zenon DEF Owner
  <2> QED
    BY <2>1, <2>2, Zenon
<1>t. /\ blockno \in [Buf -> Block \cup {NoBlock}] /\ valid \in [Buf -> BOOLEAN]
      /\ data \in [Buf -> Value] /\ disk \in [Block -> Value]
      /\ bpc \in [Process -> PcSet] /\ buf \in [Process -> Buf \cup {NoBuf}]
  BY <1>0, Zenon DEF TypeInv
<1>u. \A q \in Process : bpc[q] = "use" => valid[buf[q]]
  BY Zenon DEF BufIInv, DataInv
<1>v. \A c \in Buf : valid[c] =>
        data[c] = disk[blockno[c]] \/ blockno[c] \in pinned \/ \E q \in dirty : buf[q] = c
  BY Zenon DEF BufIInv, DataInv
<1>d. dirty \subseteq Process
  BY <1>0, Zenon DEF TypeInv
<1>b. \A q \in Process : bpc[q] # "idle" => buf[q] \in Buf /\ blockno[buf[q]] \in Block
  BY HasBuf, Zenon
<1>c. ASSUME UNCHANGED <<blockno, valid, data, disk>> PROVE Content' = Content
  BY <1>c, Zenon DEF Content
<1>o. ASSUME \A q \in Process : bpc'[q] = "use" <=> bpc[q] = "use",
             \A q \in Process : bpc[q] = "use" => blockno'[buf'[q]] = blockno[buf[q]]
      PROVE  Owner' = Owner
  <2>1. \A k \in Block : \A q \in Process : Has(k, q)' <=> Has(k, q)
    BY <1>o, Zenon DEF Has
  <2> QED
    BY <2>1, SameOwner, Zenon
<1> USE DEF BufGoto, bufs, locks
<1>1. ASSUME NEW k \in Block, NEW b \in Buf, BgetHit(p, k, b)
      PROVE  UNCHANGED <<Content, Owner>>
  <2>1. /\ UNCHANGED <<blockno, valid, data, disk>> /\ bpc[p] # "use" /\ bpc'[p] # "use"
        /\ \A q \in Process \ {p} : bpc'[q] = bpc[q] /\ buf'[q] = buf[q]
    BY <1>t, <1>1, Zenon DEF BgetHit
  <2> QED
    BY <1>c, <1>o, <2>1, Zenon
<1>2. ASSUME NEW k \in Block, NEW b \in Buf, Missed(p, k, b)
      PROVE  UNCHANGED <<Content, Owner>>
  <2>1. /\ \A c \in Buf : blockno'[c] = IF c = b THEN k ELSE blockno[c]
        /\ \A q \in Process \ {p} : bpc'[q] = bpc[q] /\ buf'[q] = buf[q] /\ buf[q] # b
        /\ bpc[p] # "use" /\ bpc'[p] # "use"
        /\ UNCHANGED <<data, disk>>
        /\ blockno[b] \notin pinned /\ \A q \in Process : buf[q] # b
        /\ \A c \in Buf : blockno[c] # k
    BY <1>t, <1>2, Zenon DEF Missed
  <2>2. \A c \in Buf : valid'[c] <=> c # b /\ valid[c]
    BY <1>t, <1>2, Zenon DEF Missed
  <2>3. Owner' = Owner
    BY <1>o, <1>b, <2>1, Zenon
  <2>4. valid[b] => data[b] = disk[blockno[b]]
    BY <1>v, <1>d, <2>1, Zenon
  <2>5. ASSUME NEW j \in Block, NEW v \in Value, Shows(j, v) PROVE Shows(j, v)'
    <3>1. CASE \E c \in Buf \ {b} : blockno[c] = j /\ valid[c] /\ data[c] = v
      BY <2>1, <2>2, <3>1, Zenon DEF Shows
    <3>2. CASE blockno[b] = j /\ valid[b] /\ data[b] = v
      <4>1. disk[j] = v
        BY <2>4, <3>2, Zenon
      <4>2. \A c \in Buf \ {b} : blockno[c] # j
        BY <3>2, BufCacheAssumption, Zenon DEF BufIInv, UniqueInv
      <4> QED
        BY <2>1, <2>2, <4>1, <4>2, Zenon DEF Shows
    <3>3. CASE (\A c \in Buf : blockno[c] = j => ~valid[c]) /\ disk[j] = v
      BY <2>1, <2>2, <3>3, Zenon DEF Shows
    <3> QED
      BY <2>5, <3>1, <3>2, <3>3, Zenon DEF Shows
  <2>6. Content' = Content
    BY <2>5, SameContent, Zenon
  <2> QED
    BY <2>3, <2>6, Zenon
<1>3. CASE SleepOnLock(p) \/ TakeLock(p) \/ LogWrite(p)
  <2>1. /\ UNCHANGED <<blockno, valid, data, disk, buf>>
        /\ \A q \in Process : bpc'[q] = "use" <=> bpc[q] = "use"
    BY <1>t, <1>3, Zenon DEF SleepOnLock, TakeLock, LogWrite
  <2> QED
    BY <1>c, <1>o, <2>1, Zenon
<1>4. ASSUME BreadCached(p) \/ BreadDone(p), Content' = Content PROVE Store!Next
  <2>1. PICK k \in Block : k = blockno[buf[p]]
    BY <1>b, <1>4, Zenon DEF BreadCached, BreadDone
  <2>2. /\ UNCHANGED <<blockno, buf>> /\ bpc[p] \in {"check", "io"} /\ bpc'[p] = "use"
        /\ \A q \in Process \ {p} : bpc'[q] = bpc[q]
    BY <1>t, <1>4, Zenon DEF BreadCached, BreadDone
  <2>3. \A q \in Process : ~Has(k, q)
    BY <2>1, <2>2, LockedApart, Zenon DEF Has, Locked
  <2>4. Owner[k] = NoProc
    BY <1>0, <2>3, Zenon DEF OwnerIs
  <2>5. Owner'[k] = p
    <3>1. Has(k, p)'
      BY <2>1, <2>2, Zenon DEF Has
    <3> QED
      BY <1>0, <3>1, Zenon DEF OwnerIs
  <2>6. ASSUME NEW j \in Block \ {k} PROVE Owner'[j] = Owner[j]
    <3>1. \A q \in Process : Has(j, q)' <=> Has(j, q)
      BY <2>1, <2>2, Zenon DEF Has
    <3> QED
      BY <3>1, OwnerFrame, Zenon
  <2>7. Owner' = [Owner EXCEPT ![k] = p]
    BY <1>f, <2>5, <2>6, Zenon
  <2>8. Store!Obtain(p, k)
    BY <1>4, <2>4, <2>7, Zenon DEF Store!Obtain
  <2> QED
    BY <2>8, Zenon DEF Store!Next
<1>5. CASE BreadCached(p)
  BY <1>4, <1>5, <1>c, Zenon DEF BreadCached
<1>6. CASE BreadDone(p)
  <2>1. /\ UNCHANGED <<blockno, data, disk>> /\ buf[p] \in Buf
        /\ ~valid[buf[p]] /\ data[buf[p]] = disk[blockno[buf[p]]]
    BY <1>t, <1>b, <1>6, Zenon DEF BreadDone, BufIInv, DataInv
  <2>2. \A c \in Buf : valid'[c] <=> c = buf[p] \/ valid[c]
    BY <1>t, <1>b, <1>6, Zenon DEF BreadDone
  <2>3. ASSUME NEW j \in Block, NEW v \in Value, Shows(j, v) PROVE Shows(j, v)'
    <3>1. CASE \E c \in Buf : blockno[c] = j /\ valid[c] /\ data[c] = v
      BY <2>1, <2>2, <3>1, Zenon DEF Shows
    <3>2. CASE (\A c \in Buf : blockno[c] = j => ~valid[c]) /\ disk[j] = v
      <4>1. CASE blockno[buf[p]] = j
        BY <2>1, <2>2, <3>2, <4>1, Zenon DEF Shows
      <4>2. CASE blockno[buf[p]] # j
        BY <2>1, <2>2, <3>2, <4>2, Zenon DEF Shows
      <4> QED
        BY <4>1, <4>2, Zenon
    <3> QED
      BY <2>3, <3>1, <3>2, Zenon DEF Shows
  <2> QED
    BY <1>4, <1>6, <2>3, SameContent, Zenon
<1>7. CASE DiskRead(p)
  <2>1. /\ UNCHANGED <<blockno, valid, disk, buf>> /\ ~valid[buf[p]]
        /\ \A c \in Buf : c # buf[p] => data'[c] = data[c]
        /\ \A q \in Process : bpc'[q] = "use" <=> bpc[q] = "use"
    BY <1>t, <1>b, <1>7, Zenon DEF DiskRead
  <2>2. \A j \in Block : \A v \in Value : Shows(j, v) => Shows(j, v)'
    BY <2>1, Zenon DEF Shows
  <2>3. Content' = Content
    BY <2>2, SameContent, Zenon
  <2> QED
    BY <1>o, <2>1, <2>3, Zenon
<1>8. ASSUME NEW v \in Value, Change(p, v) PROVE Store!Next
  <2>1. PICK k \in Block : k = blockno[buf[p]]
    BY <1>b, <1>8, Zenon DEF Change
  <2>2. /\ UNCHANGED <<blockno, valid, disk, buf, bpc>> /\ bpc[p] = "use"
        /\ buf[p] \in Buf /\ valid[buf[p]]
        /\ \A c \in Buf : data'[c] = IF c = buf[p] THEN v ELSE data[c]
    BY <1>t, <1>b, <1>u, <1>8, Zenon DEF Change
  <2>3. Owner[k] = p
    <3>1. Has(k, p)
      BY <2>1, <2>2, Zenon DEF Has
    <3> QED
      BY <1>w, <3>1, Zenon DEF OwnerIs
  <2>4. Owner' = Owner
    BY <1>o, <2>2, Zenon
  <2>5. ContentIs /\ ContentIs' /\ Content \in [Block -> Value] /\ Content' \in [Block -> Value]
    BY ContentOk, OkNext, Zenon
  <2>6. Content'[k] = v
    <3>1. Shows(k, v)'
      BY <2>1, <2>2, Zenon DEF Shows
    <3> QED
      BY <2>5, <3>1, Zenon DEF ContentIs
  <2>7. ASSUME NEW j \in Block \ {k} PROVE Content'[j] = Content[j]
    <3>1. PICK w \in Value : w = Content[j]
      BY <2>5, Zenon
    <3>2. Shows(j, w)
      BY <2>5, <3>1, Zenon DEF ContentIs
    <3>3. Shows(j, w)'
      BY <2>1, <2>2, <3>2, Zenon DEF Shows
    <3> QED
      BY <2>5, <3>1, <3>3, Zenon DEF ContentIs
  <2>8. Content' = [Content EXCEPT ![k] = v]
    BY <2>5, <2>6, <2>7, Zenon
  <2>9. Store!Change(p, k)
    BY <2>3, <2>4, <2>8, Zenon DEF Store!Change
  <2> QED
    BY <2>9, Zenon DEF Store!Next
<1>9. CASE Bwrite(p)
  <2>1. /\ UNCHANGED <<blockno, valid, data, buf, bpc>>
        /\ buf[p] \in Buf /\ valid[buf[p]]
        /\ \A k \in Block : k # blockno[buf[p]] => disk'[k] = disk[k]
    BY <1>t, <1>b, <1>u, <1>9, Zenon DEF Bwrite
  <2>2. \A j \in Block : \A v \in Value : Shows(j, v) => Shows(j, v)'
    BY <2>1, Zenon DEF Shows
  <2>3. Content' = Content
    BY <2>2, SameContent, Zenon
  <2> QED
    BY <1>o, <2>1, <2>3, Zenon
<1>10. CASE Releasesleep(p)
  <2>1. PICK k \in Block : k = blockno[buf[p]]
    BY <1>b, <1>10, Zenon DEF Releasesleep
  <2>2. /\ UNCHANGED <<blockno, valid, data, disk, buf>> /\ bpc[p] = "use"
        /\ bpc'[p] = "unref" /\ \A q \in Process \ {p} : bpc'[q] = bpc[q]
    BY <1>t, <1>10, Zenon DEF Releasesleep
  <2>3. Owner[k] = p
    <3>1. Has(k, p)
      BY <2>1, <2>2, Zenon DEF Has
    <3> QED
      BY <1>w, <3>1, Zenon DEF OwnerIs
  <2>4. Owner'[k] = NoProc
    <3>1. \A q \in Process : Has(k, q) => q = p
      BY <1>0, <2>3, Zenon DEF OwnerIs
    <3>2. \A q \in Process : ~Has(k, q)'
      BY <2>2, <3>1, Zenon DEF Has
    <3> QED
      BY <1>0, <3>2, Zenon DEF OwnerIs
  <2>5. ASSUME NEW j \in Block \ {k} PROVE Owner'[j] = Owner[j]
    <3>1. \A q \in Process : Has(j, q)' <=> Has(j, q)
      BY <2>1, <2>2, Zenon DEF Has
    <3> QED
      BY <3>1, OwnerFrame, Zenon
  <2>6. Owner' = [Owner EXCEPT ![k] = NoProc]
    BY <1>f, <2>4, <2>5, Zenon
  <2>7. Store!GiveUp(p, k)
    BY <1>c, <2>2, <2>3, <2>6, Zenon DEF Store!GiveUp
  <2> QED
    BY <2>7, Zenon DEF Store!Next
<1>11. CASE Brelse(p)
  <2>1. /\ UNCHANGED <<blockno, valid, data, disk>> /\ bpc[p] # "use" /\ bpc'[p] # "use"
        /\ \A q \in Process \ {p} : bpc'[q] = bpc[q] /\ buf'[q] = buf[q]
    BY <1>t, <1>11, Zenon DEF Brelse
  <2> QED
    BY <1>c, <1>o, <2>1, Zenon
<1> QED
  BY <1>1, <1>2, <1>3, <1>5, <1>6, <1>7, <1>8, <1>9, <1>10, <1>11, Zenon DEF BufMove

\* The cache is invisible: whatever is recycled, read in, pinned or written back,
\* bread() returns what was last put into the block, and one process at a time
\* has it.
THEOREM BufCacheIsBlockStore == BufSpec => IsBlockStore
<1>1. BufInit => Store!Init
  <2> SUFFICES ASSUME BufInit PROVE Store!Init
    BY Zenon
  <2>1. Content = [k \in Block |-> InitialValue]
    BY Zenon DEF BufInit, Content
  <2>2. Owner = [k \in Block |-> NoProc]
    BY Zenon DEF BufInit, Owner
  <2> QED
    BY <2>1, <2>2, Zenon DEF Store!Init
<1>2. BufIInv /\ BufIInv' /\ [BufNext]_bufvars => [Store!Next]_<<Content, Owner>>
  <2> SUFFICES ASSUME BufIInv, BufIInv', [BufNext]_bufvars
               PROVE  Store!Next \/ UNCHANGED <<Content, Owner>>
    BY Zenon
  <2>1. CASE UNCHANGED bufvars
    BY <2>1, Zenon DEF bufvars, bufs, Content, Owner
  <2> QED
    BY <2>1, NextIsStep, StepStore, Zenon
<1> QED
  BY <1>1, <1>2, BufIInvAlways, PTL DEF BufSpec, IsBlockStore, Store!Spec
=============================================================================
