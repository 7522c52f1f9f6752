----------------------------- MODULE SchedProof -----------------------------
(***************************************************************************)
(* Proofs about Sched.  custom_random() computes the Lehmer generator of   *)
(* its comment, for every seed and every multiplier and modulus with       *)
(* R < Q.  For any number of CPUs, slots and priorities, the candidate of  *)
(* a scan stays what it was when it was chosen, and is the best when the   *)
(* scan ends.                                                              *)
(***************************************************************************)
EXTENDS Sched, RingProof, TLAPS

-----------------------------------------------------------------------------
(* custom_random() *)

\* custom_random() returns (A * x) mod (A * Q + R), less one, of its seed's
\* x, though it never computes A * x.
THEOREM CustomRandomIsLehmer ==
  ASSUME NEW ctx \in Nat
  PROVE  custom_random(ctx) = Reference(ctx)
<1> DEFINE x0 == (ctx % (Modulus - 1)) + 1
           hi == x0 \div Q
           lo == x0 % Q
           x == A * lo - R * hi
           y == IF x < 0 THEN x + Modulus ELSE x
<1>1. Modulus \in Nat \ {0} /\ Modulus - 1 \in Nat \ {0}
  BY LehmerAssumption, SMT DEF Modulus
<1>2. x0 \in 1 .. Modulus - 1
  BY <1>1, DivMod, SMT
<1> HIDE DEF x0
<1>3. hi \in Int /\ lo \in 0 .. Q - 1 /\ x0 = Q * hi + lo
  BY <1>2, DivMod, LehmerAssumption, SMT
<1> HIDE DEF hi, lo
<1>4. A * x0 = Modulus * hi + x
  <2>1. A * (Q * hi + lo) = A * (Q * hi) + A * lo
    BY <1>3, LehmerAssumption, SMT
  <2>2. Modulus * hi = A * (Q * hi) + R * hi
    BY <1>3, LehmerAssumption, SMT DEF Modulus
  <2> QED BY <1>3, <2>1, <2>2, LehmerAssumption, SMT
<1>5. 0 <= hi /\ Q * hi < Modulus
  BY <1>1, <1>2, <1>3, LehmerAssumption, SMT
<1>6. R * hi <= Q * hi /\ 0 <= R * hi
  BY <1>3, <1>5, LehmerAssumption, SMT
<1>7. 0 <= A * lo /\ A * lo < Modulus
  <2>1. A * lo <= A * (Q - 1)
    BY <1>3, LehmerAssumption, SMT
  <2>2. A * (Q - 1) < Modulus
    BY LehmerAssumption, SMT DEF Modulus
  <2> QED BY <2>1, <2>2, <1>1, <1>3, LehmerAssumption, SMT
<1>8. x \in Int /\ -Modulus < x /\ x < Modulus
  BY <1>1, <1>3, <1>5, <1>6, <1>7, LehmerAssumption, SMT
<1> HIDE DEF x
<1>9. y \in 0 .. Modulus - 1
  BY <1>1, <1>8, SMT
<1>10. \E k \in Int : A * x0 = Modulus * k + y
  <2>1. CASE x < 0
    <3>1. Modulus * hi + x = Modulus * (hi - 1) + y
      BY <2>1, <1>1, <1>3, <1>8, SMT
    <3> QED BY <3>1, <1>3, <1>4, SMT
  <2>2. CASE ~(x < 0)
    BY <2>2, <1>3, <1>4, SMT
  <2> QED BY <2>1, <2>2
<1> HIDE DEF y
<1>11. (A * x0) % Modulus = y
  BY <1>1, <1>9, <1>10, ModUnique
<1> QED BY <1>11 DEF custom_random, Reference, x0, hi, lo, x, y

-----------------------------------------------------------------------------
(* scheduler() *)

ProcsOK ==
  /\ state \in [Slot -> {"UNUSED", "SLEEPING", "RUNNABLE", "RUNNING"}]
  /\ ctime \in [Slot -> 0 .. MaxTicks]
  /\ static_priority \in [Slot -> StaticPriority]
  /\ tickets \in [Slot -> 1 .. NPROC]
  /\ times \in [Slot -> {"none", "slept", "ran"}]

CpusOK ==
  /\ plock \in [Slot -> 0 .. NCPU]
  /\ idx \in [CPU -> 1 .. NPROC + 1]
  /\ best \in [CPU -> Slot \cup {NoProc}]
  /\ min \in [CPU -> Priority \cup (0 .. MaxTicks)]
  /\ running \in [CPU -> Slot \cup {NoProc}]

ClockOK ==
  /\ algo \in {"RR", "FCFS", "PBS", "LBS"}
  /\ ticks \in 0 .. IF algo = "LBS" THEN Seeds - 1 ELSE MaxTicks
  /\ looked \in 0 .. NPROC
  /\ panicked \in BOOLEAN

SinceOK == since \in [CPU -> SUBSET Slot]

\* A process is RUNNING on the CPU that runs it and on no other.
RunInv ==
  /\ \A c, d \in CPU : running[c] # NoProc /\ running[c] = running[d] => c = d
  /\ \A p \in Slot : state[p] = "RUNNING" <=> \E c \in CPU : running[c] = p

\* The candidate of a scan is locked and still has the rank it was chosen for,
\* and of those that were RUNNABLE all along none before the position of the
\* scan is better.  RR and LBS have no candidate.
ScanOK(c) ==
  /\ \A b \in Slot : best[c] = b =>
       b < idx[c] /\ plock[b] = c /\ state[b] = "RUNNABLE" /\ Key(b) = min[c]
  /\ algo \in {"RR", "LBS"} => idx[c] \in Slot /\ best[c] = NoProc
  /\ \A q \in since[c] :
       /\ state[q] = "RUNNABLE"
       /\ algo \in {"FCFS", "PBS"} /\ q < idx[c] =>
            /\ best[c] # NoProc
            /\ min[c] < Key(q) \/ (min[c] = Key(q) /\ best[c] <= q)

IInv == TypeOK /\ RunInv /\ \A c \in CPU : ScanOK(c)

-----------------------------------------------------------------------------
(* Types *)

\* The parts of the type invariant.
LEMMA Pieces == TypeOK <=> ProcsOK /\ CpusOK /\ ClockOK /\ SinceOK
  BY Zenon DEF TypeOK, ProcsOK, CpusOK, ClockOK, SinceOK

\* CPUs are numbered, and NoCpu is none of them.
LEMMA Cpus == CPU \subseteq 0 .. NCPU - 1 /\ NoCpu \notin CPU /\ NoCpu \in 0 .. NCPU
<1>1. NCPU \in Nat /\ NCPU >= 1
  BY SchedAssumption
<1>2. CPU \subseteq 0 .. NCPU - 1
  BY <1>1 DEF CPU
<1> QED
  BY <1>1, <1>2 DEF NoCpu

\* Creation times and priorities can be compared.
LEMMA KeyIs ==
  ASSUME ProcsOK, NEW p \in Slot
  PROVE  Key(p) \in Priority \cup (0 .. MaxTicks) /\ Key(p) \in Int
<1>1. ctime[p] \in 0 .. MaxTicks /\ ctime[p] \in Int
  BY SchedAssumption DEF ProcsOK
<1>2. times[p] \in {"none", "slept", "ran"} /\ static_priority[p] \in Int
  BY SchedAssumption, Zenon DEF ProcsOK
<1>3. Niceness(p) \in Int
  BY <1>2, SchedAssumption DEF Niceness
<1>4. DynamicPriority(p) \in Priority /\ DynamicPriority(p) \in Int
  BY <1>2, <1>3 DEF DynamicPriority, Priority
<1> QED
  BY <1>1, <1>4, Zenon DEF Key

\* The algorithm is that of the build.
LEMMA AlgoStays ==
  ASSUME [Next]_vars
  PROVE  algo' = algo /\ CPU' = CPU
<1>1. ASSUME NEW c \in CPU, CpuStep(c) PROVE algo' = algo
  <2>1. CASE ScanSlot(c) \/ Rescan(c)
    BY <2>1, Zenon DEF ScanSlot, Looks, Rescan
  <2>2. CASE Dispatch(c) \/ RunSlot(c)
    BY <2>2, Zenon DEF Dispatch, RunSlot
  <2>3. CASE Yield(c) \/ Sleep(c) \/ Exit(c)
    BY <2>3, Zenon DEF Yield, Sleep, Exit, Leave
  <2> QED
    BY <1>1, <2>1, <2>2, <2>3, Zenon DEF CpuStep
<1>2. ASSUME NEW p \in Slot, ProcStep(p) PROVE algo' = algo
  <2>1. ASSUME NEW counts, Wake(p, counts) PROVE algo' = algo
    BY <2>1, Zenon DEF Wake
  <2>2. ASSUME NEW n, SetPriority(p, n) PROVE algo' = algo
    BY <2>2, Zenon DEF SetPriority
  <2>3. CASE Create(p) \/ SetTickets(0, 10, p)
    BY <2>3, Zenon DEF Create, SetTickets
  <2> QED
    BY <1>2, <2>1, <2>2, <2>3, Zenon DEF ProcStep
<1>3. ASSUME Tick PROVE algo' = algo
  BY <1>3, Zenon DEF Tick
<1>4. algo' = algo
  BY <1>1, <1>2, <1>3, Zenon DEF Next, vars
<1> QED
  BY <1>4, Zenon DEF CPU

\* The fields of processes keep their types.
LEMMA NextProcs ==
  ASSUME TypeOK, [Next]_vars
  PROVE  ProcsOK'
<1>0. ProcsOK /\ CpusOK /\ ClockOK
  BY Pieces, Zenon
<1>i. 60 \in StaticPriority /\ 0 \in 0 .. MaxTicks /\ 1 \in 1 .. NPROC
  BY SchedAssumption
<1>1. CASE UNCHANGED procs
  BY <1>0, <1>1, Zenon DEF procs, ProcsOK
<1>2. ASSUME NEW c \in CPU, CpuStep(c) PROVE ProcsOK'
  <2>1. CASE ScanSlot(c) \/ Rescan(c)
    BY <1>1, <2>1, Zenon DEF ScanSlot, Looks, Rescan
  <2>2. CASE Dispatch(c)
    BY <1>0, <2>2, Zenon DEF Dispatch, ProcsOK
  <2>3. CASE RunSlot(c)
    BY <1>0, <2>3, Zenon DEF RunSlot, ProcsOK
  <2>4. CASE Yield(c) \/ Sleep(c)
    BY <1>0, <2>4, Zenon DEF Yield, Sleep, Leave, Keeps, ProcsOK
  <2>5. CASE Exit(c)
    BY <1>0, <1>i, <2>5, Zenon DEF Exit, Leave, ProcsOK
  <2> QED
    BY <1>2, <2>1, <2>2, <2>3, <2>4, <2>5, Zenon DEF CpuStep
<1>3. ASSUME NEW p \in Slot, ProcStep(p) PROVE ProcsOK'
  <2>1. ASSUME NEW counts, Wake(p, counts) PROVE ProcsOK'
    <3>1. times' \in [Slot -> {"none", "slept", "ran"}]
      BY <1>0, <2>1, Zenon DEF Wake, ProcsOK
    <3> QED
      BY <1>0, <2>1, <3>1, Zenon DEF Wake, ProcsOK
  <2>2. CASE Create(p)
    <3>1. algo = "FCFS" => ticks \in 0 .. MaxTicks
      BY <1>0, Zenon DEF ClockOK
    <3>2. ctime' \in [Slot -> 0 .. MaxTicks]
      BY <1>0, <1>i, <2>2, <3>1, Zenon DEF Create, ProcsOK
    <3> QED
      BY <1>0, <1>i, <2>2, <3>2, Zenon DEF Create, ProcsOK
  <2>3. ASSUME NEW n \in StaticPriority, SetPriority(p, n) PROVE ProcsOK'
    BY <1>0, <2>3, Zenon DEF SetPriority, ProcsOK
  <2>4. CASE SetTickets(0, 10, p)
    BY <1>0, <2>4, Zenon DEF SetTickets, ProcsOK, Slot
  <2> QED
    BY <1>3, <2>1, <2>2, <2>3, <2>4, Zenon DEF ProcStep
<1>4. CASE Tick
  <2>1. times' \in [Slot -> {"none", "slept", "ran"}]
    BY <1>0, <1>4, Zenon DEF Tick, ProcsOK
  <2> QED
    BY <1>0, <1>4, <2>1, Zenon DEF Tick, ProcsOK
<1> QED
  BY <1>1, <1>2, <1>3, <1>4, Zenon DEF Next, vars

\* So do locks and what the CPUs know.
LEMMA NextCpus ==
  ASSUME TypeOK, \A c \in CPU : ScanOK(c), [Next]_vars
  PROVE  CpusOK'
<1>0. ProcsOK /\ CpusOK /\ ClockOK
  BY Pieces, Zenon
<1>a. CPU' = CPU
  BY AlgoStays, Zenon
<1>c. \A c \in CPU : c \in 0 .. NCPU
  BY Cpus, SchedAssumption
<1>n. NoCpu \in 0 .. NCPU /\ 1 \in 1 .. NPROC + 1 /\ 0 \in Priority
  BY Cpus, SchedAssumption DEF Priority
<1>1. CASE UNCHANGED <<plock, scan, running>>
  BY <1>0, <1>1, <1>a, Zenon DEF scan, CpusOK
<1>2. ASSUME NEW c \in CPU, CpuStep(c) PROVE CpusOK'
  <2>1. CASE ScanSlot(c)
    <3>1. PICK p \in Slot : p = idx[c]
      BY <2>1, Zenon DEF ScanSlot, Looks
    <3>2. p + 1 \in 1 .. NPROC + 1
      BY SchedAssumption DEF Slot
    <3>3. Key(p) \in Priority \cup (0 .. MaxTicks)
      BY <1>0, KeyIs, Zenon
    <3>4. idx' = [idx EXCEPT ![c] = p + 1] /\ running' = running
      BY <2>1, <3>1, Zenon DEF ScanSlot, Looks
    <3>5. /\ min' = min \/ min' = [min EXCEPT ![c] = Key(p)]
          /\ best' = best \/ best' = [best EXCEPT ![c] = p]
      <4>1. PICK better \in BOOLEAN : Candidate(c, p, better)
        BY <2>1, <3>1, Zenon DEF ScanSlot
      <4> QED
        BY <1>0, <4>1, Zenon DEF Candidate, CpusOK
    <3>6. plock' \in [Slot -> 0 .. NCPU]
      <4>1. plock' = plock \/ Replace(c, p, best[c])
        BY <2>1, <3>1, Zenon DEF ScanSlot
      <4>2. ASSUME Replace(c, p, best[c]) PROVE plock' \in [Slot -> 0 .. NCPU]
        BY <1>0, <1>c, <1>n, <4>2, Zenon DEF Replace, CpusOK
      <4> QED
        BY <1>0, <4>1, <4>2, Zenon DEF CpusOK
    <3> QED
      BY <1>0, <1>a, <3>2, <3>3, <3>4, <3>5, <3>6, Zenon DEF CpusOK
  <2>2. CASE Rescan(c)
    BY <1>0, <1>a, <1>n, <2>2, Zenon DEF Rescan, CpusOK
  <2>3. CASE Dispatch(c)
    BY <1>0, <1>a, <1>n, <2>3, Zenon DEF Dispatch, CpusOK
  <2>4. CASE RunSlot(c)
    <3>1. PICK p \in Slot : p = idx[c]
      BY <2>4, Zenon DEF RunSlot, ScanOK
    <3>2. (IF p = NPROC THEN 1 ELSE p + 1) \in 1 .. NPROC + 1
      BY SchedAssumption DEF Slot
    <3>3. /\ idx' = [idx EXCEPT ![c] = IF p = NPROC THEN 1 ELSE p + 1]
          /\ UNCHANGED <<plock, best, min>>
          /\ running' = running \/ running' = [running EXCEPT ![c] = p]
      BY <2>4, <3>1, Zenon DEF RunSlot
    <3> QED
      BY <1>0, <1>a, <3>2, <3>3, Zenon DEF CpusOK
  <2>5. CASE Yield(c) \/ Sleep(c) \/ Exit(c)
    <3>1. running' = [running EXCEPT ![c] = NoProc] /\ UNCHANGED <<plock, scan>>
      BY <2>5, Zenon DEF Yield, Sleep, Exit, Leave
    <3> QED
      BY <1>0, <1>a, <3>1, Zenon DEF scan, CpusOK
  <2> QED
    BY <1>2, <2>1, <2>2, <2>3, <2>4, <2>5, Zenon DEF CpuStep
<1>3. ASSUME NEW p \in Slot, ProcStep(p) PROVE UNCHANGED <<plock, scan, running>>
  <2>1. ASSUME NEW counts, Wake(p, counts) PROVE UNCHANGED <<plock, scan, running>>
    BY <2>1, Zenon DEF Wake
  <2>2. ASSUME NEW n, SetPriority(p, n) PROVE UNCHANGED <<plock, scan, running>>
    BY <2>2, Zenon DEF SetPriority
  <2>3. CASE Create(p) \/ SetTickets(0, 10, p)
    BY <2>3, Zenon DEF Create, SetTickets
  <2> QED
    BY <1>3, <2>1, <2>2, <2>3, Zenon DEF ProcStep
<1>4. CASE Tick
  BY <1>1, <1>4, Zenon DEF Tick
<1> QED
  BY <1>1, <1>2, <1>3, <1>4, Zenon DEF Next, vars

\* So do the counters of the timer.
LEMMA NextClock ==
  ASSUME TypeOK, [Next]_vars
  PROVE  ClockOK'
<1>0. ProcsOK /\ CpusOK /\ ClockOK
  BY Pieces, Zenon
<1>s. Seeds \in Nat /\ Seeds > 0 /\ NPROC \in Nat /\ MaxTicks \in Nat
  <2>1. A * Q + R \in Nat /\ A * Q + R > 3
    BY LehmerAssumption
  <2> QED
    BY <2>1, SchedAssumption DEF Seeds, Modulus
<1>1. CASE UNCHANGED <<algo, ticks, looked, panicked>>
  BY <1>0, <1>1, Zenon DEF ClockOK
<1>2. ASSUME NEW c \in CPU, CpuStep(c) PROVE ClockOK'
  <2>1. CASE ScanSlot(c) \/ Rescan(c) \/ Dispatch(c)
    BY <1>1, <2>1, Zenon DEF ScanSlot, Looks, Rescan, Dispatch
  <2>2. CASE RunSlot(c)
    <3>1. looked \in 0 .. NPROC /\ (looked < NPROC => looked + 1 \in 0 .. NPROC)
      BY <1>0, <1>s DEF ClockOK
    <3>2. looked' \in 0 .. NPROC /\ UNCHANGED <<algo, ticks>>
      BY <2>2, <3>1, Zenon DEF RunSlot
    <3>3. panicked' \in BOOLEAN
      BY <2>2, Zenon DEF RunSlot
    <3> QED
      BY <1>0, <3>2, <3>3, Zenon DEF ClockOK
  <2>3. CASE Yield(c) \/ Sleep(c) \/ Exit(c)
    BY <1>1, <2>3, Zenon DEF Yield, Sleep, Exit, Leave
  <2> QED
    BY <1>2, <2>1, <2>2, <2>3, Zenon DEF CpuStep
<1>3. ASSUME NEW p \in Slot, ProcStep(p) PROVE UNCHANGED <<algo, ticks, looked, panicked>>
  <2>1. ASSUME NEW counts, Wake(p, counts) PROVE UNCHANGED <<algo, ticks, looked, panicked>>
    BY <2>1, Zenon DEF Wake
  <2>2. ASSUME NEW n, SetPriority(p, n) PROVE UNCHANGED <<algo, ticks, looked, panicked>>
    BY <2>2, Zenon DEF SetPriority
  <2>3. ASSUME Create(p) \/ SetTickets(0, 10, p) PROVE UNCHANGED <<algo, ticks, looked, panicked>>
    BY <2>3, Zenon DEF Create, SetTickets
  <2> QED
    BY <1>3, <2>1, <2>2, <2>3, Zenon DEF ProcStep
<1>4. CASE Tick
  <2>1. algo' = algo /\ panicked' = panicked
    BY <1>4, Zenon DEF Tick
  <2>2. CASE algo = "FCFS"
    <3>1. ticks < MaxTicks /\ ticks' = ticks + 1 /\ looked' = 0
      BY <1>4, <2>2, Zenon DEF Tick
    <3>2. ticks \in 0 .. MaxTicks
      BY <1>0, <2>2, Zenon DEF ClockOK
    <3>3. ticks' \in 0 .. MaxTicks /\ looked' \in 0 .. NPROC
      BY <1>s, <3>1, <3>2
    <3> QED
      BY <1>0, <2>1, <2>2, <3>3, Zenon DEF ClockOK
  <2>3. CASE algo = "LBS"
    <3>1. ticks' = (ticks + 1) % Seeds /\ looked' = 0
      BY <1>4, <2>3, Zenon DEF Tick
    <3>2. ticks \in Int
      BY <1>0, <1>s, <2>3 DEF ClockOK
    <3>3. ticks' \in 0 .. Seeds - 1 /\ looked' \in 0 .. NPROC
      BY <1>s, <3>1, <3>2
    <3> QED
      BY <1>0, <2>1, <2>3, <3>3, Zenon DEF ClockOK
  <2>4. CASE algo \notin {"FCFS", "LBS"}
    BY <1>1, <1>4, <2>1, <2>4, Zenon DEF Tick
  <2> QED
    BY <2>2, <2>3, <2>4, Zenon
<1> QED
  BY <1>1, <1>2, <1>3, <1>4, Zenon DEF Next, vars

\* Every step looks at what stays RUNNABLE.
LEMMA Observes ==
  ASSUME Next
  PROVE  Observe
<1>1. ASSUME NEW c \in CPU, CpuStep(c) PROVE Observe
  <2>1. CASE ScanSlot(c) \/ Rescan(c)
    BY <2>1, Zenon DEF ScanSlot, Rescan
  <2>2. CASE Dispatch(c) \/ RunSlot(c)
    BY <2>2, Zenon DEF Dispatch, RunSlot
  <2>3. CASE Yield(c) \/ Sleep(c) \/ Exit(c)
    BY <2>3, Zenon DEF Yield, Sleep, Exit
  <2> QED
    BY <1>1, <2>1, <2>2, <2>3, Zenon DEF CpuStep
<1>2. ASSUME NEW p \in Slot, ProcStep(p) PROVE Observe
  <2>1. ASSUME NEW counts, Wake(p, counts) PROVE Observe
    BY <2>1, Zenon DEF Wake
  <2>2. ASSUME NEW n, SetPriority(p, n) PROVE Observe
    BY <2>2, Zenon DEF SetPriority
  <2>3. CASE Create(p) \/ SetTickets(0, 10, p)
    BY <2>3, Zenon DEF Create, SetTickets
  <2> QED
    BY <1>2, <2>1, <2>2, <2>3, Zenon DEF ProcStep
<1>3. CASE Tick
  BY <1>3, Zenon DEF Tick
<1> QED
  BY <1>1, <1>2, <1>3, Zenon DEF Next

\* What a CPU has observed is RUNNABLE, and all of it was observed before and
\* has the same key, unless the scan begins again.
LEMMA SinceIs ==
  ASSUME TypeOK, Observe, CPU' = CPU, NEW c \in CPU
  PROVE  /\ since'[c] \subseteq Slot
         /\ \A q \in since'[c] : state'[q] = "RUNNABLE"
         /\ idx'[c] # 1 => \A q \in since'[c] : q \in since[c] /\ Key(q)' = Key(q)
<1>1. since'[c] = IF idx'[c] = 1 THEN Runnable'
                  ELSE {p \in since[c] : state'[p] = "RUNNABLE" /\ Key(p)' = Key(p)}
  BY Zenon DEF Observe
<1>2. since[c] \subseteq Slot
  BY Zenon DEF TypeOK
<1>3. Runnable' = {p \in Slot : state'[p] = "RUNNABLE"}
  BY Zenon DEF Runnable, Slot
<1> QED
  BY <1>1, <1>2, <1>3, Zenon

\* All types are kept.
LEMMA NextType ==
  ASSUME TypeOK, \A c \in CPU : ScanOK(c), [Next]_vars
  PROVE  TypeOK'
<1>1. CPU' = CPU
  BY AlgoStays, Zenon
<1>2. SinceOK'
  <2>1. CASE UNCHANGED vars
    BY <1>1, <2>1, Zenon DEF SinceOK, TypeOK, vars
  <2>2. CASE Next
    <3>1. Observe
      BY <2>2, Observes, Zenon
    <3>2. \A c \in CPU : since'[c] \subseteq Slot
      BY <1>1, <3>1, SinceIs, Zenon
    <3>3. since' = [c \in CPU |-> since'[c]]
      BY <3>1, Zenon DEF Observe
    <3> QED
      BY <1>1, <3>2, <3>3, Zenon DEF SinceOK
  <2> QED
    BY <2>1, <2>2, Zenon
<1>3. ProcsOK' /\ CpusOK' /\ ClockOK'
  BY NextProcs, NextCpus, NextClock, Zenon
<1> QED
  BY <1>2, <1>3, Zenon DEF TypeOK, ProcsOK, CpusOK, ClockOK, SinceOK

-----------------------------------------------------------------------------
(* Who runs *)

\* CPU c, which ran nothing, runs the RUNNABLE process p.
Runs(c, p) ==
  /\ running[c] = NoProc /\ p \in Slot /\ state[p] = "RUNNABLE"
  /\ state' = [state EXCEPT ![p] = "RUNNING"]
  /\ running' = [running EXCEPT ![c] = p]

\* A process runs, and stops, together with its CPU.
LEMMA NextRun ==
  ASSUME TypeOK, RunInv, \A c \in CPU : ScanOK(c), [Next]_vars
  PROVE  RunInv'
<1>0. /\ CPU' = CPU
      /\ state \in [Slot -> {"UNUSED", "SLEEPING", "RUNNABLE", "RUNNING"}]
      /\ running \in [CPU -> Slot \cup {NoProc}]
      /\ \A p \in Slot : p # NoProc
  <2>1. CPU' = CPU
    BY AlgoStays, Zenon
  <2>2. \A p \in Slot : p # NoProc
    BY SchedAssumption DEF Slot, NoProc
  <2> QED
    BY <2>1, <2>2, Zenon DEF TypeOK
<1>1. ASSUME running' = running,
             \A p \in Slot : state'[p] = "RUNNING" <=> state[p] = "RUNNING"
      PROVE  RunInv'
  BY <1>0, <1>1, Zenon DEF RunInv, NoProc, Slot
<1>2. ASSUME NEW c \in CPU, NEW p, Runs(c, p) PROVE RunInv'
  <2>1. /\ p \in Slot /\ p # NoProc /\ state[p] = "RUNNABLE"
        /\ \A d \in CPU : running'[d] = IF d = c THEN p ELSE running[d]
        /\ \A q \in Slot : state'[q] = IF q = p THEN "RUNNING" ELSE state[q]
    BY <1>0, <1>2, Zenon DEF Runs
  <2>2. \A d \in CPU : running[d] # p
    BY <2>1, Zenon DEF RunInv
  <2>3. ASSUME NEW d \in CPU, NEW e \in CPU, running'[d] # NoProc, running'[d] = running'[e]
        PROVE  d = e
    BY <2>1, <2>2, <2>3 DEF RunInv
  <2>4. ASSUME NEW q \in Slot PROVE state'[q] = "RUNNING" <=> \E d \in CPU : running'[d] = q
    <3>1. state[q] = "RUNNING" <=> \E d \in CPU : running[d] = q
      BY Zenon DEF RunInv
    <3>2. running[c] # q
      BY <1>0, <1>2, Zenon DEF Runs
    <3> QED
      BY <2>1, <3>1, <3>2, Zenon
  <2> QED
    BY <1>0, <2>3, <2>4, Zenon DEF RunInv, NoProc, Slot
<1>3. ASSUME NEW c \in CPU, NEW s, Leave(c, s), s # "RUNNING" PROVE RunInv'
  <2>1. PICK p \in Slot : p = running[c]
    BY <1>0, <1>3, Zenon DEF Leave
  <2>2. /\ \A d \in CPU : running'[d] = IF d = c THEN NoProc ELSE running[d]
        /\ \A q \in Slot : state'[q] = IF q = p THEN s ELSE state[q]
    BY <1>0, <1>3, <2>1, Zenon DEF Leave
  <2>3. ASSUME NEW d \in CPU, NEW e \in CPU, running'[d] # NoProc, running'[d] = running'[e]
        PROVE  d = e
    BY <2>2, <2>3 DEF RunInv
  <2>4. ASSUME NEW q \in Slot PROVE state'[q] = "RUNNING" <=> \E d \in CPU : running'[d] = q
    <3>1. state[q] = "RUNNING" <=> \E d \in CPU : running[d] = q
      BY Zenon DEF RunInv
    <3>2. \A d \in CPU : running[d] = p => d = c
      BY <1>0, <2>1, Zenon DEF RunInv
    <3>3. q # NoProc
      BY <1>0, Zenon
    <3>4. CASE q = p
      BY <1>3, <2>2, <3>2, <3>3, <3>4, Zenon
    <3>5. CASE q # p
      BY <2>1, <2>2, <3>1, <3>3, <3>5, Zenon
    <3> QED
      BY <3>4, <3>5, Zenon
  <2> QED
    BY <1>0, <2>3, <2>4, Zenon DEF RunInv, NoProc, Slot
<1>4. ASSUME NEW c \in CPU, CpuStep(c) PROVE RunInv'
  <2>1. CASE ScanSlot(c) \/ Rescan(c)
    BY <1>1, <2>1, Zenon DEF ScanSlot, Looks, Rescan, procs
  <2>2. CASE Dispatch(c)
    <3>1. PICK p : p = best[c]
      BY Zenon
    <3>2. p \in Slot /\ state[p] = "RUNNABLE"
      BY <2>2, <3>1 DEF Dispatch, ScanOK, TypeOK
    <3>3. Runs(c, p)
      BY <2>2, <3>1, <3>2, Zenon DEF Dispatch, Runs
    <3> QED
      BY <1>2, <3>3, Zenon
  <2>3. CASE RunSlot(c)
    <3>1. PICK p \in Slot : p = idx[c]
      BY <2>3, Zenon DEF RunSlot, ScanOK
    <3>2. Runs(c, p) \/ UNCHANGED <<state, running>>
      BY <2>3, <3>1, Zenon DEF RunSlot, Runs
    <3> QED
      BY <1>1, <1>2, <3>2, Zenon
  <2>4. CASE Yield(c) \/ Sleep(c) \/ Exit(c)
    <3>1. \E s \in {"RUNNABLE", "SLEEPING", "UNUSED"} : Leave(c, s)
      BY <2>4, Zenon DEF Yield, Sleep, Exit
    <3> QED
      BY <1>3, <3>1, Zenon
  <2> QED
    BY <1>4, <2>1, <2>2, <2>3, <2>4, Zenon DEF CpuStep
<1>5. ASSUME NEW p \in Slot, ProcStep(p) PROVE RunInv'
  <2>1. ASSUME NEW counts, Wake(p, counts) PROVE RunInv'
    BY <1>0, <1>1, <2>1, Zenon DEF Wake
  <2>2. ASSUME NEW n, SetPriority(p, n) PROVE RunInv'
    BY <1>1, <2>2, Zenon DEF SetPriority
  <2>3. CASE Create(p)
    BY <1>0, <1>1, <2>3, Zenon DEF Create
  <2>4. CASE SetTickets(0, 10, p)
    BY <1>1, <2>4, Zenon DEF SetTickets
  <2> QED
    BY <1>5, <2>1, <2>2, <2>3, <2>4, Zenon DEF ProcStep
<1>6. CASE Tick
  BY <1>1, <1>6, Zenon DEF Tick
<1>7. CASE UNCHANGED vars
  BY <1>1, <1>7, Zenon DEF vars, procs
<1> QED
  BY <1>4, <1>5, <1>6, <1>7, Zenon DEF Next

-----------------------------------------------------------------------------
(* The scan *)

\* A key depends on the fields of its process only.
LEMMA KeyStays ==
  ASSUME NEW p, algo' = algo, ctime'[p] = ctime[p],
         static_priority'[p] = static_priority[p], times'[p] = times[p]
  PROVE  Key(p)' = Key(p)
  BY DEF Key, DynamicPriority, Niceness

\* A candidate is locked, RUNNABLE and behind the scan.
LEMMA Candidates ==
  ASSUME NEW c \in CPU, ScanOK(c), NEW b \in Slot, best[c] = b
  PROVE  b < idx[c] /\ plock[b] = c /\ state[b] = "RUNNABLE" /\ Key(b) = min[c]
  BY Zenon DEF ScanOK

\* A scan is not disturbed by a step that leaves it and its candidate alone.
LEMMA ScanFrame ==
  ASSUME TypeOK, Observe, algo' = algo, CPU' = CPU, NEW d \in CPU, ScanOK(d),
         idx'[d] = idx[d], best'[d] = best[d], min'[d] = min[d],
         \A b \in Slot : best[d] = b =>
           plock'[b] = plock[b] /\ state'[b] = state[b] /\ Key(b)' = Key(b)
  PROVE  ScanOK(d)'
<1>1. \A b \in Slot : best'[d] = b =>
        /\ b < idx'[d] /\ plock'[b] = d
        /\ state'[b] = "RUNNABLE" /\ Key(b)' = min'[d]
  BY Zenon DEF ScanOK
<1>2. algo' \in {"RR", "LBS"} => idx'[d] \in Slot /\ best'[d] = NoProc
  BY Zenon DEF ScanOK
<1>3. ASSUME NEW q \in since'[d], algo' \in {"FCFS", "PBS"}, q < idx'[d]
      PROVE  /\ best'[d] # NoProc
             /\ min'[d] < Key(q)' \/ (min'[d] = Key(q)' /\ best'[d] <= q)
  <2>1. q \in Slot
    BY SinceIs, Zenon
  <2>2. idx'[d] # 1
    BY <1>3, <2>1, SchedAssumption DEF Slot
  <2>3. q \in since[d] /\ Key(q)' = Key(q)
    BY <2>2, SinceIs, Zenon
  <2> QED
    BY <1>3, <2>3, Zenon DEF ScanOK
<1>4. \A q \in since'[d] : state'[q] = "RUNNABLE"
  BY SinceIs, Zenon
<1> QED
  BY <1>1, <1>2, <1>3, <1>4, Zenon DEF ScanOK, NoProc, Slot

\* A scan that begins has no candidate and has seen nothing.
LEMMA ScanBegins ==
  ASSUME TypeOK, Observe, CPU' = CPU, NEW c \in CPU, idx'[c] = 1, best'[c] = NoProc
  PROVE  ScanOK(c)'
<1>1. \A b \in Slot : b # NoProc /\ ~(b < 1)
  BY SchedAssumption DEF Slot, NoProc
<1>2. \A q \in since'[c] : q \in Slot /\ state'[q] = "RUNNABLE"
  BY SinceIs, Zenon
<1>3. 1 \in Slot
  BY SchedAssumption DEF Slot
<1> QED
  BY <1>1, <1>2, <1>3, Zenon DEF ScanOK, NoProc, Slot

\* Steps that take no lock and let every locked RUNNABLE process be disturb
\* no scan.
Aside ==
  /\ UNCHANGED <<algo, plock, scan>> /\ Observe
  /\ \A b \in Slot : state[b] = "RUNNABLE" /\ plock[b] # NoCpu =>
       state'[b] = state[b] /\ Key(b)' = Key(b)

\* Such a step does not touch a scan, of this CPU or of another.
LEMMA AsideScans ==
  ASSUME TypeOK, \A c \in CPU : ScanOK(c), CPU' = CPU, Aside
  PROVE  \A c \in CPU : ScanOK(c)'
<1> SUFFICES ASSUME NEW c \in CPU PROVE ScanOK(c)'
  BY Zenon
<1>1. c # NoCpu
  BY Cpus, Zenon
<1>2. \A b \in Slot : best[c] = b =>
        plock'[b] = plock[b] /\ state'[b] = state[b] /\ Key(b)' = Key(b)
  BY <1>1, Candidates, Zenon DEF Aside
<1> QED
  BY <1>2, ScanFrame, Zenon DEF Aside, scan

\* A step of ProcStep is aside of every scan, and so are a tick and a process
\* that leaves its CPU.
LEMMA StepsAside ==
  ASSUME TypeOK, RunInv,
         \/ \E p \in Slot : ProcStep(p)
         \/ Tick
         \/ \E c \in CPU : Yield(c) \/ Sleep(c) \/ Exit(c)
  PROVE  Aside
<1>0. ProcsOK /\ CpusOK
  BY Pieces, Zenon
<1>1. ASSUME NEW c \in CPU, Yield(c) \/ Sleep(c) \/ Exit(c) PROVE Aside
  <2>1. PICK p \in Slot : p = running[c]
    BY <1>0, <1>1, Zenon DEF Yield, Sleep, Exit, Leave, CpusOK
  <2>2. state[p] = "RUNNING"
    BY <2>1, Zenon DEF RunInv
  <2>3. UNCHANGED <<algo, plock, scan>> /\ Observe
    BY <1>1, Zenon DEF Yield, Sleep, Exit, Leave
  <2>4. ASSUME NEW b \in Slot, state[b] = "RUNNABLE"
        PROVE  state'[b] = state[b] /\ Key(b)' = Key(b)
    <3>1. b # p
      BY <2>2, <2>4, Zenon
    <3>2. state'[b] = state[b]
      BY <1>0, <1>1, <2>1, <3>1 DEF Yield, Sleep, Exit, Leave, ProcsOK
    <3>3. /\ ctime'[b] = ctime[b] /\ static_priority'[b] = static_priority[b]
          /\ times'[b] = times[b]
      BY <1>0, <1>1, <2>1, <3>1 DEF Yield, Sleep, Exit, Keeps, ProcsOK
    <3> QED
      BY <2>3, <3>2, <3>3, KeyStays, Zenon
  <2> QED
    BY <2>3, <2>4, Zenon DEF Aside
<1>2. ASSUME NEW p \in Slot, ProcStep(p) PROVE Aside
  <2>1. ASSUME NEW counts, Wake(p, counts) PROVE Aside
    <3>1. UNCHANGED <<algo, plock, scan>> /\ Observe
      BY <2>1, Zenon DEF Wake
    <3>2. ASSUME NEW b \in Slot, state[b] = "RUNNABLE"
          PROVE  state'[b] = state[b] /\ Key(b)' = Key(b)
      <4>1. /\ state'[b] = state[b] /\ ctime'[b] = ctime[b]
            /\ static_priority'[b] = static_priority[b] /\ times'[b] = times[b]
        BY <1>0, <2>1, <3>2, Zenon DEF Wake, ProcsOK
      <4> QED
        BY <3>1, <4>1, KeyStays, Zenon
    <3> QED
      BY <3>1, <3>2, Zenon DEF Aside
  <2>2. CASE Create(p)
    <3>1. UNCHANGED <<algo, plock, scan>> /\ Observe
      BY <2>2, Zenon DEF Create
    <3>2. ASSUME NEW b \in Slot, state[b] = "RUNNABLE"
          PROVE  state'[b] = state[b] /\ Key(b)' = Key(b)
      <4>1. b # p
        BY <2>2, <3>2, Zenon DEF Create
      <4>2. /\ state'[b] = state[b] /\ ctime'[b] = ctime[b]
            /\ static_priority'[b] = static_priority[b] /\ times'[b] = times[b]
        BY <1>0, <2>2, <4>1, Zenon DEF Create, ProcsOK
      <4> QED
        BY <3>1, <4>2, KeyStays, Zenon
    <3> QED
      BY <3>1, <3>2, Zenon DEF Aside
  <2>3. ASSUME NEW n, SetPriority(p, n) PROVE Aside
    <3>1. UNCHANGED <<algo, plock, scan>> /\ Observe
      BY <2>3, Zenon DEF SetPriority
    <3>2. ASSUME NEW b \in Slot, plock[b] # NoCpu
          PROVE  state'[b] = state[b] /\ Key(b)' = Key(b)
      <4>1. /\ state'[b] = state[b] /\ ctime'[b] = ctime[b]
            /\ static_priority'[b] = static_priority[b] /\ times'[b] = times[b]
        BY <1>0, <2>3, <3>2, Zenon DEF SetPriority, ProcsOK
      <4> QED
        BY <3>1, <4>1, KeyStays, Zenon
    <3> QED
      BY <3>1, <3>2, Zenon DEF Aside
  <2>4. CASE SetTickets(0, 10, p)
    <3>1. UNCHANGED <<algo, plock, scan, state, ctime, static_priority, times>> /\ Observe
      BY <2>4, Zenon DEF SetTickets
    <3>2. \A b \in Slot : Key(b)' = Key(b)
      BY <3>1, KeyStays, Zenon
    <3> QED
      BY <3>1, <3>2, Zenon DEF Aside
  <2> QED
    BY <1>2, <2>1, <2>2, <2>3, <2>4, Zenon DEF ProcStep
<1>3. CASE Tick
  <2>1. UNCHANGED <<algo, plock, scan, state, ctime, static_priority>> /\ Observe
    BY <1>3, Zenon DEF Tick
  <2>2. ASSUME NEW b \in Slot, state[b] = "RUNNABLE"
        PROVE  Key(b)' = Key(b)
    <3>1. times' = [p \in Slot |-> IF algo = "PBS" /\ state[p] = "RUNNING" THEN "ran"
                                   ELSE times[p]]
      BY <1>3, Zenon DEF Tick
    <3>2. times'[b] = times[b]
      BY <2>2, <3>1, Zenon
    <3> QED
      BY <2>1, <3>2, KeyStays, Zenon
  <2> QED
    BY <2>1, <2>2, Zenon DEF Aside
<1> QED
  BY <1>1, <1>2, <1>3, Zenon

\* An iteration under FCFS and PBS leaves the better of the candidate and the
\* process at the position of the scan as candidate.
LEMMA ScanSlotScans ==
  ASSUME TypeOK, \A c \in CPU : ScanOK(c), CPU' = CPU, NEW c \in CPU, ScanSlot(c)
  PROVE  \A d \in CPU : ScanOK(d)'
<1>0. ProcsOK /\ CpusOK
  BY Pieces, Zenon
<1>1. PICK p \in Slot : p = idx[c]
  BY Zenon DEF ScanSlot, Looks
<1>2. PICK better \in BOOLEAN :
        better <=> state[p] = "RUNNABLE" /\ (best[c] = NoProc \/ Key(p) < min[c])
  BY Zenon
<1>3. /\ algo \in {"FCFS", "PBS"} /\ plock[p] = NoCpu
      /\ idx' = [idx EXCEPT ![c] = p + 1]
      /\ UNCHANGED <<algo, procs>> /\ Observe
  BY <1>1, Zenon DEF ScanSlot, Looks
<1>4. /\ best' = IF better THEN [best EXCEPT ![c] = p] ELSE best
      /\ min' = IF better THEN [min EXCEPT ![c] = Key(p)] ELSE min
  <2>1. Candidate(c, p, better)
    BY <1>1, <1>2, Zenon DEF ScanSlot
  <2> QED
    BY <1>0, <2>1, Zenon DEF Candidate, CpusOK
<1>5. IF better THEN Replace(c, p, best[c]) ELSE plock' = plock
  BY <1>1, <1>2, Zenon DEF ScanSlot
<1>6. \A q \in Slot : Key(q)' = Key(q) /\ state'[q] = state[q] /\ Key(q) \in Int
  BY <1>0, <1>3, KeyStays, KeyIs, Zenon DEF procs
<1>7. NoCpu \notin CPU /\ p \in Int /\ \A q \in Slot : q \in Int /\ q # NoProc
  BY Cpus, SchedAssumption DEF Slot, NoProc
<1>8. ASSUME NEW d \in CPU, d # c PROVE ScanOK(d)'
  <2>1. idx'[d] = idx[d] /\ best'[d] = best[d] /\ min'[d] = min[d]
    BY <1>0, <1>3, <1>4, <1>8, Zenon DEF CpusOK
  <2>2. ASSUME NEW b \in Slot, best[d] = b PROVE plock'[b] = plock[b]
    <3>1. plock[b] = d
      BY <2>2, Candidates, Zenon
    <3>2. b # p
      BY <1>3, <1>7, <3>1, Zenon
    <3>3. b # best[c]
      BY <1>8, <3>1, Candidates, Zenon
    <3> QED
      BY <1>5, <3>2, <3>3, Zenon DEF Replace
  <2> QED
    BY <1>3, <1>6, <2>1, <2>2, ScanFrame, Zenon
<1>9. ScanOK(c)'
  <2>1. idx'[c] = p + 1 /\ idx'[c] # 1
    <3>1. idx'[c] = p + 1
      BY <1>0, <1>3, Zenon DEF CpusOK
    <3> QED
      BY <3>1, SchedAssumption DEF Slot
  <2>2. ASSUME NEW q \in since'[c]
        PROVE  q \in Slot /\ q \in since[c] /\ state[q] = "RUNNABLE" /\ state'[q] = "RUNNABLE"
    <3>1. q \in Slot /\ q \in since[c] /\ state'[q] = "RUNNABLE"
      BY <1>3, <2>1, SinceIs, Zenon
    <3> QED
      BY <1>6, <3>1, Zenon
  <2>3. ASSUME NEW q \in since[c], q < p
        PROVE  best[c] # NoProc /\ (min[c] < Key(q) \/ (min[c] = Key(q) /\ best[c] <= q))
    BY <1>1, <1>3, <2>3, Zenon DEF ScanOK
  <2>m. min[c] \in Int
    BY <1>0, SchedAssumption DEF CpusOK, Priority
  <2>4. CASE better
    <3>1. best'[c] = p /\ min'[c] = Key(p) /\ plock'[p] = c /\ state[p] = "RUNNABLE"
      <4>1. Replace(c, p, best[c]) /\ state[p] = "RUNNABLE"
        BY <1>2, <1>5, <2>4, Zenon
      <4>0. p # best[c]
        BY <1>3, <1>7, Candidates, Zenon
      <4>2. plock'[p] = c
        BY <4>0, <4>1, Zenon DEF Replace
      <4>3. best' = [best EXCEPT ![c] = p] /\ min' = [min EXCEPT ![c] = Key(p)]
        BY <1>4, <2>4, Zenon
      <4>4. best'[c] = p /\ min'[c] = Key(p)
        BY <1>0, <4>3, Zenon DEF CpusOK
      <4> QED
        BY <4>1, <4>2, <4>4, Zenon
    <3>2. ASSUME NEW q \in since'[c], q < p + 1
          PROVE  min'[c] < Key(q)' \/ (min'[c] = Key(q)' /\ best'[c] <= q)
      <4>1. q \in Slot /\ q \in since[c] /\ Key(q)' = Key(q) /\ Key(q) \in Int
        BY <1>6, <2>2, Zenon
      <4>2. q < p \/ q = p
        BY <1>7, <3>2, <4>1
      <4>3. CASE q < p
        <5>1. Key(p) < min[c]
          BY <1>2, <2>3, <2>4, <4>1, <4>3, Zenon
        <5>2. min[c] <= Key(q)
          BY <2>3, <2>m, <4>1, <4>3
        <5>3. Key(p) \in Int
          BY <1>6, Zenon
        <5>4. Key(p) < Key(q)
          BY <2>m, <4>1, <5>1, <5>2, <5>3
        <5> QED
          BY <3>1, <4>1, <5>4, Zenon
      <4>4. CASE q = p
        BY <1>7, <3>1, <4>1, <4>4
      <4> QED
        BY <4>2, <4>3, <4>4, Zenon
    <3>3. \A b \in Slot : best'[c] = b =>
            /\ b < idx'[c] /\ plock'[b] = c
            /\ state'[b] = "RUNNABLE" /\ Key(b)' = min'[c]
      BY <1>6, <1>7, <2>1, <3>1
    <3>4. best'[c] # NoProc
      BY <1>7, <3>1, Zenon
    <3> QED
      BY <1>3, <2>1, <2>2, <3>2, <3>3, <3>4 DEF ScanOK, NoProc, Slot
  <2>5. CASE ~better
    <3>1. best'[c] = best[c] /\ min'[c] = min[c] /\ plock' = plock
      BY <1>4, <1>5, <2>5, Zenon
    <3>b. \A b \in Slot : best[c] = b =>
            b < p /\ plock[b] = c /\ state[b] = "RUNNABLE" /\ Key(b) = min[c]
      BY <1>1, Candidates, Zenon
    <3>2. ASSUME NEW q \in since'[c], q < p + 1
          PROVE  /\ best'[c] # NoProc
                 /\ min'[c] < Key(q)' \/ (min'[c] = Key(q)' /\ best'[c] <= q)
      <4>1. q \in Slot /\ q \in since[c] /\ Key(q)' = Key(q) /\ Key(q) \in Int
        BY <1>6, <2>2, Zenon
      <4>2. q < p \/ q = p
        BY <1>7, <3>2, <4>1
      <4>3. CASE q < p
        BY <2>3, <3>1, <4>1, <4>3, Zenon
      <4>4. CASE q = p
        <5>1. best[c] # NoProc /\ ~(Key(p) < min[c])
          BY <1>2, <2>2, <2>5, <4>4, Zenon
        <5>2. PICK b \in Slot : b = best[c]
          BY <1>0, <5>1, Zenon DEF CpusOK
        <5>3. b < p
          BY <3>b, <5>2, Zenon
        <5>4. min[c] <= Key(q) /\ b <= q
          <6>1. ~(Key(q) < min[c]) /\ b < q
            BY <4>4, <5>1, <5>3, Zenon
          <6>2. b \in Int /\ q \in Int
            BY <1>7, <4>1, Zenon
          <6> QED
            BY <2>m, <4>1, <6>1, <6>2
        <5>5. min[c] < Key(q) \/ min[c] = Key(q)
          BY <2>m, <4>1, <5>4
        <5> QED
          BY <3>1, <4>1, <5>1, <5>2, <5>4, <5>5, Zenon
      <4> QED
        BY <4>2, <4>3, <4>4, Zenon
    <3>3. \A b \in Slot : best'[c] = b =>
            /\ b < idx'[c] /\ plock'[b] = c
            /\ state'[b] = "RUNNABLE" /\ Key(b)' = min'[c]
      <4>1. ASSUME NEW b \in Slot, b < p PROVE b < idx'[c]
        BY <1>7, <2>1, <4>1
      <4> QED
        BY <1>6, <3>1, <3>b, <4>1, Zenon
    <3> QED
      BY <1>3, <2>1, <2>2, <3>2, <3>3 DEF ScanOK, NoProc, Slot
  <2> QED
    BY <2>4, <2>5, Zenon
<1> QED
  BY <1>8, <1>9, Zenon

\* Every step keeps every scan right.
LEMMA NextScan ==
  ASSUME TypeOK, RunInv, \A c \in CPU : ScanOK(c), [Next]_vars
  PROVE  (\A c \in CPU : ScanOK(c))'
<1>0. ProcsOK /\ CpusOK /\ CPU' = CPU /\ algo' = algo
  BY Pieces, AlgoStays, Zenon
<1>1. CASE UNCHANGED vars
  <2>1. ASSUME NEW c \in CPU PROVE ScanOK(c)'
    <3>1. \A q \in Slot : Key(q)' = Key(q)
      BY <1>1, KeyStays, Zenon DEF vars, procs
    <3>2. since[c] \subseteq Slot
      BY Zenon DEF TypeOK
    <3>3. UNCHANGED <<algo, state, plock, idx, best, min, since>>
      BY <1>1, Zenon DEF vars, procs, scan
    <3>4. ScanOK(c)
      BY Zenon
    <3> QED
      BY <3>1, <3>2, <3>3, <3>4 DEF ScanOK, NoProc, Slot
  <2> QED
    BY <1>0, <2>1, Zenon
<1>2. ASSUME NEW c \in CPU, CpuStep(c) PROVE (\A d \in CPU : ScanOK(d))'
  <2>1. CASE ScanSlot(c)
    BY <1>0, <2>1, ScanSlotScans, Zenon
  <2>2. CASE Yield(c) \/ Sleep(c) \/ Exit(c)
    BY <1>0, <2>2, StepsAside, AsideScans, Zenon
  <2>3. CASE Rescan(c)
    <3>1. UNCHANGED <<plock, state, ctime, static_priority, times, best, min>> /\ Observe
      BY <2>3, Zenon DEF Rescan, procs
    <3>2. \A b \in Slot : Key(b)' = Key(b)
      BY <1>0, <3>1, KeyStays, Zenon
    <3>3. ScanOK(c)'
      <4>1. idx'[c] = 1 /\ best'[c] = NoProc
        BY <1>0, <2>3, Zenon DEF Rescan, CpusOK
      <4> QED
        BY <1>0, <3>1, <4>1, ScanBegins, Zenon
    <3>4. ASSUME NEW d \in CPU, d # c PROVE ScanOK(d)'
      <4>1. idx'[d] = idx[d]
        BY <1>0, <2>3, <3>4, Zenon DEF Rescan, CpusOK
      <4> QED
        BY <1>0, <3>1, <3>2, <4>1, ScanFrame, Zenon
    <3> QED
      BY <1>0, <3>3, <3>4, Zenon
  <2>4. CASE Dispatch(c)
    <3>1. PICK p \in Slot : p = best[c]
      BY <1>0, <2>4, Zenon DEF Dispatch, CpusOK
    <3>2. plock[p] = c
      BY <3>1, Candidates, Zenon
    <3>3. UNCHANGED <<ctime, static_priority, times>> /\ Observe
      BY <2>4, Zenon DEF Dispatch
    <3>4. \A b \in Slot : Key(b)' = Key(b)
      BY <1>0, <3>3, KeyStays, Zenon
    <3>5. ScanOK(c)'
      <4>1. idx'[c] = 1 /\ best'[c] = NoProc
        BY <1>0, <2>4, Zenon DEF Dispatch, CpusOK
      <4> QED
        BY <1>0, <3>3, <4>1, ScanBegins, Zenon
    <3>6. ASSUME NEW d \in CPU, d # c PROVE ScanOK(d)'
      <4>1. idx'[d] = idx[d] /\ best'[d] = best[d] /\ min'[d] = min[d]
        BY <1>0, <2>4, <3>6, Zenon DEF Dispatch, CpusOK
      <4>2. ASSUME NEW b \in Slot, best[d] = b
            PROVE  plock'[b] = plock[b] /\ state'[b] = state[b]
        <5>1. b # p
          BY <3>2, <3>6, <4>2, Candidates, Zenon
        <5> QED
          BY <1>0, <2>4, <3>1, <5>1, Zenon DEF Dispatch, CpusOK, ProcsOK
      <4> QED
        BY <1>0, <3>3, <3>4, <4>1, <4>2, ScanFrame, Zenon
    <3> QED
      BY <1>0, <3>5, <3>6, Zenon
  <2>5. CASE RunSlot(c)
    <3>1. PICK p \in Slot : p = idx[c]
      BY <2>5, Zenon DEF RunSlot, ScanOK
    <3>2. /\ algo \in {"RR", "LBS"} /\ UNCHANGED <<best, min, plock>> /\ Observe
          /\ idx' = [idx EXCEPT ![c] = IF p = NPROC THEN 1 ELSE p + 1]
      BY <2>5, <3>1, Zenon DEF RunSlot
    <3>3. \A d \in CPU : best[d] = NoProc /\ best'[d] = NoProc
      BY <3>2, Zenon DEF ScanOK
    <3>4. \A b \in Slot : b # NoProc
      BY SchedAssumption DEF Slot, NoProc
    <3>5. ScanOK(c)'
      <4>1. idx'[c] \in Slot
        <5>1. (IF p = NPROC THEN 1 ELSE p + 1) \in Slot
          BY SchedAssumption DEF Slot
        <5> QED
          BY <1>0, <3>2, <5>1, Zenon DEF CpusOK
      <4>2. \A q \in since'[c] : state'[q] = "RUNNABLE"
        BY <1>0, <3>2, SinceIs, Zenon
      <4>3. algo' \notin {"FCFS", "PBS"}
        BY <1>0, <3>2, Zenon
      <4> QED
        BY <3>3, <3>4, <4>1, <4>2, <4>3, Zenon DEF ScanOK, NoProc, Slot
    <3>6. ASSUME NEW d \in CPU, d # c PROVE ScanOK(d)'
      <4>1. idx'[d] = idx[d] /\ best'[d] = best[d] /\ min'[d] = min[d]
        BY <1>0, <3>2, <3>6, Zenon DEF CpusOK
      <4>2. \A b \in Slot : best[d] # b
        BY <3>3, <3>4, Zenon
      <4> QED
        BY <1>0, <3>2, <4>1, <4>2, ScanFrame, Zenon
    <3> QED
      BY <1>0, <3>5, <3>6, Zenon
  <2> QED
    BY <1>2, <2>1, <2>2, <2>3, <2>4, <2>5, Zenon DEF CpuStep
<1>3. CASE (\E p \in Slot : ProcStep(p)) \/ Tick
  BY <1>0, <1>3, StepsAside, AsideScans, Zenon
<1> QED
  BY <1>1, <1>2, <1>3, Zenon DEF Next

-----------------------------------------------------------------------------

\* PicksTheBest holds of any number of CPUs and processes under each of the
\* four algorithms: the process a scan runs was chosen by what still holds of
\* it, and is the best of those that were RUNNABLE since the scan began.
THEOREM SchedPicksTheBest == Spec => []PicksTheBest
<1>1. Init => IInv
  <2> SUFFICES ASSUME Init PROVE IInv
    BY Zenon
  <2>1. /\ 1 \in Slot /\ NPROC \in Nat /\ NCPU \in Nat /\ NoProc \notin Slot
        /\ NoCpu \in 0 .. NCPU
    BY SchedAssumption DEF Slot, NoProc, NoCpu
  <2>2. ProcsOK
    BY <2>1, SchedAssumption DEF Init, ProcsOK
  <2>3. CpusOK
    BY <2>1 DEF Init, CpusOK, Priority
  <2>4. ClockOK
    <3>1. Seeds \in Nat /\ Seeds > 0
      <4>1. A * Q + R \in Nat /\ A * Q + R > 3
        BY LehmerAssumption
      <4> QED
        BY <4>1 DEF Seeds, Modulus
    <3> QED
      <4>1. 0 \in 0 .. Seeds - 1 /\ 0 \in 0 .. MaxTicks /\ 0 \in 0 .. NPROC
        BY <2>1, <3>1, SchedAssumption
      <4> QED
        BY <4>1, Zenon DEF Init, ClockOK
  <2>5. SinceOK
    BY <2>1, Zenon DEF Init, SinceOK
  <2>6. RunInv
    BY <2>1, Zenon DEF Init, RunInv
  <2>7. ASSUME NEW c \in CPU PROVE ScanOK(c)
    <3>1. idx[c] = 1 /\ best[c] = NoProc /\ since[c] = {1} /\ state[1] = "RUNNABLE"
      BY <2>1, <2>7, Zenon DEF Init
    <3> QED
      BY <2>1, <3>1 DEF ScanOK
  <2> QED
    BY <2>2, <2>3, <2>4, <2>5, <2>6, <2>7, Pieces, Zenon DEF IInv
<1>2. IInv /\ [Next]_vars => IInv'
  BY NextType, NextRun, NextScan, Zenon DEF IInv
<1>3. IInv => PicksTheBest
  <2> SUFFICES ASSUME IInv PROVE PicksTheBest
    BY Zenon
  <2>1. CpusOK
    BY Pieces, Zenon DEF IInv
  <2>2. ASSUME NEW c \in CPU, best[c] # NoProc
        PROVE  state[best[c]] = "RUNNABLE" /\ Key(best[c]) = min[c]
    BY <2>1, <2>2 DEF CpusOK, IInv, ScanOK
  <2>3. ASSUME NEW c \in CPU, idx[c] = NPROC + 1, NEW q \in since[c]
        PROVE  /\ best[c] # NoProc
               /\ Key(best[c]) < Key(q) \/ (Key(best[c]) = Key(q) /\ best[c] <= q)
    <3>1. q \in Slot /\ ScanOK(c)
      BY Zenon DEF IInv, TypeOK
    <3>2. q < idx[c] /\ idx[c] \notin Slot
      BY <2>3, <3>1, SchedAssumption DEF Slot
    <3>3. algo \in {"FCFS", "PBS"}
      BY <3>1, <3>2, Zenon DEF ScanOK, IInv, TypeOK
    <3>4. best[c] # NoProc /\ (min[c] < Key(q) \/ (min[c] = Key(q) /\ best[c] <= q))
      BY <3>1, <3>2, <3>3, Zenon DEF ScanOK
    <3> QED
      BY <2>2, <3>4, Zenon
  <2>4. TypeOK /\ RunInv
    BY Zenon DEF IInv
  <2> QED
    BY <2>2, <2>3, <2>4, Zenon DEF PicksTheBest, RunInv
<1> QED
  BY <1>1, <1>2, <1>3, PTL DEF Spec
=============================================================================
