------------------------------- MODULE Virtio -------------------------------
(***************************************************************************)
(* The disk driver (kernel/virtio_disk.c): processes in virtio_disk_rw(),  *)
(* the interrupt handler, and the device, which shares the avail and used  *)
(* rings with them, works on several requests at once and finishes them in *)
(* any order.  A process has one buffer, so b->disk is the process's own.  *)
(***************************************************************************)
EXTENDS Integers, FiniteSets, FiniteSetsExt

CONSTANTS Process, NoProc,
          NUM,           \* descriptors, and entries of each ring
          U16            \* values of a ring's idx, 2^16 in the code

ASSUME VirtioAssumption ==
  /\ NoProc \notin Process
  /\ NUM \in Nat \ {0} /\ U16 \in Nat /\ U16 % NUM = 0

VARIABLES free,                     \* disk.free[]
          next,                     \* disk.desc[].next; NoDesc without F_NEXT
          info, status,             \* disk.info[]: b, and what the device wrote
          avail, availIdx,          \* disk.avail
          used, usedIdx,            \* disk.used
          used_idx,                 \* disk.used_idx
          irq, kicked,              \* INTERRUPT_STATUS, QUEUE_NOTIFY
          seen, inflight,           \* device: avail entries taken, chains in work
          pc, head, busy,           \* of each process, its idx[0], b->disk
          asleep,                   \* who sleeps, on b or on disk.free[0]
          intr,                     \* the handler is in its loop
          performed,                \* auxiliary: times the request was done
          panicked

driver == <<free, next, info>>
rings == <<avail, availIdx, used, usedIdx>>
device == <<status, kicked, seen, inflight, performed>>
procs == <<pc, head, busy, asleep>>
vars == <<driver, rings, used_idx, irq, device, procs, intr, panicked>>

Desc == 0 .. NUM - 1
NoDesc == NUM

TypeOK ==
  /\ free \subseteq Desc
  /\ next \in [Desc -> Desc \cup {NoDesc}]
  /\ info \in [Desc -> Process \cup {NoProc}]
  /\ status \in [Desc -> {0, 255}]
  /\ avail \in [Desc -> Desc] /\ used \in [Desc -> Desc]
  /\ {availIdx, usedIdx, used_idx, seen} \subseteq 0 .. U16 - 1
  /\ {irq, kicked, intr, panicked} \subseteq BOOLEAN
  /\ inflight \subseteq Desc
  /\ pc \in [Process -> {"idle", "alloc", "idx", "notify", "wait"}]
  /\ head \in [Process -> Desc \cup {NoDesc}]
  /\ busy \in [Process -> BOOLEAN]
  /\ asleep \subseteq Process
  /\ performed \in [Process -> 0 .. 1]

\* virtio_disk_init()
Init ==
  /\ free = Desc
  /\ next = [i \in Desc |-> NoDesc]
  /\ info = [i \in Desc |-> NoProc] /\ status = [i \in Desc |-> 0]
  /\ avail = [i \in Desc |-> 0] /\ used = [i \in Desc |-> 0]
  /\ availIdx = 0 /\ usedIdx = 0 /\ used_idx = 0 /\ seen = 0
  /\ irq = FALSE /\ kicked = FALSE /\ intr = FALSE /\ panicked = FALSE
  /\ inflight = {}
  /\ pc = [p \in Process |-> "idle"]
  /\ head = [p \in Process |-> NoDesc]
  /\ busy = [p \in Process |-> FALSE]
  /\ performed = [p \in Process |-> 0]
  /\ asleep = {}

-----------------------------------------------------------------------------

\* vdisk_lock is held across the steps of a submission and of the handler.
Unlocked == ~intr /\ ~panicked /\ \A p \in Process : pc[p] \notin {"idx", "notify"}

Goto(p, label) == pc' = [pc EXCEPT ![p] = label]

Call(p) ==
  /\ pc[p] = "idle"
  /\ Goto(p, "alloc")
  /\ UNCHANGED <<driver, rings, used_idx, irq, device, head, busy, asleep, intr,
                 panicked>>

\* The i-th free descriptor.
Nth(i) == CHOOSE d \in free : Cardinality({e \in free : e < d}) = i - 1

AwaitsDescs == {p \in asleep : pc[p] = "alloc"}

\* alloc3_desc() fails; what it got is freed again, which wakes the others.
AllocFails(p) ==
  /\ pc[p] = "alloc" /\ p \notin asleep /\ Unlocked
  /\ Cardinality(free) < 3
  /\ asleep' = (IF free = {} THEN asleep ELSE asleep \ AwaitsDescs) \cup {p}
  /\ UNCHANGED <<driver, rings, used_idx, irq, device, pc, head, busy, intr,
                 panicked>>

\* Three descriptors are allocated, formatted, and put into the avail ring.
Submit(p) ==
  LET h == Nth(1) IN
  /\ pc[p] = "alloc" /\ p \notin asleep /\ Unlocked
  /\ Cardinality(free) >= 3
  /\ free' = free \ {h, Nth(2), Nth(3)}
  /\ next' = [next EXCEPT ![h] = Nth(2), ![Nth(2)] = Nth(3), ![Nth(3)] = NoDesc]
  /\ status' = [status EXCEPT ![h] = 255]
  /\ busy' = [busy EXCEPT ![p] = TRUE]
  /\ info' = [info EXCEPT ![h] = p]
  /\ head' = [head EXCEPT ![p] = h]
  /\ avail' = [avail EXCEPT ![availIdx % NUM] = h]
  /\ Goto(p, "idx")
  /\ UNCHANGED <<availIdx, used, usedIdx, used_idx, irq, kicked, seen, inflight,
                 performed, asleep, intr, panicked>>

\* The device may see the new entry from here on.
PutIdx(p) ==
  /\ pc[p] = "idx"
  /\ availIdx' = (availIdx + 1) % U16
  /\ Goto(p, "notify")
  /\ UNCHANGED <<driver, avail, used, usedIdx, used_idx, irq, device, head, busy,
                 asleep, intr, panicked>>

\* The device is told that there is something new.
Notify(p) ==
  /\ pc[p] = "notify"
  /\ kicked' = TRUE
  /\ Goto(p, "wait")
  /\ UNCHANGED <<driver, rings, used_idx, irq, status, seen, inflight, performed,
                 head, busy, asleep, intr, panicked>>

SleepOnBuf(p) ==
  /\ pc[p] = "wait" /\ p \notin asleep /\ Unlocked
  /\ busy[p]
  /\ asleep' = asleep \cup {p}
  /\ UNCHANGED <<driver, rings, used_idx, irq, device, pc, head, busy, intr,
                 panicked>>

\* Mutant of Chain: the last one is forgotten.
ChainShort(h) == {h} \cup (IF next[h] = NoDesc THEN {} ELSE {next[h]})

\* What free_chain() frees, and how it ends: next of the last one.
Chain(h) ==
  {h} \cup (IF next[h] = NoDesc THEN {}
            ELSE {next[h]} \cup ({next[next[h]]} \ {NoDesc}))

\* The request is finished: free_chain(), and its wakeups.  free_desc() panics
\* when a descriptor is free already.
Return(p) ==
  LET h == head[p] IN
  /\ pc[p] = "wait" /\ p \notin asleep /\ Unlocked
  /\ ~busy[p]
  /\ info' = [info EXCEPT ![h] = NoProc]
  /\ panicked' = (Chain(h) \cap free # {})
  /\ free' = free \cup Chain(h)
  /\ next' = [i \in Desc |-> IF i \in Chain(h) THEN NoDesc ELSE next[i]]
  /\ asleep' = asleep \ AwaitsDescs
  /\ head' = [head EXCEPT ![p] = NoDesc]
  /\ performed' = [performed EXCEPT ![p] = 0]
  /\ Goto(p, "idle")
  /\ UNCHANGED <<rings, used_idx, irq, status, kicked, seen, inflight, busy, intr>>

-----------------------------------------------------------------------------
(* The device *)

\* What nobody reads again is forgotten here and in IntrEntry.
Fetch ==
  /\ kicked /\ seen # availIdx
  /\ inflight' = inflight \cup {avail[seen % NUM]}
  /\ avail' = [avail EXCEPT ![seen % NUM] = 0]
  /\ seen' = (seen + 1) % U16
  /\ UNCHANGED <<driver, availIdx, used, usedIdx, used_idx, irq, status, kicked,
                 performed, procs, intr, panicked>>

GoIdle ==
  /\ kicked /\ seen = availIdx
  /\ kicked' = FALSE
  /\ UNCHANGED <<driver, rings, used_idx, irq, status, seen, inflight, performed,
                 procs, intr, panicked>>

\* The device does what chain h says, and writes the status.
Perform(h) ==
  /\ h \in inflight /\ status[h] = 255
  /\ status' = [status EXCEPT ![h] = 0]
  /\ performed' = [performed EXCEPT ![info[h]] = @ + 1]
  /\ UNCHANGED <<driver, rings, used_idx, irq, kicked, seen, inflight, procs, intr,
                 panicked>>

\* The used ring gets the chain, and the driver an interrupt.
Finish(h) ==
  /\ h \in inflight /\ status[h] = 0
  /\ inflight' = inflight \ {h}
  /\ used' = [used EXCEPT ![usedIdx % NUM] = h]
  /\ usedIdx' = (usedIdx + 1) % U16
  /\ irq' = TRUE
  /\ UNCHANGED <<driver, avail, availIdx, used_idx, status, kicked, seen,
                 performed, procs, intr, panicked>>

-----------------------------------------------------------------------------
(* virtio_disk_intr() *)

\* It acknowledges the interrupt, so that what finishes from now on raises
\* another one ...
IntrAck ==
  /\ irq /\ Unlocked
  /\ irq' = FALSE
  /\ intr' = TRUE
  /\ UNCHANGED <<driver, rings, used_idx, device, procs, panicked>>

\* ... takes the entries of the used ring ...
IntrEntry ==
  LET id == used[used_idx % NUM]
      p == info[id]
  IN
  /\ intr /\ ~panicked /\ used_idx # usedIdx
  /\ panicked' = (status[id] # 0 \/ p = NoProc)
  /\ busy' = [q \in Process |-> IF q = p THEN FALSE ELSE busy[q]]
  /\ asleep' = asleep \ {q \in Process : q = p /\ pc[q] = "wait"}
  /\ used' = [used EXCEPT ![used_idx % NUM] = 0]
  /\ used_idx' = (used_idx + 1) % U16
  /\ UNCHANGED <<driver, avail, availIdx, usedIdx, irq, device, pc, head, intr>>

\* Mutant of IntrEnd: one interrupt, one entry.
IntrEndEarly ==
  /\ intr /\ ~panicked
  /\ intr' = FALSE
  /\ UNCHANGED <<driver, rings, used_idx, irq, device, procs, panicked>>

\* ... until it has seen them all.
IntrEnd ==
  /\ intr /\ ~panicked /\ used_idx = usedIdx
  /\ intr' = FALSE
  /\ UNCHANGED <<driver, rings, used_idx, irq, device, procs, panicked>>

ProcStep(p) ==
  \/ AllocFails(p) \/ Submit(p) \/ PutIdx(p) \/ Notify(p) \/ SleepOnBuf(p)
  \/ Return(p)

Device == Fetch \/ GoIdle \/ \E h \in Desc : Perform(h) \/ Finish(h)

Interrupt == IntrAck \/ IntrEntry \/ IntrEnd

Next == (\E p \in Process : Call(p) \/ ProcStep(p)) \/ Device \/ Interrupt

\* The device works on what it has, interrupts are served, and a process in the
\* driver goes on; vdisk_lock is got by whoever finds it free again and again.
Fairness ==
  /\ \A p \in Process : SF_vars(ProcStep(p))
  /\ \A h \in Desc : WF_vars(Perform(h) \/ Finish(h))
  /\ WF_vars(Fetch \/ GoIdle)
  /\ SF_vars(Interrupt)

Spec == Init /\ [][Next]_vars
LiveSpec == Spec /\ Fairness

-----------------------------------------------------------------------------
(* Properties *)

\* Every descriptor is free or in the chain of one request, so that none is
\* lost or used for two: free_desc() never frees twice, and the handler never
\* meets a request that is not finished.  Nobody sleeps on disk.free[0] while
\* there are descriptors for a request, and virtio_disk_rw() gives a buffer back
\* only when the device is done with it.  All values have their types.
DescriptorsOwned ==
  LET owners == {p \in Process : head[p] # NoDesc} IN
  /\ TypeOK /\ ~panicked
  /\ \A p \in owners : Cardinality(Chain(head[p])) = 3 /\ Chain(head[p]) \cap free = {}
  /\ \A p, q \in owners : p # q => Chain(head[p]) \cap Chain(head[q]) = {}
  /\ Cardinality(free) + 3 * Cardinality(owners) = NUM
  /\ AwaitsDescs # {} => Cardinality(free) < 3
  /\ \A p \in Process : pc[p] = "wait" /\ ~busy[p] => performed[p] = 1

\* A request that was submitted returns: no interrupt and no wakeup is lost,
\* however the device's completions interleave with the handler.
RequestsReturn == \A p \in Process : pc[p] = "idx" ~> pc[p] = "idle"
=============================================================================
