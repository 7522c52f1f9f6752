-------------------------------- MODULE Pipe --------------------------------
(***************************************************************************)
(* kernel/pipe.c: one pipe, the processes that hold its two ends, and      *)
(* kill() at any moment.  pi->lock is explicit, because kill() does not    *)
(* need it: each iteration of a loop is a step.  sleep() releases the lock *)
(* and blocks in one step, wakeup() makes every sleeper of the channel     *)
(* runnable, as in Proc.  nread and nwrite wrap like the uints they are.   *)
(***************************************************************************)
EXTENDS Naturals, FiniteSets

CONSTANTS Proc,
          NoProc,    \* pi->lock is free
          PIPESIZE,
          UINT,      \* number of values of a uint (2^32)
          Byte,
          Count      \* numbers of bytes that calls ask for

ASSUME PipeAssumption ==
  /\ NoProc \notin Proc
  /\ PIPESIZE \in Nat \ {0} /\ UINT \in Nat /\ Count \subseteq Nat
  /\ UINT % PIPESIZE = 0 /\ UINT > PIPESIZE

VARIABLES nread, nwrite, data, readopen, writeopen,   \* struct pipe
          lock,      \* process that holds pi->lock
          frees,     \* how often kfree(pi) was called
          rfd, wfd,  \* processes with a descriptor of each end
          killed,    \* p->killed
          pc,        \* where each process is
          n, i,      \* bytes asked for, bytes done
          unannounced \* auxiliary: bytes were written since the last wakeup
                      \* of the readers and their writer has returned

pipe == <<nread, nwrite, data, readopen, writeopen>>
fds == <<rfd, wfd>>
vars == <<pipe, lock, frees, fds, killed, pc, n, i, unannounced>>

TypeOK ==
  /\ nread \in 0 .. UINT - 1 /\ nwrite \in 0 .. UINT - 1
  /\ data \in [0 .. PIPESIZE - 1 -> Byte]
  /\ readopen \in BOOLEAN /\ writeopen \in BOOLEAN
  /\ lock \in Proc \cup {NoProc}
  /\ frees \in Nat
  /\ rfd \subseteq Proc /\ wfd \subseteq Proc
  /\ killed \in [Proc -> BOOLEAN]
  /\ pc \in [Proc -> {"user", "wlock", "write", "wsleep", "rlock", "rwait",
                      "rsleep", "rcopy", "closer", "closew", "kfree"}]
  /\ n \in [Proc -> Count \cup {0}]
  /\ i \in [Proc -> Nat] /\ \A p \in Proc : i[p] <= n[p]
  /\ unannounced \in BOOLEAN

\* pipealloc() has succeeded and fork() has spread the descriptors.
Init ==
  /\ nread = 0 /\ nwrite = 0
  /\ data \in {[k \in 0 .. PIPESIZE - 1 |-> b] : b \in Byte}
  /\ readopen = TRUE /\ writeopen = TRUE
  /\ lock = NoProc
  /\ frees = 0
  /\ rfd \in SUBSET Proc \ {{}} /\ wfd \in SUBSET Proc \ {{}}
  /\ killed = [p \in Proc |-> FALSE]
  /\ pc = [p \in Proc |-> "user"]
  /\ n = [p \in Proc |-> 0]
  /\ i = [p \in Proc |-> 0]
  /\ unannounced = FALSE

-----------------------------------------------------------------------------

\* p moves on; wakeup(): the sleepers of the channels ch, which stand at
\* the same-named control points, go back for the lock.
Goto(p, point, ch) ==
  pc' = [q \in Proc |-> CASE q = p -> point
                          [] q # p /\ pc[q] = "rsleep" /\ "rsleep" \in ch -> "rlock"
                          [] q # p /\ pc[q] = "wsleep" /\ "wsleep" \in ch -> "wlock"
                          [] OTHER -> pc[q]]

\* The call of p returns; its locals are gone.
Return(p, ch) ==
  /\ lock' = NoProc
  /\ n' = [n EXCEPT ![p] = 0]
  /\ i' = [i EXCEPT ![p] = 0]
  /\ Goto(p, "user", ch)

Full == nwrite = (nread + PIPESIZE) % UINT

\* write() and read(): a killed process does not start a system call.
Write(p, k) ==
  /\ pc[p] = "user" /\ p \in wfd /\ ~killed[p]
  /\ n' = [n EXCEPT ![p] = k]
  /\ i' = [i EXCEPT ![p] = 0]
  /\ Goto(p, "wlock", {})
  /\ UNCHANGED <<pipe, lock, frees, fds, killed, unannounced>>

Read(p, k) ==
  /\ pc[p] = "user" /\ p \in rfd /\ ~killed[p]
  /\ n' = [n EXCEPT ![p] = k]
  /\ i' = [i EXCEPT ![p] = 0]
  /\ Goto(p, "rlock", {})
  /\ UNCHANGED <<pipe, lock, frees, fds, killed, unannounced>>

\* acquire(&pi->lock), at the start of a call or at the end of sleep().
Lock(p) ==
  /\ lock = NoProc
  /\ \/ pc[p] = "wlock" /\ Goto(p, "write", {})
     \/ pc[p] = "rlock" /\ Goto(p, "rwait", {})
  /\ lock' = p
  /\ UNCHANGED <<pipe, frees, fds, killed, n, i, unannounced>>

\* pipewrite(): no reader is left or the process was killed: -1.
WriteFails(p) ==
  /\ pc[p] = "write" /\ i[p] < n[p]
  /\ ~readopen \/ killed[p]
  /\ Return(p, {})
  /\ unannounced' = (unannounced \/ i[p] > 0)
  /\ UNCHANGED <<pipe, frees, fds, killed>>

\* Mutant of WriteFull: the readers are not woken before the writer sleeps.
WriteFullQuiet(p) ==
  /\ pc[p] = "write" /\ i[p] < n[p] /\ readopen /\ ~killed[p]
  /\ Full
  /\ lock' = NoProc
  /\ Goto(p, "wsleep", {})
  /\ UNCHANGED <<pipe, frees, fds, killed, n, i, unannounced>>

\* kill() does not take pi->lock: it may come after p has called killed() and
\* before sleep(), and does not keep p awake.
KilledTooLate(p) == killed' \in {killed, [killed EXCEPT ![p] = TRUE]}

\* pipewrite(): the buffer is full; wake the readers and sleep.
WriteFull(p) ==
  /\ pc[p] = "write" /\ i[p] < n[p] /\ readopen /\ ~killed[p]
  /\ Full
  /\ lock' = NoProc
  /\ unannounced' = FALSE
  /\ KilledTooLate(p)
  /\ Goto(p, "wsleep", {"rsleep"})
  /\ UNCHANGED <<pipe, frees, fds, n, i>>

\* Mutant of WriteByte: the test for a full buffer forgets that nread wraps.
WriteByteNoWrap(p, b) ==
  /\ pc[p] = "write" /\ i[p] < n[p] /\ readopen /\ ~killed[p]
  /\ nwrite # nread + PIPESIZE
  /\ data' = [data EXCEPT ![nwrite % PIPESIZE] = b]
  /\ nwrite' = (nwrite + 1) % UINT
  /\ i' = [i EXCEPT ![p] = @ + 1]
  /\ UNCHANGED <<nread, readopen, writeopen, lock, frees, fds, killed, pc, n,
                 unannounced>>

\* pipewrite(): copyin() one byte into the buffer.
WriteByte(p, b) ==
  /\ pc[p] = "write" /\ i[p] < n[p] /\ readopen /\ ~killed[p]
  /\ ~Full
  /\ data' = [data EXCEPT ![nwrite % PIPESIZE] = b]
  /\ nwrite' = (nwrite + 1) % UINT
  /\ i' = [i EXCEPT ![p] = @ + 1]
  /\ UNCHANGED <<nread, readopen, writeopen, lock, frees, fds, killed, pc, n,
                 unannounced>>

\* pipewrite(): all is written, or copyin() fails on the next byte.
WriteDone(p) ==
  /\ pc[p] = "write"
  /\ i[p] = n[p] \/ (readopen /\ ~killed[p] /\ ~Full)
  /\ Return(p, {"rsleep"})
  /\ unannounced' = FALSE
  /\ UNCHANGED <<pipe, frees, fds, killed>>

Empty == nread = nwrite

\* piperead(): nothing to read yet; a killed process returns -1 ...
ReadKilled(p) ==
  /\ pc[p] = "rwait" /\ Empty /\ writeopen
  /\ killed[p]
  /\ Return(p, {})
  /\ UNCHANGED <<pipe, frees, fds, killed, unannounced>>

\* ... any other sleeps.
ReadSleep(p) ==
  /\ pc[p] = "rwait" /\ Empty /\ writeopen
  /\ ~killed[p]
  /\ KilledTooLate(p)
  /\ Goto(p, "rsleep", {})
  /\ lock' = NoProc
  /\ UNCHANGED <<pipe, frees, fds, n, i, unannounced>>

ReadReady(p) ==
  /\ pc[p] = "rwait" /\ ~(Empty /\ writeopen)
  /\ Goto(p, "rcopy", {})
  /\ UNCHANGED <<pipe, lock, frees, fds, killed, n, i, unannounced>>

\* piperead(): one byte out of the buffer, and copyout() succeeds.
ReadByte(p) ==
  /\ pc[p] = "rcopy" /\ i[p] < n[p] /\ ~Empty
  /\ nread' = (nread + 1) % UINT
  /\ i' = [i EXCEPT ![p] = @ + 1]
  /\ UNCHANGED <<nwrite, data, readopen, writeopen, lock, frees, fds, killed,
                 pc, n, unannounced>>

\* piperead(): enough or no more bytes; or one is taken and its copyout()
\* fails.
ReadDone(p) ==
  /\ pc[p] = "rcopy"
  /\ \/ (i[p] = n[p] \/ Empty) /\ UNCHANGED nread
     \/ i[p] < n[p] /\ ~Empty /\ nread' = (nread + 1) % UINT
  /\ Return(p, {"wsleep"})
  /\ UNCHANGED <<nwrite, data, readopen, writeopen, frees, fds, killed,
                 unannounced>>

\* fileclose(): p gives up its descriptor of an end; the last one goes on
\* to pipeclose().
CloseRead(p) ==
  /\ pc[p] = "user" /\ p \in rfd
  /\ rfd' = rfd \ {p}
  /\ Goto(p, IF rfd = {p} THEN "closer" ELSE "user", {})
  /\ UNCHANGED <<pipe, lock, frees, wfd, killed, n, i, unannounced>>

CloseWrite(p) ==
  /\ pc[p] = "user" /\ p \in wfd
  /\ wfd' = wfd \ {p}
  /\ Goto(p, IF wfd = {p} THEN "closew" ELSE "user", {})
  /\ UNCHANGED <<pipe, lock, frees, rfd, killed, n, i, unannounced>>

\* Mutant of PipeClose: the page is freed when either end is closed.
PipeCloseEither(p) ==
  /\ lock = NoProc
  /\ \/ /\ pc[p] = "closew"
        /\ writeopen' = FALSE
        /\ UNCHANGED readopen
        /\ unannounced' = FALSE
        /\ Goto(p, "kfree", {"rsleep"})
     \/ /\ pc[p] = "closer"
        /\ readopen' = FALSE
        /\ UNCHANGED <<writeopen, unannounced>>
        /\ Goto(p, IF writeopen THEN "user" ELSE "kfree", {"wsleep"})
  /\ UNCHANGED <<nread, nwrite, data, lock, frees, fds, killed, n, i>>

\* pipeclose(), its critical section.
PipeClose(p) ==
  /\ lock = NoProc
  /\ \/ /\ pc[p] = "closew"
        /\ writeopen' = FALSE
        /\ UNCHANGED readopen
        /\ unannounced' = FALSE
        /\ Goto(p, IF readopen THEN "user" ELSE "kfree", {"rsleep"})
     \/ /\ pc[p] = "closer"
        /\ readopen' = FALSE
        /\ UNCHANGED <<writeopen, unannounced>>
        /\ Goto(p, IF writeopen THEN "user" ELSE "kfree", {"wsleep"})
  /\ UNCHANGED <<nread, nwrite, data, lock, frees, fds, killed, n, i>>

\* pipeclose(): kfree(pi), outside the lock.
FreePipe(p) ==
  /\ pc[p] = "kfree"
  /\ frees' = frees + 1
  /\ Goto(p, "user", {})
  /\ UNCHANGED <<pipe, lock, fds, killed, n, i, unannounced>>

\* kill(p): a sleeper becomes runnable.
Kill(p) ==
  /\ ~killed[p]
  /\ killed' = [killed EXCEPT ![p] = TRUE]
  /\ pc' = [pc EXCEPT ![p] = CASE @ = "rsleep" -> "rlock"
                               [] @ = "wsleep" -> "wlock"
                               [] OTHER -> @]
  /\ UNCHANGED <<pipe, lock, frees, fds, n, i, unannounced>>

\* What a process does inside the kernel without waiting for others.
Running(p) ==
  \/ WriteFails(p) \/ WriteFull(p) \/ (\E b \in Byte : WriteByte(p, b))
  \/ WriteDone(p)
  \/ ReadKilled(p) \/ ReadSleep(p) \/ ReadReady(p) \/ ReadByte(p) \/ ReadDone(p)
  \/ FreePipe(p)

Reads(p) == \E k \in Count : Read(p, k)
Writes(p) == \E k \in Count : Write(p, k)
Closes(p) == CloseRead(p) \/ CloseWrite(p)

Next ==
  \E p \in Proc : \/ Running(p) \/ Lock(p) \/ PipeClose(p)
                  \/ Reads(p) \/ Writes(p) \/ Closes(p) \/ Kill(p)

Spec == Init /\ [][Next]_vars

-----------------------------------------------------------------------------
(* Properties *)

\* The bytes between nread and nwrite, oldest first.
Buffered ==
  [k \in 1 .. (nwrite + UINT - nread) % UINT |->
     data[(nread + k - 1) % PIPESIZE]]

Promise == INSTANCE Fifo WITH
             Capacity <- PIPESIZE, queue <- Buffered,
             ropen <- readopen, wopen <- writeopen

\* Readers and writers in any interleaving, with kills, closes and counters
\* that wrap, implement a bounded FIFO.
IsFifo == Promise!Spec

\* All values have their types; the page is freed at most once, and with no
\* process left that has a descriptor or is inside pipe.c.
FreedOnce ==
  /\ TypeOK
  /\ frees + Cardinality({p \in Proc : pc[p] = "kfree"}) <= 1
  /\ (frees = 1 \/ \E p \in Proc : pc[p] = "kfree") =>
       /\ rfd = {} /\ wfd = {} /\ lock = NoProc
       /\ \A p \in Proc : pc[p] \in {"user", "kfree"}

\* No wakeup is missed.  A reader that sleeps in piperead() has nothing to read
\* and a writer to wait for, or a writer is at work that will wake it, or a
\* killed writer left its bytes and skipped the wakeup() of pipewrite().  A
\* writer that sleeps faces a full buffer and a reader, or the reader that made
\* room is about to wake it.
SleepersBlocked ==
  \A p \in Proc :
    /\ pc[p] = "rsleep" =>
         /\ writeopen
         /\ \/ Empty \/ unannounced
            \/ \E q \in Proc : pc[q] = "write" /\ i[q] > 0
    /\ pc[p] = "wsleep" =>
         /\ readopen
         /\ Full \/ \E q \in Proc : pc[q] = "rcopy"
=============================================================================
