-------------------------------- MODULE Log --------------------------------
(***************************************************************************)
(* kernel/log.c: the redo log that makes file-system calls atomic, with    *)
(* the part of the buffer cache it relies on (a pinned buffer stays in     *)
(* memory, any other may be dropped and read again from the disk), crashes *)
(* at every point and recovery, itself interrupted by crashes.             *)
(*                                                                         *)
(* A critical section of log.lock is one step.  Outside it, each bwrite()  *)
(* (one block, atomic) is one step, so a crash falls between any two.      *)
(* A panic stops the machine; the reboot that follows is a Crash.          *)
(***************************************************************************)
EXTENDS Naturals, Sequences, FiniteSets, Functions

CONSTANTS Op,           \* threads executing file-system calls
          Block,        \* home blocks, outside the log area
          Val,          \* block contents
          NoBuf,        \* a block that is not in the buffer cache
          MAXOPBLOCKS,  \* param.h
          LOGSIZE,      \* param.h
          NLog          \* sb.nlog, the blocks mkfs gives the log

ASSUME LogAssumption ==
  /\ NoBuf \notin Val
  /\ MAXOPBLOCKS \in Nat \ {0}
  /\ LOGSIZE \in Nat
  /\ NLog \in Nat \ {0}
  /\ IsFiniteSet(Op)

VARIABLES home,         \* disk: the home locations
          dlog,         \* disk: the log's data blocks
          dhead,        \* disk: block[0..n-1] of the header block
          buf,          \* the buffer cache, home blocks only
          pin,          \* blocks pinned by bpin()
          lh,           \* log.lh: block[0..n-1]
          outstanding,  \* log.outstanding
          committing,   \* log.committing
          pc,           \* where each system call is
          wrote,        \* blocks each system call has modified
          phase,        \* where commit() or recover_from_log() is
          tail          \* blocks its loop has handled

disk == <<home, dlog, dhead>>
vars == <<home, dlog, dhead, buf, pin, lh, outstanding, committing, pc,
          wrote, phase, tail>>

Slot == 1 .. (NLog - 1)     \* the log's data blocks

\* "up": no commit is running.  "boot", "replay", "erase": recovery.
Recovering == phase \in {"boot", "replay", "erase"}
Up == ~Recovering /\ phase # "panic"

TypeOK ==
  /\ home \in [Block -> Val]
  /\ dlog \in [Slot -> Val]
  /\ dhead \in Seq(Block)
  /\ buf \in [Block -> Val \cup {NoBuf}]
  /\ pin \subseteq Block
  /\ lh \in Seq(Block)
  /\ outstanding \in Nat
  /\ committing \in BOOLEAN
  /\ pc \in [Op -> {"idle", "begin", "sleep", "active", "commit"}]
  /\ wrote \in [Op -> SUBSET Block]
  /\ phase \in {"up", "write_log", "write_head", "install", "clear",
                "finish", "boot", "replay", "erase", "panic"}
  /\ tail \in Nat

\* The contents bread() returns.
Bread(b) == IF buf[b] = NoBuf THEN home[b] ELSE buf[b]

\* A freshly made file system, before the boot that calls initlog().
Init ==
  /\ home \in [Block -> Val]
  /\ \E v \in Val : dlog = [i \in Slot |-> v]
  /\ dhead = <<>>
  /\ buf = [b \in Block |-> NoBuf]
  /\ pin = {}
  /\ lh = <<>>
  /\ outstanding = 0
  /\ committing = FALSE
  /\ pc = [o \in Op |-> "idle"]
  /\ wrote = [o \in Op |-> {}]
  /\ phase = "boot"
  /\ tail = 0

-----------------------------------------------------------------------------
(* System calls *)

Call(o) ==
  /\ Up
  /\ pc[o] = "idle"
  /\ pc' = [pc EXCEPT ![o] = "begin"]
  /\ UNCHANGED <<disk, buf, pin, lh, outstanding, committing, wrote, phase,
                 tail>>

\* begin_op()'s loop lets the caller in.
Admits ==
  /\ ~committing
  /\ Len(lh) + (outstanding + 1) * MAXOPBLOCKS <= LOGSIZE

\* One iteration of begin_op()'s loop: in, or to sleep on &log.
BeginOp(o) ==
  /\ Up
  /\ pc[o] = "begin"
  /\ pc' = [pc EXCEPT ![o] = IF Admits THEN "active" ELSE "sleep"]
  /\ outstanding' = IF Admits THEN outstanding + 1 ELSE outstanding
  /\ wrote' = [wrote EXCEPT ![o] = {}]
  /\ UNCHANGED <<disk, buf, pin, lh, committing, phase, tail>>

\* The first panic of log_write().
TooBig == Len(lh) >= LOGSIZE \/ Len(lh) >= NLog - 1

\* Mutant of Absorbed: every write takes a new log block.
NeverAbsorbed(b) == FALSE

\* log_write() finds the block in the transaction already.
Absorbed(b) == b \in Range(lh)

\* bpin(), called by log_write().
Bpin(b) == pin \cup {b}

\* bread(), a change to b->data, log_write(), brelse().  Absorption keeps a
\* block once in lh.  An operation changes at most MAXOPBLOCKS blocks.
LogWrite(o, b, v) ==
  /\ Up
  /\ pc[o] = "active"
  /\ Cardinality(wrote[o] \cup {b}) <= MAXOPBLOCKS
  /\ IF TooBig
     THEN /\ phase' = "panic"
          /\ UNCHANGED <<buf, pin, lh, wrote>>
     ELSE /\ buf' = [buf EXCEPT ![b] = v]
          /\ wrote' = [wrote EXCEPT ![o] = @ \cup {b}]
          /\ IF Absorbed(b)
             THEN UNCHANGED <<lh, pin>>
             ELSE lh' = Append(lh, b) /\ pin' = Bpin(b)
          /\ UNCHANGED phase
  /\ UNCHANGED <<disk, outstanding, committing, pc, tail>>

\* wakeup(&log)
Wakeup(f) == [o \in Op |-> IF f[o] = "sleep" THEN "begin" ELSE f[o]]

\* end_op() up to the release of log.lock.
EndOp(o) ==
  LET last == outstanding = 1
      moved == [pc EXCEPT ![o] = IF last THEN "commit" ELSE "idle"]
  IN
  /\ Up
  /\ pc[o] = "active"
  /\ outstanding' = outstanding - 1
  /\ IF last
     THEN /\ committing' = TRUE
          /\ pc' = moved
          /\ phase' = IF lh = <<>> THEN "finish" ELSE "write_log"
          /\ tail' = 0
     ELSE /\ pc' = Wakeup(moved)
          /\ UNCHANGED <<committing, phase, tail>>
  /\ UNCHANGED <<disk, buf, pin, lh, wrote>>

-----------------------------------------------------------------------------
(* commit(), run by the last end_op() without log.lock *)

\* One iteration of write_log(): the cached block goes to the log.
WriteLog ==
  /\ phase = "write_log"
  /\ tail' = tail + 1
  /\ dlog' = [dlog EXCEPT ![tail + 1] = Bread(lh[tail + 1])]
  /\ buf' = [buf EXCEPT ![lh[tail + 1]] = Bread(lh[tail + 1])]
  /\ phase' = IF tail + 1 = Len(lh) THEN "write_head" ELSE phase
  /\ UNCHANGED <<home, dhead, pin, lh, outstanding, committing, pc, wrote>>

\* Mutant of WriteHead: the home locations are installed without a header.
SkipHead ==
  /\ phase = "write_head"
  /\ phase' = "install"
  /\ tail' = 0
  /\ UNCHANGED <<disk, buf, pin, lh, outstanding, committing, pc, wrote>>

\* write_head(): the commit point.
WriteHead ==
  /\ phase = "write_head"
  /\ dhead' = lh
  /\ phase' = "install"
  /\ tail' = 0
  /\ UNCHANGED <<home, dlog, buf, pin, lh, outstanding, committing, pc,
                 wrote>>

\* One iteration of install_trans(): log block to home location.
InstallTrans ==
  LET b == lh[tail + 1] IN
  /\ home' = [home EXCEPT ![b] = dlog[tail + 1]]
  /\ buf' = [buf EXCEPT ![b] = dlog[tail + 1]]
  /\ tail' = tail + 1
  /\ UNCHANGED <<dlog, dhead, lh, outstanding, committing, pc, wrote>>

Install ==
  /\ phase = "install"
  /\ InstallTrans
  /\ pin' = pin \ {lh[tail + 1]}      \* bunpin()
  /\ phase' = IF tail + 1 = Len(lh) THEN "clear" ELSE phase

\* lh.n = 0 and the write_head() that erases the transaction.
Clear ==
  /\ phase = "clear"
  /\ lh' = <<>>
  /\ dhead' = <<>>
  /\ phase' = "finish"
  /\ UNCHANGED <<home, dlog, buf, pin, outstanding, committing, pc, wrote,
                 tail>>

\* Mutant of Finish: the wakeup after the commit is forgotten.
FinishWithoutWakeup ==
  /\ phase = "finish"
  /\ committing' = FALSE
  /\ phase' = "up"
  /\ pc' = [o \in Op |-> IF pc[o] = "commit" THEN "idle" ELSE pc[o]]
  /\ UNCHANGED <<disk, buf, pin, lh, outstanding, wrote, tail>>

\* The rest of end_op(): committing = 0, wakeup(&log).
Finish ==
  /\ phase = "finish"
  /\ committing' = FALSE
  /\ phase' = "up"
  /\ pc' = Wakeup([o \in Op |-> IF pc[o] = "commit" THEN "idle" ELSE pc[o]])
  /\ UNCHANGED <<disk, buf, pin, lh, outstanding, wrote, tail>>

-----------------------------------------------------------------------------
(* The buffer cache, crashes and recovery *)

\* bget() recycles the buffer of an unpinned block.
Evict(b) ==
  /\ phase # "panic"
  /\ buf[b] # NoBuf
  /\ b \notin pin
  /\ buf' = [buf EXCEPT ![b] = NoBuf]
  /\ UNCHANGED <<disk, pin, lh, outstanding, committing, pc, wrote, phase,
                 tail>>

\* Power fails, or the machine is reset after a panic: memory is lost.
Crash ==
  /\ buf' = [b \in Block |-> NoBuf]
  /\ pin' = {}
  /\ lh' = <<>>
  /\ outstanding' = 0
  /\ committing' = FALSE
  /\ pc' = [o \in Op |-> "idle"]
  /\ wrote' = [o \in Op |-> {}]
  /\ phase' = "boot"
  /\ tail' = 0
  /\ UNCHANGED disk

\* initlog(): read_head().
ReadHead ==
  /\ phase = "boot"
  /\ lh' = dhead
  /\ phase' = IF dhead = <<>> THEN "erase" ELSE "replay"
  /\ tail' = 0
  /\ UNCHANGED <<disk, buf, pin, outstanding, committing, pc, wrote>>

\* install_trans(1): nothing to unpin.
Replay ==
  /\ phase = "replay"
  /\ InstallTrans
  /\ phase' = IF tail + 1 = Len(lh) THEN "erase" ELSE phase
  /\ UNCHANGED pin

\* lh.n = 0; write_head().
Erase ==
  /\ phase = "erase"
  /\ lh' = <<>>
  /\ dhead' = <<>>
  /\ phase' = "up"
  /\ UNCHANGED <<home, dlog, buf, pin, outstanding, committing, pc, wrote,
                 tail>>

CommitStep == WriteLog \/ WriteHead \/ Install \/ Clear \/ Finish
RecoveryStep == ReadHead \/ Replay \/ Erase

Next ==
  \/ \E o \in Op : Call(o) \/ BeginOp(o) \/ EndOp(o)
  \/ \E o \in Op, b \in Block, v \in Val : LogWrite(o, b, v)
  \/ CommitStep
  \/ RecoveryStep
  \/ \E b \in Block : Evict(b)
  \/ Crash

Spec == Init /\ [][Next]_vars

\* Threads keep running: one inside a system call reaches its end_op(), and a
\* commit or a recovery, which waits for nothing, is carried through.
Fairness ==
  /\ \A o \in Op : WF_vars(BeginOp(o)) /\ WF_vars(EndOp(o))
  /\ WF_vars(CommitStep)
  /\ WF_vars(RecoveryStep)

FairSpec == Spec /\ Fairness

-----------------------------------------------------------------------------
(* Properties *)

\* What recovery would make of the disk as it is now.
Recovered ==
  [b \in Block |-> IF \E i \in DOMAIN dhead : dhead[i] = b
                  THEN dlog[CHOOSE i \in DOMAIN dhead : dhead[i] = b]
                  ELSE home[b]]

\* What readers see.  A machine that is not up has no readers; its contents
\* are those it will come up with.
Contents == IF Up THEN [b \in Block |-> Bread(b)] ELSE Recovered

Atomic == INSTANCE AtomicDisk WITH
            current <- Contents,
            durable <- Recovered,
            active <- {o \in Op : Up /\ pc[o] = "active"}

\* Crash atomicity: log.c implements the atomic disk.  Whatever the moment of
\* the crash, in a commit or in a recovery, the disk recovers to the state of
\* the last commit, which holds whole system calls only, and no step other
\* than the write of the header changes what would be recovered.
CrashAtomic == Atomic!Spec

\* All values have their types; the in-memory header names each block once
\* and never more blocks than the log has room for on the disk, so
\* write_log() stays inside the log area.  When the last end_op() has returned,
\* every update is on the disk: with no system call active and no commit
\* running, a crash would lose nothing.
LogFits ==
  /\ TypeOK
  /\ Len(lh) <= NLog - 1
  /\ \A i, j \in DOMAIN lh : lh[i] = lh[j] => i = j
  /\ phase = "up" /\ outstanding = 0 => Contents = Recovered

\* begin_op()'s sleep ends unless the machine panics: the wakeups of end_op()
\* are enough.
SleepersWake ==
  \A o \in Op : pc[o] = "sleep" ~> pc[o] # "sleep" \/ phase = "panic"

\* param.h gives the log LOGSIZE data blocks, and begin_op() admits as many
\* operations of MAXOPBLOCKS blocks as fit: none of them should ever find the
\* transaction too big.
ReservationSuffices == phase # "panic"
=============================================================================
