------------------------------ MODULE BufCache ------------------------------
(***************************************************************************)
(* The buffer cache (kernel/bio.c) and its sleep locks                     *)
(* (kernel/sleeplock.c).  Processes read blocks, change them under the     *)
(* buffer's lock, and write them or pin them as log_write() does; what is  *)
(* pinned is written and unpinned later, as install_trans() does.  One     *)
(* step per hold of bcache.lock or of a sleep lock's spinlock.             *)
(***************************************************************************)
EXTENDS Integers, FiniteSets, FiniteSetsExt, Functions

CONSTANTS Process, NoProc,
          Buf, NoBuf,
          Block, NoBlock,
          Value, InitialValue,
          MaxPinned        \* bound: blocks pinned at a time, the log's size

ASSUME BufCacheAssumption ==
  /\ NoProc \notin Process /\ NoBlock \notin Block /\ NoBuf \notin Buf
  /\ InitialValue \in Value /\ MaxPinned \in Nat
  /\ IsFiniteSet(Buf) /\ IsFiniteSet(Process)
  /\ Cardinality(Buf) >= Cardinality(Process) + MaxPinned

VARIABLES lru,                             \* the list from head.next on
          blockno, refcnt, valid, data,    \* struct buf
          lockpid, asleep,                  \* b->lock, and who sleeps on one
          disk,
          bpc, buf,                         \* of each process, and its b
          dirty,                           \* changed and neither written nor pinned
          pinned,                          \* blocks in the log
          panicked                         \* "bget: no buffers"

bufs == <<lru, blockno, refcnt, valid, data>>
locks == <<lockpid, asleep>>
bufvars == <<bufs, locks, disk, bpc, buf, dirty, pinned, panicked>>

BufTypeOK ==
  /\ lru \in Bijection(1 .. Cardinality(Buf), Buf)
  /\ blockno \in [Buf -> Block \cup {NoBlock}]
  /\ refcnt \in [Buf -> 0 .. Cardinality(Process) + 1]
  /\ valid \in [Buf -> BOOLEAN]
  /\ data \in [Buf -> Value]
  /\ lockpid \in [Buf -> Process \cup {NoProc}]
  /\ asleep \subseteq Process
  /\ disk \in [Block -> Value]
  /\ bpc \in [Process -> {"idle", "lock", "check", "io", "use", "unref"}]
  /\ buf \in [Process -> Buf \cup {NoBuf}]
  /\ dirty \subseteq Process
  /\ pinned \subseteq Block
  /\ panicked \in BOOLEAN

\* binit(): every buffer is unused, of device 0.
BufInit ==
  /\ lru = CHOOSE list \in Bijection(1 .. Cardinality(Buf), Buf) : TRUE
  /\ blockno = [b \in Buf |-> NoBlock]
  /\ refcnt = [b \in Buf |-> 0]
  /\ valid = [b \in Buf |-> FALSE]
  /\ data = [b \in Buf |-> InitialValue]
  /\ lockpid = [b \in Buf |-> NoProc] /\ asleep = {}
  /\ disk = [k \in Block |-> InitialValue]
  /\ bpc = [p \in Process |-> "idle"]
  /\ buf = [p \in Process |-> NoBuf]
  /\ dirty = {} /\ pinned = {} /\ panicked = FALSE

-----------------------------------------------------------------------------

BufGoto(p, label) == bpc' = [bpc EXCEPT ![p] = label]

\* bget() finds block k cached.
BgetHit(p, k, b) ==
  /\ bpc[p] = "idle" /\ ~panicked
  /\ blockno[b] = k
  /\ refcnt' = [refcnt EXCEPT ![b] = @ + 1]
  /\ buf' = [buf EXCEPT ![p] = b]
  /\ BufGoto(p, "lock")
  /\ UNCHANGED <<lru, blockno, valid, data, locks, disk, dirty, pinned, panicked>>

\* Where unused buffers are in the list; the last is the least recently used.
Unused == {i \in DOMAIN lru : refcnt[lru[i]] = 0}

\* bget() gives the last of the unused buffers to block k.
Recycle(p, k, isValid, count) ==
  LET b == lru[Max(Unused)] IN
  /\ blockno' = [blockno EXCEPT ![b] = k]
  /\ valid' = [valid EXCEPT ![b] = isValid]
  /\ refcnt' = [refcnt EXCEPT ![b] = count]
  /\ buf' = [buf EXCEPT ![p] = b]
  /\ BufGoto(p, "lock")
  /\ UNCHANGED <<lru, data, locks, disk, dirty, pinned, panicked>>

\* panic("bget: no buffers")
Panic == panicked' = TRUE /\ UNCHANGED <<bufs, locks, disk, bpc, buf, dirty, pinned>>

Missing(p, k) ==
  /\ bpc[p] = "idle" /\ ~panicked
  /\ \A b \in Buf : blockno[b] # k

\* Mutant of BgetMiss: the contents are taken to be those of the new block.
BgetMissValid(p, k) ==
  /\ Missing(p, k)
  /\ IF Unused = {} THEN Panic ELSE Recycle(p, k, valid[lru[Max(Unused)]], 1)

\* bget() does not find k and recycles the least recently used buffer.
BgetMiss(p, k) ==
  /\ Missing(p, k)
  /\ IF Unused = {} THEN Panic ELSE Recycle(p, k, FALSE, 1)

\* acquiresleep(): sleep while the lock is held ...
SleepOnLock(p) ==
  /\ bpc[p] = "lock" /\ p \notin asleep
  /\ lockpid[buf[p]] # NoProc
  /\ asleep' = asleep \cup {p}
  /\ UNCHANGED <<bufs, lockpid, disk, bpc, buf, dirty, pinned, panicked>>

\* ... and take it.
TakeLock(p) ==
  /\ bpc[p] = "lock" /\ p \notin asleep
  /\ lockpid[buf[p]] = NoProc
  /\ lockpid' = [lockpid EXCEPT ![buf[p]] = p]
  /\ BufGoto(p, "check")
  /\ UNCHANGED <<bufs, asleep, disk, buf, dirty, pinned, panicked>>

\* bread() has the block already.
BreadCached(p) ==
  /\ bpc[p] = "check" /\ valid[buf[p]]
  /\ BufGoto(p, "use")
  /\ UNCHANGED <<bufs, locks, disk, buf, dirty, pinned, panicked>>

\* virtio_disk_rw(b, 0): the device fills the buffer ...
DiskRead(p) ==
  /\ bpc[p] = "check" /\ ~valid[buf[p]]
  /\ data' = [data EXCEPT ![buf[p]] = disk[blockno[buf[p]]]]
  /\ BufGoto(p, "io")
  /\ UNCHANGED <<lru, blockno, refcnt, valid, locks, disk, buf, dirty, pinned,
                 panicked>>

\* ... and bread() returns it.
BreadDone(p) ==
  /\ bpc[p] = "io"
  /\ valid' = [valid EXCEPT ![buf[p]] = TRUE]
  /\ BufGoto(p, "use")
  /\ UNCHANGED <<lru, blockno, refcnt, data, locks, disk, buf, dirty, pinned,
                 panicked>>

\* The file system changes the block; bwrite() or log_write() will follow.
Change(p, v) ==
  /\ bpc[p] = "use" /\ v # data[buf[p]]
  /\ data' = [data EXCEPT ![buf[p]] = v]
  /\ dirty' = dirty \cup {p}
  /\ UNCHANGED <<lru, blockno, refcnt, valid, locks, disk, bpc, buf, pinned,
                 panicked>>

\* bwrite(), and bunpin() of a block of the log.
Bwrite(p) ==
  LET b == buf[p] IN
  /\ bpc[p] = "use"
  /\ p \in dirty \/ blockno[b] \in pinned
  /\ disk' = [disk EXCEPT ![blockno[b]] = data[b]]
  /\ dirty' = dirty \ {p}
  /\ refcnt' = [refcnt EXCEPT ![b] = IF blockno[b] \in pinned THEN @ - 1 ELSE @]
  /\ pinned' = pinned \ {blockno[b]}
  /\ UNCHANGED <<lru, blockno, valid, data, locks, bpc, buf, panicked>>

\* log_write(): bpin() when the block is new to the log.
LogWrite(p) ==
  LET k == blockno[buf[p]] IN
  /\ bpc[p] = "use" /\ p \in dirty
  /\ k \in pinned \/ Cardinality(pinned) < MaxPinned
  /\ pinned' = pinned \cup {k}
  /\ refcnt' = [refcnt EXCEPT ![buf[p]] = IF k \in pinned THEN @ ELSE @ + 1]
  /\ dirty' = dirty \ {p}
  /\ UNCHANGED <<lru, blockno, valid, data, locks, disk, bpc, buf, panicked>>

\* brelse(): releasesleep() ...
Releasesleep(p) ==
  /\ bpc[p] = "use" /\ p \notin dirty
  /\ lockpid' = [lockpid EXCEPT ![buf[p]] = NoProc]
  /\ asleep' = {q \in asleep : buf[q] # buf[p]}
  /\ BufGoto(p, "unref")
  /\ UNCHANGED <<bufs, disk, buf, dirty, pinned, panicked>>

\* Buffer b moves behind the list's head.
ToFront(b) ==
  LET i == CHOOSE i \in DOMAIN lru : lru[i] = b IN
  [j \in DOMAIN lru |-> IF j = 1 THEN b ELSE IF j <= i THEN lru[j - 1] ELSE lru[j]]

\* Mutant of Brelse: the reference of a buffer that stays in use is kept.
BrelseKeeps(p) ==
  LET b == buf[p] IN
  /\ bpc[p] = "unref"
  /\ refcnt' = [refcnt EXCEPT ![b] = IF @ = 1 THEN 0 ELSE @]
  /\ lru' = IF refcnt[b] = 1 THEN ToFront(b) ELSE lru
  /\ BufGoto(p, "idle")
  /\ buf' = [buf EXCEPT ![p] = NoBuf]
  /\ UNCHANGED <<blockno, valid, data, locks, disk, dirty, pinned, panicked>>

\* ... and the reference is dropped; an unused buffer moves to the front.
Brelse(p) ==
  LET b == buf[p] IN
  /\ bpc[p] = "unref"
  /\ refcnt' = [refcnt EXCEPT ![b] = @ - 1]
  /\ lru' = IF refcnt[b] = 1 THEN ToFront(b) ELSE lru
  /\ BufGoto(p, "idle")
  /\ buf' = [buf EXCEPT ![p] = NoBuf]
  /\ UNCHANGED <<blockno, valid, data, locks, disk, dirty, pinned, panicked>>

Bget(p, k) == (\E b \in Buf : BgetHit(p, k, b)) \/ BgetMiss(p, k)

Bread(p) == SleepOnLock(p) \/ TakeLock(p) \/ BreadCached(p) \/ DiskRead(p) \/ BreadDone(p)

Use(p) == (\E v \in Value : Change(p, v)) \/ Bwrite(p) \/ LogWrite(p)

BufNext ==
  \E p \in Process :
    (\E k \in Block : Bget(p, k)) \/ Bread(p) \/ Use(p) \/ Releasesleep(p) \/ Brelse(p)

BufSpec == BufInit /\ [][BufNext]_bufvars

-----------------------------------------------------------------------------
(* Properties *)

Referers(b) == {p \in Process : buf[p] = b}

\* refcnt of bget(), brelse(), bpin() and bunpin() is exact: the processes that
\* have the buffer or wait for it, and the log.  With a buffer for each of them
\* panic("bget: no buffers") is unreachable.  Who sleeps in acquiresleep()
\* faces a lock that is held: no wakeup of releasesleep() is lost.  All values
\* have their types.
RefcntExact ==
  /\ BufTypeOK
  /\ ~panicked
  /\ \A b \in Buf : refcnt[b] = Cardinality(Referers(b))
                                + (IF blockno[b] \in pinned THEN 1 ELSE 0)
  /\ \A p \in asleep : lockpid[buf[p]] # NoProc

\* What the file system sees of a block: its buffer once it is read, or else
\* the disk.
Content ==
  [k \in Block |->
    IF \E b \in Buf : blockno[b] = k /\ valid[b]
    THEN data[CHOOSE b \in Buf : blockno[b] = k /\ valid[b]]
    ELSE disk[k]]

Owner ==
  [k \in Block |->
    IF \E p \in Process : bpc[p] = "use" /\ blockno[buf[p]] = k
    THEN CHOOSE p \in Process : bpc[p] = "use" /\ blockno[buf[p]] = k
    ELSE NoProc]

Store == INSTANCE BlockStore WITH content <- Content, owner <- Owner

\* Caching is invisible: bread() returns what was last written to the block,
\* whatever was recycled, and one process has a block at a time.
IsBlockStore == Store!Spec

=============================================================================
