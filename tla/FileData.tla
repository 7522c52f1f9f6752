------------------------------ MODULE FileData ------------------------------
(***************************************************************************)
(* The contents of files: the block allocator, bmap(), itrunc(), readi()   *)
(* and writei() of kernel/fs.c, the loop of filewrite(), and the image     *)
(* that mkfs/mkfs.c hands to the kernel.  Blocks are those of the data     *)
(* area, numbered from 1; a block is BSIZE words, and a word is a byte of  *)
(* a file or a block number of an indirect block, 0 when bzero()ed.  The   *)
(* log below is what Log and AtomicDisk promise: the blocks that were      *)
(* log_write()n become durable together when no system call is active.     *)
(***************************************************************************)
EXTENDS Integers, FiniteSets, FiniteSetsExt, SequencesExt

CONSTANTS Writer,      \* processes; each writes words that name it
          Host,        \* the word that fills the files mkfs copies
          HostLen,     \* lengths of these files
          File, Inum,  \* struct file, and the inode each one is opened on
          BSIZE, NDIRECT,
          NBLOCK,      \* data blocks of the disk
          BPB,         \* bits of a bitmap block
          MAXOPBLOCKS, LOGSIZE,
          Undef,       \* a byte that a failed write() leaves undefined
          Size,        \* numbers of bytes that calls ask for
          MaxCalls,    \* bound: system calls
          MaxCrashes   \* bound: crashes

NINDIRECT == BSIZE
MAXFILE == NDIRECT + NINDIRECT
Block == 1 .. NBLOCK
Ino == 1 .. Len(HostLen) + 1
ROOTINO == 1
Word == 0 .. NBLOCK + Len(HostLen) + 1

ASSUME FileDataAssumption ==
  /\ NDIRECT \in Nat \ {0} /\ BSIZE \in Nat \ {0} /\ BPB \in Nat \ {0}
  /\ MAXOPBLOCKS >= 6 /\ LOGSIZE >= MAXOPBLOCKS
  /\ Size \subseteq Nat \ {0}
  /\ Inum \in [File -> Ino \ {ROOTINO}]

VARIABLES cache,     \* the blocks as bread() returns them
          disk,      \* the blocks as recovery would find them
          logged,    \* blocks in the log's header, not yet committed
          inode,     \* size and addrs[] of the inodes in memory
          off,       \* f->off
          fpc, call, \* where each process is, and its arguments and locals
          panicked,
          mine,      \* auxiliary: blocks logged by the process's operation
          loose,     \* auxiliary: bytes that a failed write() left undefined
          kept,      \* auxiliary: those of them in the committed state
          calls, crashes

store == <<cache, disk, logged, inode>>
bounds == <<calls, crashes>>
fsvars == <<store, off, fpc, call, panicked, mine, loose, kept, bounds>>

Zero == [k \in 0 .. BSIZE - 1 |-> 0]
NoAddrs == [k \in 0 .. NDIRECT |-> 0]

\* What an inode's k-th pointer says: the direct ones, those in the indirect
\* block, the indirect block itself.
Slot(data, node, k) ==
  LET ind == node.addrs[NDIRECT] IN
  CASE k < NDIRECT -> node.addrs[k]
    [] k = MAXFILE -> ind
    [] OTHER -> IF ind = 0 THEN 0 ELSE data[ind][k - NDIRECT]

-----------------------------------------------------------------------------
(* mkfs *)

\* Before the first file: all blocks are zeroed, and the inodes are numbered.
Blank ==
  [freeblock |-> 1, data |-> [b \in Block |-> Zero],
   dinode |-> [i \in Ino |-> [size |-> 0, addrs |-> NoAddrs]]]

\* Sectors are read, changed in one word and written back.
Poke(m, b, k, x) == [m EXCEPT !.data[b][k] = x]

\* The next block is taken for pointer k of inode i.
MkSlot(m, i, k) ==
  IF m.dinode[i].addrs[k] # 0 THEN m
  ELSE [m EXCEPT !.dinode[i].addrs[k] = m.freeblock, !.freeblock = @ + 1]

\* iappend() of one word.
iappend(m, i, x) ==
  LET size == m.dinode[i].size
      fbn == size \div BSIZE
      v == MkSlot(m, i, IF fbn < NDIRECT THEN fbn ELSE NDIRECT)
      ind == v.dinode[i].addrs[NDIRECT]
      w == IF fbn < NDIRECT \/ v.data[ind][fbn - NDIRECT] # 0 THEN v
           ELSE Poke([v EXCEPT !.freeblock = @ + 1], ind, fbn - NDIRECT, v.freeblock)
  IN [Poke(w, Slot(w.data, w.dinode[i], fbn), size % BSIZE, x)
        EXCEPT !.dinode[i].size = size + 1]

\* balloc(): the blocks used are marked.
Marked(m) == 1 .. m.freeblock - 1

\* main(): "." and ".." of the root, then an entry and the contents of each
\* file; the root's size is rounded up.
Image ==
  LET entry(k) == <<<<ROOTINO, k + 1>>>>
      copy(k) == [j \in 1 .. HostLen[k] |-> <<k + 1, Host>>]
      appends == <<<<ROOTINO, ROOTINO>>, <<ROOTINO, ROOTINO>>>>
                 \o FlattenSeq([k \in DOMAIN HostLen |-> entry(k) \o copy(k)])
      m == FoldLeft(LAMBDA v, a : iappend(v, a[1], a[2]), Blank, appends)
  IN [bitmap |-> Marked(m),
      data |-> m.data,
      dinode |-> [m.dinode EXCEPT ![ROOTINO].size = (@ \div BSIZE + 1) * BSIZE]]

NoCall == [file |-> CHOOSE f \in File : TRUE, trunc |-> FALSE, left |-> 0, tot |-> 0]

\* fsinit() has read the superblock; the log is empty.
FsInit ==
  /\ cache = Image /\ disk = Image /\ logged = {}
  /\ inode = Image.dinode
  /\ off = [f \in File |-> 0]
  /\ fpc = [p \in Writer |-> "idle"] /\ call = [p \in Writer |-> NoCall]
  /\ panicked = FALSE
  /\ mine = [p \in Writer |-> {}]
  /\ loose = [i \in Ino |-> {}] /\ kept = loose
  /\ calls = 0 /\ crashes = 0

-----------------------------------------------------------------------------
(* Blocks.  w is the work on one inode: the cache c, the inode's addrs a,  *)
(* the blocks logged so far, and the block b that was looked up.           *)

BBLOCK(b) == <<"bitmap", b \div BPB>>
IBLOCK == <<"inodes", 0>>
DBLOCK(b) == <<"data", b>>

\* balloc(): the first free block, zeroed; 0 if there is none.
balloc(w) ==
  IF w.c.bitmap = Block THEN [w EXCEPT !.b = 0]
  ELSE LET b == Min(Block \ w.c.bitmap) IN
       [w EXCEPT !.b = b, !.c.bitmap = @ \cup {b}, !.c.data[b] = Zero,
                 !.log = @ \cup {BBLOCK(b), DBLOCK(b)}]

\* bmap(): addrs[k], allocated if there is none.
Direct(w, k) ==
  IF w.a[k] # 0 THEN [w EXCEPT !.b = w.a[k]]
  ELSE LET v == balloc(w) IN [v EXCEPT !.a[k] = v.b]

bmap(w, bn) ==
  IF bn < NDIRECT THEN Direct(w, bn)
  ELSE LET v == Direct(w, NDIRECT)
           x == v.b
           y == v.c.data[x][bn - NDIRECT]
           u == balloc(v)
       IN CASE x = 0 -> v
            [] x # 0 /\ y # 0 -> [v EXCEPT !.b = y]
            [] OTHER -> IF u.b = 0 THEN u
                        ELSE [u EXCEPT !.c.data[x][bn - NDIRECT] = u.b,
                                       !.log = @ \cup {DBLOCK(x)}]

-----------------------------------------------------------------------------
(* System calls *)

Ip(p) == Inum[call[p].file]
Jump(p, label) == fpc' = [fpc EXCEPT ![p] = label]
outstanding == Cardinality({p \in Writer : fpc[p] \notin {"idle", "begin"}})
Locked(i) == \E p \in Writer : fpc[p] \in {"write", "trunc"} /\ Ip(p) = i

\* The work of p so far, and what p's work w leaves behind.
Work(p) == [c |-> cache, a |-> inode[Ip(p)].addrs, log |-> {}, b |-> 0]
Does(p, w) ==
  /\ cache' = w.c
  /\ inode' = [inode EXCEPT ![Ip(p)].addrs = w.a]
  /\ logged' = logged \cup w.log
  /\ mine' = [mine EXCEPT ![p] = @ \cup w.log]
  /\ UNCHANGED disk

\* write(f, n bytes); p has f for itself or shares it since fork().
SysWrite(p, f, n) ==
  /\ fpc[p] = "idle" /\ calls < MaxCalls
  /\ call' = [call EXCEPT ![p] = [NoCall EXCEPT !.file = f, !.left = n]]
  /\ calls' = calls + 1
  /\ Jump(p, "begin")
  /\ UNCHANGED <<store, off, panicked, mine, loose, kept, crashes>>

\* open(): f becomes a new struct file, or, with O_TRUNC, the file is opened a
\* second time while f stays as it is.
SysOpen(p, f, trunc) ==
  /\ fpc[p] = "idle" /\ calls < MaxCalls
  /\ trunc \/ \A q \in Writer : fpc[q] # "idle" => call[q].file # f
  /\ call' = [call EXCEPT ![p] = [NoCall EXCEPT !.file = f, !.trunc = trunc]]
  /\ calls' = calls + 1
  /\ Jump(p, "begin")
  /\ UNCHANGED <<store, off, panicked, mine, loose, kept, crashes>>

BeginOp(p) ==
  /\ fpc[p] = "begin"
  /\ Cardinality(logged) + (outstanding + 1) * MAXOPBLOCKS <= LOGSIZE
  /\ Jump(p, "ilock")
  /\ UNCHANGED <<store, off, call, panicked, mine, loose, kept, bounds>>

\* ilock() in sys_open(), which goes on to itrunc() or is done.
OpenLocks(p) ==
  /\ fpc[p] = "ilock" /\ call[p].left = 0 /\ ~Locked(Ip(p))
  /\ off' = [off EXCEPT ![call[p].file] = IF call[p].trunc THEN @ ELSE 0]
  /\ Jump(p, IF call[p].trunc THEN "trunc" ELSE "end")
  /\ UNCHANGED <<store, call, panicked, mine, loose, kept, bounds>>

\* Mutant of N1: all in one transaction.
N1All(p) == call[p].left

\* filewrite(): the bytes of this round.
Max1 == ((MAXOPBLOCKS - 1 - 1 - 2) \div 2) * BSIZE
N1(p) == IF call[p].left > Max1 THEN Max1 ELSE call[p].left

\* ilock() in filewrite(); writei() refuses a write that starts past the end
\* or ends past the largest file.
WriteLocks(p) ==
  LET o == off[call[p].file]
      refused == o > inode[Ip(p)].size \/ o + N1(p) > MAXFILE * BSIZE
  IN
  /\ fpc[p] = "ilock" /\ call[p].left > 0 /\ ~Locked(Ip(p))
  /\ call' = [call EXCEPT ![p].tot = 0, ![p].left = IF refused THEN 0 ELSE @]
  /\ Jump(p, IF refused THEN "end" ELSE "write")
  /\ UNCHANGED <<store, off, panicked, mine, loose, kept, bounds>>

\* The position of writei(), the block there, and how much of it is written.
At(p) == off[call[p].file] + call[p].tot
Piece(p) == Min({N1(p) - call[p].tot, BSIZE - (At(p) % BSIZE)})
Mapped(p) == bmap(Work(p), At(p) \div BSIZE)
Copied(p, k) ==
  LET w == Mapped(p) IN
  [w EXCEPT !.c.data[w.b] =
     [j \in 0 .. BSIZE - 1 |->
        IF j \in (At(p) % BSIZE) .. (At(p) % BSIZE) + k - 1 THEN p ELSE @[j]]]
Offsets(p, k) == At(p) .. At(p) + k - 1

\* Mutant of WriteBlock: no log_write() of the block.
WriteBlockUnlogged(p) ==
  LET w == Copied(p, Piece(p)) IN
  /\ fpc[p] = "write" /\ call[p].tot < N1(p)
  /\ Mapped(p).b # 0
  /\ Does(p, w)
  /\ call' = [call EXCEPT ![p].tot = @ + Piece(p)]
  /\ loose' = [loose EXCEPT ![Ip(p)] = @ \ Offsets(p, Piece(p))]
  /\ UNCHANGED <<off, fpc, panicked, kept, bounds>>

\* writei(): one block.
WriteBlock(p) ==
  LET w == Copied(p, Piece(p)) IN
  /\ fpc[p] = "write" /\ call[p].tot < N1(p)
  /\ Mapped(p).b # 0
  /\ Does(p, [w EXCEPT !.log = @ \cup {DBLOCK(w.b)}])
  /\ call' = [call EXCEPT ![p].tot = @ + Piece(p)]
  /\ loose' = [loose EXCEPT ![Ip(p)] = @ \ Offsets(p, Piece(p))]
  /\ UNCHANGED <<off, fpc, panicked, kept, bounds>>

\* Mutant of EndWritei: the inode is written back only when it has grown.
EndWriteiLazily(p, w, file, tot) ==
  LET i == Ip(p)
      size == Max({inode[i].size, off[file] + tot})
      node == [size |-> size, addrs |-> w.a]
      grows == size > inode[i].size
      log == w.log \cup (IF grows THEN {IBLOCK} ELSE {})
  IN
  /\ cache' = IF grows THEN [w.c EXCEPT !.dinode[i] = node] ELSE w.c
  /\ inode' = [inode EXCEPT ![i] = node]
  /\ logged' = logged \cup log
  /\ mine' = [mine EXCEPT ![p] = @ \cup log]
  /\ off' = [off EXCEPT ![file] = @ + tot]
  /\ call' = [call EXCEPT ![p].left = IF tot = N1(p) THEN @ - tot ELSE 0,
                          ![p].tot = 0]
  /\ Jump(p, "end")
  /\ UNCHANGED <<disk, panicked, kept, bounds>>

\* What writei() does after its loop: the inode is updated and unlocked, f->off
\* moves on, and a short write is the last.
EndWritei(p, w, file, tot) ==
  LET i == Ip(p)
      node == [size |-> Max({inode[i].size, off[file] + tot}), addrs |-> w.a]
      log == w.log \cup {IBLOCK}
  IN
  /\ cache' = [w.c EXCEPT !.dinode[i] = node]
  /\ inode' = [inode EXCEPT ![i] = node]
  /\ logged' = logged \cup log
  /\ mine' = [mine EXCEPT ![p] = @ \cup log]
  /\ off' = [off EXCEPT ![file] = @ + tot]
  /\ call' = [call EXCEPT ![p].left = IF tot = N1(p) THEN @ - tot ELSE 0,
                          ![p].tot = 0]
  /\ Jump(p, "end")
  /\ UNCHANGED <<disk, panicked, kept, bounds>>

\* writei(): all is written, or the disk is full.
WriteEnds(p) ==
  /\ fpc[p] = "write"
  /\ \/ call[p].tot = N1(p) /\ EndWritei(p, Work(p), call[p].file, call[p].tot)
     \/ /\ call[p].tot < N1(p) /\ Mapped(p).b = 0
        /\ EndWritei(p, Mapped(p), call[p].file, call[p].tot)
  /\ UNCHANGED loose

\* writei(): either_copyin() fails after k bytes; they are in the buffer, but
\* not in the log.
WriteFaults(p, k) ==
  /\ fpc[p] = "write" /\ call[p].tot < N1(p)
  /\ Mapped(p).b # 0 /\ k < Piece(p)
  /\ EndWritei(p, Copied(p, k), call[p].file, call[p].tot)
  /\ loose' = [loose EXCEPT ![Ip(p)] = @ \cup Offsets(p, k)]

\* Mutant of TruncBlock: a direct block stays in addrs[].
TruncBlockKeeps(p) ==
  LET node == inode[Ip(p)]
      used == {k \in call[p].tot .. MAXFILE - 1 : Slot(cache.data, node, k) # 0}
      k == Min(used)
      b == Slot(cache.data, node, k)
  IN
  /\ fpc[p] = "trunc" /\ used # {}
  /\ panicked' = (b \notin cache.bitmap)
  /\ Does(p, [Work(p) EXCEPT !.c.bitmap = @ \ {b}, !.log = {BBLOCK(b)}])
  /\ call' = [call EXCEPT ![p].tot = k + 1]
  /\ UNCHANGED <<off, fpc, loose, kept, bounds>>

\* itrunc(): the next block is freed; bfree() panics if it is free already.
TruncBlock(p) ==
  LET node == inode[Ip(p)]
      used == {k \in call[p].tot .. MAXFILE - 1 : Slot(cache.data, node, k) # 0}
      k == Min(used)
      b == Slot(cache.data, node, k)
  IN
  /\ fpc[p] = "trunc" /\ used # {}
  /\ panicked' = (b \notin cache.bitmap)
  /\ Does(p, [Work(p) EXCEPT !.c.bitmap = @ \ {b}, !.log = {BBLOCK(b)},
                             !.a = IF k < NDIRECT THEN [@ EXCEPT ![k] = 0] ELSE @])
  /\ call' = [call EXCEPT ![p].tot = k + 1]
  /\ UNCHANGED <<off, fpc, loose, kept, bounds>>

\* itrunc(): the indirect block, the size, and iupdate().
TruncDone(p) ==
  LET i == Ip(p)
      ind == inode[i].addrs[NDIRECT]
      node == [size |-> 0, addrs |-> [inode[i].addrs EXCEPT ![NDIRECT] = 0]]
      log == {IBLOCK} \cup (IF ind = 0 THEN {} ELSE {BBLOCK(ind)})
  IN
  /\ fpc[p] = "trunc"
  /\ \A k \in call[p].tot .. MAXFILE - 1 : Slot(cache.data, inode[i], k) = 0
  /\ panicked' = (ind # 0 /\ ind \notin cache.bitmap)
  /\ cache' = [cache EXCEPT !.bitmap = @ \ {ind}, !.dinode[i] = node]
  /\ inode' = [inode EXCEPT ![i] = node]
  /\ logged' = logged \cup log
  /\ mine' = [mine EXCEPT ![p] = @ \cup log]
  /\ loose' = [loose EXCEPT ![i] = {}]
  /\ call' = [call EXCEPT ![p].tot = 0]
  /\ Jump(p, "end")
  /\ UNCHANGED <<disk, off, kept, bounds>>

\* What the log makes durable: of each logged block, what the cache holds.
Committed ==
  [bitmap |-> {b \in Block : b \in IF BBLOCK(b) \in logged THEN cache.bitmap
                                                           ELSE disk.bitmap},
   data |-> [b \in Block |-> IF DBLOCK(b) \in logged THEN cache.data[b]
                                                     ELSE disk.data[b]],
   dinode |-> IF IBLOCK \in logged THEN cache.dinode ELSE disk.dinode]

\* end_op(): the last operation commits; filewrite() goes on with the rest.
EndOp(p) ==
  /\ fpc[p] = "end"
  /\ IF outstanding = 1
     THEN disk' = Committed /\ logged' = {} /\ kept' = loose
     ELSE UNCHANGED <<disk, logged, kept>>
  /\ mine' = [mine EXCEPT ![p] = {}]
  /\ call' = IF call[p].left > 0 THEN call ELSE [call EXCEPT ![p] = NoCall]
  /\ Jump(p, IF call[p].left > 0 THEN "begin" ELSE "idle")
  /\ UNCHANGED <<cache, inode, off, panicked, loose, bounds>>

\* read(f, n bytes).  readi() is outside any transaction: bmap() must find each
\* block.  If copyout() fails, f->off stays.
SysRead(p, f, n) ==
  LET i == Inum[f]
      r == IF off[f] > inode[i].size THEN 0 ELSE Min({n, inode[i].size - off[f]})
      holes == {bn \in off[f] \div BSIZE .. (off[f] + r - 1) \div BSIZE :
                  Slot(cache.data, inode[i], bn) = 0}
  IN
  /\ fpc[p] = "idle" /\ ~Locked(i) /\ calls < MaxCalls
  /\ panicked' = (r > 0 /\ holes # {})
  /\ off' \in {off, [off EXCEPT ![f] = @ + r]}
  /\ calls' = calls + 1
  /\ UNCHANGED <<store, fpc, call, mine, loose, kept, crashes>>

\* A buffer that is not in the log is recycled, and read again from the disk.
Recycle(b) ==
  /\ DBLOCK(b) \notin logged /\ cache.data[b] # disk.data[b]
  /\ cache' = [cache EXCEPT !.data[b] = disk.data[b]]
  /\ UNCHANGED <<disk, logged, inode, off, fpc, call, panicked, mine, loose, kept,
                 bounds>>

\* The machine stops and boots again.
FsCrash ==
  /\ crashes < MaxCrashes
  /\ crashes' = crashes + 1
  /\ cache' = disk /\ logged' = {} /\ inode' = disk.dinode
  /\ off' = [f \in File |-> 0]
  /\ fpc' = [p \in Writer |-> "idle"] /\ call' = [p \in Writer |-> NoCall]
  /\ mine' = [p \in Writer |-> {}]
  /\ loose' = kept
  /\ UNCHANGED <<disk, panicked, kept, calls>>

FsStep(p) ==
  \/ BeginOp(p) \/ OpenLocks(p) \/ WriteLocks(p) \/ WriteBlock(p) \/ WriteEnds(p)
  \/ \E k \in 0 .. BSIZE - 1 : WriteFaults(p, k)
  \/ TruncBlock(p) \/ TruncDone(p) \/ EndOp(p)

FsCall(p) ==
  \E f \in File : \/ \E n \in Size : SysWrite(p, f, n) \/ SysRead(p, f, n)
                  \/ \E trunc \in BOOLEAN : SysOpen(p, f, trunc)

FsNext ==
  /\ ~panicked
  /\ \/ \E p \in Writer : FsStep(p) \/ FsCall(p)
     \/ \E b \in Block : Recycle(b)
     \/ FsCrash

FsSpec == FsInit /\ [][FsNext]_fsvars

-----------------------------------------------------------------------------
(* Properties *)

Images == [bitmap : SUBSET Block,
           data : [Block -> [0 .. BSIZE - 1 -> Word \cup Writer \cup {Host}]],
           dinode : [Ino -> [size : 0 .. MAXFILE * BSIZE,
                             addrs : [0 .. NDIRECT -> 0 .. NBLOCK]]]]

FsTypeOK ==
  /\ cache \in Images /\ disk \in Images
  /\ inode \in [Ino -> [size : 0 .. MAXFILE * BSIZE,
                        addrs : [0 .. NDIRECT -> 0 .. NBLOCK]]]
  /\ off \in [File -> 0 .. MAXFILE * BSIZE]
  /\ fpc \in [Writer -> {"idle", "begin", "ilock", "write", "trunc", "end"}]
  /\ call \in [Writer -> [file : File, trunc : BOOLEAN, left : 0 .. Max(Size),
                          tot : 0 .. MAXFILE * BSIZE]]

\* The pointers of all inodes to blocks, without those that itrunc() is done
\* with.
Done(i, k) ==
  \E p \in Writer : fpc[p] = "trunc" /\ Ip(p) = i /\ k < call[p].tot
Pointers(data, nodes) ==
  {x \in Ino \X (0 .. MAXFILE) : Slot(data, nodes[x[1]], x[2]) # 0}
Exact(bitmap, data, nodes, pointers) ==
  /\ {Slot(data, nodes[x[1]], x[2]) : x \in pointers} = bitmap
  /\ Cardinality(pointers) = Cardinality(bitmap)

\* Every block marked in the bitmap is pointed to by exactly one inode and
\* place, and no other block is: none is lost, shared or freed while in use,
\* wherever writers and itrunc() stand.  bfree() never panics, and read() never
\* allocates (log_write() would panic outside a transaction).
BlocksOwned ==
  /\ FsTypeOK /\ ~panicked
  /\ Exact(cache.bitmap, cache.data, inode,
           {x \in Pointers(cache.data, inode) : ~Done(x[1], x[2])})

\* The same holds of what a crash at this moment would leave on the disk, and
\* no file there has a hole.
CrashConsistent ==
  /\ Exact(disk.bitmap, disk.data, disk.dinode, Pointers(disk.data, disk.dinode))
  /\ \A i \in Ino : \A bn \in 0 .. (disk.dinode[i].size - 1) \div BSIZE :
       disk.dinode[i].size > 0 => Slot(disk.data, disk.dinode[i], bn) # 0

\* No operation logs more blocks than begin_op() reserved for it: the
\* arithmetic in filewrite(), with writes that are not aligned and bitmap
\* blocks that are all different.
OpFits == \A p \in Writer : Cardinality(mine[p]) <= MAXOPBLOCKS

\* The bytes of a file as a reader finds them; one that is being truncated is
\* empty, and one that is being written reaches as far as its writer.
Bytes(data, node, size, undefined) ==
  [k \in 1 .. size |->
     IF k - 1 \in undefined THEN Undef
     ELSE data[Slot(data, node, (k - 1) \div BSIZE)][(k - 1) % BSIZE]]
Reach(i) ==
  IF \E p \in Writer : fpc[p] = "trunc" /\ Ip(p) = i THEN 0
  ELSE Max({inode[i].size} \cup {At(p) : p \in {q \in Writer : fpc[q] = "write" /\ Ip(q) = i}})

Contents == INSTANCE ByteStore WITH
  Writer <- Writer \cup {Undef}, MaxPiece <- BSIZE,
  bytes <- [i \in Ino |-> Bytes(cache.data, inode[i], Reach(i), loose[i])],
  saved <- [i \in Ino |-> Bytes(disk.data, disk.dinode[i], disk.dinode[i].size, kept[i])]

\* Files are sequences of bytes: a write changes the bytes it was given and
\* nothing else of that file or of another one, wherever their blocks are, and
\* a crash takes all files back to one earlier moment.
IsByteStore == Contents!Spec
=============================================================================
