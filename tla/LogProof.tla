------------------------------ MODULE LogProof ------------------------------
(***************************************************************************)
(* Proofs about Log for any threads, blocks, contents and sizes: the       *)
(* header fits, and log.c implements the atomic disk of AtomicDisk.        *)
(***************************************************************************)
EXTENDS Log, FiniteSetTheorems, SequenceTheorems, TLAPS

Distinct(s) == \A i, j \in DOMAIN s : s[i] = s[j] => i = j

\* commit() runs, from the end_op() that starts it to its wakeup.
Committing == {"write_log", "write_head", "install", "clear", "finish"}

ActiveOps == {o \in Op : pc[o] = "active"}

\* The threads: outstanding counts those inside a system call, none is while
\* a commit or a recovery runs, and the last one to leave empties the log.
OpInv ==
  /\ outstanding = Cardinality(ActiveOps)
  /\ phase \notin {"up", "panic"} => ActiveOps = {}
  /\ phase = "up" /\ ActiveOps = {} => lh = <<>>
  /\ phase \in Committing => committing

\* The header in memory and the one on the disk, phase by phase.
HeadInv ==
  /\ Distinct(lh) /\ Len(lh) <= NLog - 1
  /\ Distinct(dhead) /\ Len(dhead) <= NLog - 1
  /\ phase \in {"up", "write_log", "write_head", "finish", "panic"} => dhead = <<>>
  /\ phase \in {"install", "clear", "replay", "erase"} => dhead = lh
  /\ phase = "finish" => lh = <<>>
  /\ phase \in {"write_log", "install", "replay"} => tail < Len(lh)
  /\ phase = "write_head" => 0 < Len(lh)

\* The buffer of b can be dropped without losing anything.
Clean(b) == buf[b] \in {NoBuf, home[b]}

\* The buffer cache: what the transaction changed is pinned until it is
\* installed, everything else agrees with the disk.
CacheInv ==
  /\ \A b \in pin : buf[b] # NoBuf
  /\ phase \in {"up", "write_log", "write_head"} =>
       \A i \in DOMAIN lh : lh[i] \in pin
  /\ phase # "panic" =>
       \A b \in Block : Clean(b) \/ (Up /\ \E i \in DOMAIN lh : lh[i] = b)

\* What has been copied so far: cache to log, then log to home locations.
CopyInv ==
  \A i \in DOMAIN lh :
    /\ phase = "write_log" /\ i <= tail => dlog[i] = buf[lh[i]]
    /\ phase = "write_head" => dlog[i] = buf[lh[i]]
    /\ phase = "install" /\ i > tail => lh[i] \in pin /\ buf[lh[i]] = dlog[i]
    /\ phase = "install" /\ i <= tail => home[lh[i]] = dlog[i] /\ Clean(lh[i])
    /\ phase = "clear" => home[lh[i]] = dlog[i] /\ Clean(lh[i])
    /\ phase = "replay" /\ i <= tail => home[lh[i]] = dlog[i]
    /\ phase = "erase" => home[lh[i]] = dlog[i]

IInv == TypeOK /\ OpInv /\ HeadInv /\ CacheInv /\ CopyInv

-----------------------------------------------------------------------------
\* Init establishes the inductive invariant.
LEMMA InitIInv ==
  ASSUME Init
  PROVE  IInv
<1> USE LogAssumption
<1>1. TypeOK
  <2>1. dlog \in [Slot -> Val]
    BY Zenon DEF Init
  <2>2. dhead \in Seq(Block) /\ lh \in Seq(Block)
    BY DEF Init
  <2> QED
    BY <2>1, <2>2, Zenon DEF Init, TypeOK
<1>2. ActiveOps = {} /\ OpInv
  BY FS_EmptySet, Zenon DEF Init, OpInv, ActiveOps, Committing
<1>3. HeadInv
  BY DEF Init, HeadInv, Distinct
<1>4. CacheInv
  BY Zenon DEF Init, CacheInv, Clean
<1>5. CopyInv
  BY Zenon DEF Init, CopyInv
<1> QED
  BY <1>1, <1>2, <1>3, <1>4, <1>5, Zenon DEF IInv

\* What bread() returns is a block's contents.
LEMMA BreadType ==
  ASSUME TypeOK, NEW b \in Block
  PROVE  Bread(b) \in Val
  BY Zenon DEF TypeOK, Bread

\* Every step keeps the types.
LEMMA NextType ==
  ASSUME IInv, [Next]_vars
  PROVE  TypeOK'
<1> USE LogAssumption DEF IInv, disk
<1>1. ASSUME NEW o \in Op, Call(o) PROVE TypeOK'
  BY <1>1, Zenon DEF TypeOK, Call
<1>2. ASSUME NEW o \in Op, BeginOp(o) PROVE TypeOK'
  BY <1>2 DEF TypeOK, BeginOp
<1>3. ASSUME NEW o \in Op, EndOp(o) PROVE TypeOK'
  <2>1. outstanding - 1 \in Nat
    <3>1. IsFiniteSet(ActiveOps) /\ o \in ActiveOps
      BY <1>3, FS_Subset, Zenon DEF ActiveOps, EndOp
    <3> QED
      BY <3>1, FS_EmptySet, FS_CardinalityType DEF OpInv
  <2>2. pc' \in [Op -> {"idle", "begin", "sleep", "active", "commit"}]
    BY <1>3, Zenon DEF TypeOK, EndOp, Wakeup
  <2>3. committing' \in BOOLEAN
    BY <1>3, Zenon DEF TypeOK, EndOp
  <2>4. /\ tail' \in Nat
        /\ phase' \in {phase, "finish", "write_log"}
    BY <1>3 DEF TypeOK, EndOp
  <2> QED
    BY <1>3, <2>1, <2>2, <2>3, <2>4, Zenon DEF TypeOK, EndOp
<1>4. ASSUME NEW o \in Op, NEW b \in Block, NEW v \in Val, LogWrite(o, b, v)
      PROVE  TypeOK'
  <2>1. \/ lh' = lh /\ pin' = pin
        \/ lh' = Append(lh, b) /\ pin' = pin \cup {b}
    BY <1>4, Zenon DEF LogWrite, Bpin
  <2>2. \/ buf' = buf /\ wrote' = wrote
        \/ /\ buf' = [buf EXCEPT ![b] = v]
           /\ wrote' = [wrote EXCEPT ![o] = @ \cup {b}]
    BY <1>4, Zenon DEF LogWrite
  <2>3. lh' \in Seq(Block)
    <3>1. lh \in Seq(Block) /\ Append(lh, b) \in Seq(Block)
      BY AppendProperties, Zenon DEF TypeOK
    <3> QED
      BY <2>1, <3>1, Zenon
  <2>6. pin' \subseteq Block
    BY <2>1, Zenon DEF TypeOK
  <2>4. /\ buf' \in [Block -> Val \cup {NoBuf}]
        /\ wrote' \in [Op -> SUBSET Block]
    BY <2>2, SMTT(40) DEF TypeOK
  <2>5. /\ phase' \in {phase, "panic"}
        /\ UNCHANGED <<disk, outstanding, committing, pc, tail>>
    BY <1>4, Zenon DEF LogWrite
  <2> QED
    BY <2>3, <2>4, <2>5, <2>6, Zenon DEF TypeOK
<1>5. CASE WriteLog
  <2>1. lh[tail + 1] \in Block
    BY <1>5 DEF WriteLog, TypeOK, HeadInv
  <2>2. Bread(lh[tail + 1]) \in Val
    BY <2>1, BreadType, Zenon
  <2>3. /\ dlog' \in [Slot -> Val]
        /\ buf' \in [Block -> Val \cup {NoBuf}]
    BY <1>5, <2>1, <2>2, Zenon DEF TypeOK, WriteLog
  <2> QED
    BY <1>5, <2>3 DEF TypeOK, WriteLog
<1>6. CASE WriteHead
  BY <1>6, Zenon DEF TypeOK, WriteHead
<1>7. ASSUME InstallTrans, phase \in {"install", "replay"}
      PROVE  /\ home' \in [Block -> Val]
             /\ buf' \in [Block -> Val \cup {NoBuf}]
             /\ tail' \in Nat
  <2>1. lh[tail + 1] \in Block /\ dlog[tail + 1] \in Val
    BY <1>7 DEF TypeOK, HeadInv, Slot
  <2> QED
    BY <1>7, <2>1 DEF TypeOK, InstallTrans
<1>8. CASE Install
  BY <1>7, <1>8, Zenon DEF TypeOK, Install, InstallTrans
<1>9. CASE Clear
  BY <1>9 DEF TypeOK, Clear
<1>10. CASE Finish
  BY <1>10, Zenon DEF TypeOK, Finish, Wakeup
<1>11. ASSUME NEW b \in Block, Evict(b) PROVE TypeOK'
  BY <1>11, Zenon DEF TypeOK, Evict
<1>12. CASE Crash
  <2>1. lh' \in Seq(Block)
    BY <1>12 DEF Crash
  <2> QED
    BY <1>12, <2>1, Zenon DEF TypeOK, Crash
<1>13. CASE ReadHead
  BY <1>13, Zenon DEF TypeOK, ReadHead
<1>14. CASE Replay
  BY <1>7, <1>14, Zenon DEF TypeOK, Replay, InstallTrans
<1>15. CASE Erase
  BY <1>15 DEF TypeOK, Erase
<1>16. CASE UNCHANGED vars
  BY <1>16, Zenon DEF TypeOK, vars
<1> QED
  BY <1>1, <1>2, <1>3, <1>4, <1>5, <1>6, <1>8, <1>9, <1>10, <1>11, <1>12,
     <1>13, <1>14, <1>15, <1>16, Zenon DEF Next, CommitStep, RecoveryStep

\* Every step keeps OpInv.
LEMMA NextOp ==
  ASSUME IInv, [Next]_vars
  PROVE  OpInv'
<1> USE LogAssumption DEF IInv, disk
<1>0. IsFiniteSet(ActiveOps) /\ ActiveOps \subseteq Op
  BY FS_Subset, Zenon DEF ActiveOps
<1>1. ASSUME NEW o \in Op, Call(o) PROVE OpInv'
  <2>1. ActiveOps' = ActiveOps
    BY <1>1, Zenon DEF ActiveOps, Call, TypeOK
  <2> QED
    BY <1>1, <2>1, Zenon DEF OpInv, Call
<1>2. ASSUME NEW o \in Op, BeginOp(o) PROVE OpInv'
  <2>1. CASE Admits
    <3>1. phase = "up" /\ phase' = "up"
      BY <1>2, <2>1, Zenon DEF Admits, BeginOp, OpInv, Up, Recovering, TypeOK, Committing
    <3>2. ActiveOps' = ActiveOps \cup {o} /\ o \notin ActiveOps
      BY <1>2, <2>1, Zenon DEF ActiveOps, BeginOp, TypeOK
    <3>3. outstanding' = Cardinality(ActiveOps')
      BY <1>0, <1>2, <2>1, <3>2, FS_AddElement, Zenon DEF OpInv, BeginOp
    <3> QED
      BY <3>1, <3>2, <3>3, Zenon DEF OpInv, Committing
  <2>2. CASE ~Admits
    <3>1. ActiveOps' = ActiveOps
      BY <1>2, <2>2, Zenon DEF ActiveOps, BeginOp, TypeOK
    <3> QED
      BY <1>2, <2>2, <3>1, Zenon DEF OpInv, BeginOp
  <2> QED
    BY <2>1, <2>2, Zenon
<1>3. ASSUME NEW o \in Op, EndOp(o) PROVE OpInv'
  <2>1. o \in ActiveOps
    BY <1>3, Zenon DEF ActiveOps, EndOp
  <2>2. phase = "up"
    BY <1>3, <2>1, Zenon DEF OpInv, EndOp, Up
  <2>3. ActiveOps' = ActiveOps \ {o}
    BY <1>3, Zenon DEF ActiveOps, EndOp, Wakeup, TypeOK
  <2>4. /\ outstanding' = Cardinality(ActiveOps')
        /\ Cardinality(ActiveOps') \in Nat
        /\ Cardinality(ActiveOps') = 0 <=> ActiveOps' = {}
    BY <1>0, <1>3, <2>1, <2>3, FS_RemoveElement, FS_CardinalityType, FS_EmptySet, Zenon
       DEF OpInv, EndOp
  <2>5. CASE outstanding = 1
    <3>1. committing' /\ phase' \in Committing
      BY <1>3, <2>5, Zenon DEF EndOp, Committing
    <3>2. ActiveOps' = {}
      BY <1>3, <2>4, <2>5 DEF EndOp
    <3> QED
      BY <2>4, <3>1, <3>2, Zenon DEF OpInv, Committing
  <2>6. CASE outstanding # 1
    <3>1. phase' = "up"
      BY <1>3, <2>2, <2>6, Zenon DEF EndOp
    <3>2. ActiveOps' # {}
      BY <1>3, <2>4, <2>6 DEF EndOp, TypeOK
    <3> QED
      BY <2>4, <3>1, <3>2, Zenon DEF OpInv, Committing
  <2> QED
    BY <2>5, <2>6, Zenon
<1>4. ASSUME NEW o \in Op, NEW b \in Block, NEW v \in Val, LogWrite(o, b, v)
      PROVE  OpInv'
  <2>1. o \in ActiveOps /\ ActiveOps' = ActiveOps
    BY <1>4, Zenon DEF ActiveOps, LogWrite
  <2>2. phase = "up" /\ phase' \in {"up", "panic"}
    BY <1>4, <2>1, Zenon DEF OpInv, LogWrite, Up
  <2>3. outstanding' = outstanding
    BY <1>4, Zenon DEF LogWrite
  <2> QED
    BY <2>1, <2>2, <2>3, Zenon DEF OpInv, Committing
<1>5. ASSUME WriteLog \/ WriteHead \/ Install \/ Clear
      PROVE  OpInv'
  <2>1. /\ phase \in Committing /\ phase' \in Committing
        /\ UNCHANGED <<pc, outstanding, committing>>
    BY <1>5, Zenon DEF WriteLog, WriteHead, Install, InstallTrans, Clear, Committing
  <2>2. ActiveOps' = ActiveOps
    BY <2>1, Zenon DEF ActiveOps
  <2> QED
    BY <2>1, <2>2, Zenon DEF OpInv, Committing
<1>6. CASE Finish
  <2>1. ActiveOps = {} /\ phase' = "up" /\ lh' = <<>>
    BY <1>6, Zenon DEF Finish, OpInv, HeadInv
  <2>2. ActiveOps' = {}
    BY <1>6, <2>1, Zenon DEF ActiveOps, Finish, Wakeup, TypeOK
  <2> QED
    BY <1>6, <2>1, <2>2, Zenon DEF OpInv, Finish, Committing
<1>7. ASSUME NEW b \in Block, Evict(b) PROVE OpInv'
  <2>1. ActiveOps' = ActiveOps
    BY <1>7, Zenon DEF ActiveOps, Evict
  <2> QED
    BY <1>7, <2>1, Zenon DEF OpInv, Evict
<1>8. CASE Crash
  <2>1. ActiveOps' = {}
    BY <1>8, Zenon DEF ActiveOps, Crash
  <2> QED
    BY <1>8, <2>1, FS_EmptySet, Zenon DEF OpInv, Crash, Committing
<1>9. ASSUME ReadHead \/ Replay \/ Erase
      PROVE  OpInv'
  <2>1. /\ phase \notin {"up", "panic"}
        /\ phase' \in {"replay", "erase", "up"}
        /\ phase' = "up" => lh' = <<>>
        /\ UNCHANGED <<pc, outstanding, committing>>
    BY <1>9, Zenon DEF ReadHead, Replay, InstallTrans, Erase
  <2>2. ActiveOps' = ActiveOps
    BY <2>1, Zenon DEF ActiveOps
  <2> QED
    BY <2>1, <2>2, Zenon DEF OpInv, Committing
<1>10. CASE UNCHANGED vars
  <2>1. ActiveOps' = ActiveOps
    BY <1>10, Zenon DEF ActiveOps, vars
  <2> QED
    BY <1>10, <2>1, Zenon DEF OpInv, vars
<1> QED
  BY <1>1, <1>2, <1>3, <1>4, <1>5, <1>6, <1>7, <1>8, <1>9, <1>10, Zenon
     DEF Next, CommitStep, RecoveryStep

\* A header that is not empty has a first entry.
LEMMA NonEmpty ==
  ASSUME NEW s \in Seq(Block), s # <<>>
  PROVE  Len(s) \in Nat /\ 0 < Len(s)
  BY EmptySeq, LenProperties

\* log_write() in a transaction: a panic, or one block changed and in lh.
LEMMA WriteFacts ==
  ASSUME IInv, NEW o \in Op, NEW b \in Block, NEW v \in Val, LogWrite(o, b, v)
  PROVE  /\ phase = "up" /\ o \in ActiveOps
         /\ UNCHANGED <<home, dlog, dhead, pc, tail>>
         /\ \/ phase' = "panic" /\ UNCHANGED lh /\ UNCHANGED pin /\ UNCHANGED buf
            \/ /\ phase' = "up" /\ buf' = [buf EXCEPT ![b] = v]
               /\ \/ /\ \E i \in DOMAIN lh : lh[i] = b
                     /\ lh' = lh /\ pin' = pin
                  \/ /\ \A i \in DOMAIN lh : lh[i] # b
                     /\ lh' = Append(lh, b) /\ pin' = pin \cup {b}
                     /\ Len(lh) < NLog - 1
<1>1. o \in ActiveOps
  BY Zenon DEF ActiveOps, LogWrite
<1>2. phase = "up"
  BY <1>1, Zenon DEF IInv, OpInv, LogWrite, Up
<1>3. UNCHANGED <<home, dlog, dhead, pc, tail>>
  BY Zenon DEF LogWrite, disk
<1>4. CASE TooBig
  BY <1>1, <1>2, <1>3, <1>4, Zenon DEF LogWrite
<1>5. CASE ~TooBig
  <2>1. phase' = "up" /\ buf' = [buf EXCEPT ![b] = v]
    BY <1>2, <1>5, Zenon DEF LogWrite
  <2>2. Len(lh) < NLog - 1
    BY <1>5, LogAssumption, LenProperties DEF TooBig, IInv, TypeOK
  <2>3. CASE Absorbed(b)
    BY <1>1, <1>2, <1>3, <1>5, <2>1, <2>3, Zenon DEF LogWrite, Absorbed, Range
  <2>4. CASE ~Absorbed(b)
    BY <1>1, <1>2, <1>3, <1>5, <2>1, <2>2, <2>4, Zenon DEF LogWrite, Absorbed, Range, Bpin
  <2> QED
    BY <2>3, <2>4, Zenon
<1> QED
  BY <1>4, <1>5, Zenon

\* end_op() keeps the disk and the cache; the last one starts the commit.
LEMMA EndFacts ==
  ASSUME IInv, NEW o \in Op, EndOp(o)
  PROVE  /\ phase = "up" /\ o \in ActiveOps /\ ActiveOps' = ActiveOps \ {o}
         /\ UNCHANGED <<home, dlog, dhead, buf, pin, lh>>
         /\ \/ phase' = "up" /\ tail' = tail
            \/ phase' = "finish" /\ lh = <<>> /\ tail' = 0
            \/ phase' = "write_log" /\ lh # <<>> /\ tail' = 0
<1>1. o \in ActiveOps
  BY Zenon DEF ActiveOps, EndOp
<1>2. phase = "up"
  BY <1>1, Zenon DEF IInv, OpInv, EndOp, Up
<1>3. ActiveOps' = ActiveOps \ {o}
  BY Zenon DEF ActiveOps, EndOp, Wakeup, IInv, TypeOK
<1>4. UNCHANGED <<home, dlog, dhead, buf, pin, lh>>
  BY Zenon DEF EndOp, disk
<1> QED
  BY <1>1, <1>2, <1>3, <1>4, Zenon DEF EndOp

\* The block that a copying loop is at.
LEMMA CopyAt ==
  ASSUME IInv, phase \in {"write_log", "install", "replay"}
  PROVE  /\ tail + 1 \in DOMAIN lh /\ tail + 1 \in Slot
         /\ lh[tail + 1] \in Block /\ dlog[tail + 1] \in Val
         /\ \A i \in DOMAIN lh : i # tail + 1 => lh[i] # lh[tail + 1]
<1> USE LogAssumption DEF IInv
<1>1. tail + 1 \in 1 .. Len(lh) /\ tail + 1 \in Slot
  BY LenProperties DEF TypeOK, HeadInv, Slot
<1>2. tail + 1 \in DOMAIN lh
  BY <1>1, LenProperties, Zenon DEF TypeOK
<1> QED
  BY <1>1, <1>2, ElementOfSeq, Zenon DEF TypeOK, HeadInv, Distinct

\* Every step keeps HeadInv.
LEMMA NextHead ==
  ASSUME IInv, [Next]_vars
  PROVE  HeadInv'
<1> USE LogAssumption DEF IInv, disk
<1>0. Len(lh) \in Nat /\ tail \in Nat
  BY LenProperties, Zenon DEF TypeOK
<1>1. ASSUME NEW o \in Op, Call(o) \/ BeginOp(o) PROVE HeadInv'
  <2>1. UNCHANGED <<lh, dhead, phase, tail>>
    BY <1>1, Zenon DEF Call, BeginOp
  <2> QED
    BY <2>1, Zenon DEF HeadInv, Distinct
<1>2. ASSUME NEW o \in Op, EndOp(o) PROVE HeadInv'
  <2>1. lh # <<>> => 0 < Len(lh)
    BY NonEmpty, Zenon DEF TypeOK
  <2> QED
    BY <1>2, <2>1, EndFacts, Zenon DEF HeadInv, Distinct
<1>3. ASSUME NEW o \in Op, NEW b \in Block, NEW v \in Val, LogWrite(o, b, v)
      PROVE  HeadInv'
  <2>1. CASE lh' = lh
    BY <1>3, <2>1, WriteFacts, Zenon DEF HeadInv, Distinct
  <2>2. CASE lh' # lh
    <3>1. /\ \A i \in DOMAIN lh : lh[i] # b
          /\ lh' = Append(lh, b) /\ Len(lh) < NLog - 1
          /\ phase' = "up" /\ dhead' = <<>>
      BY <1>3, <2>2, WriteFacts, Zenon DEF HeadInv
    <3>2. /\ Len(lh') = Len(lh) + 1 /\ DOMAIN lh' = 1 .. Len(lh) + 1
          /\ DOMAIN lh = 1 .. Len(lh)
          /\ lh'[Len(lh) + 1] = b /\ \A i \in 1 .. Len(lh) : lh'[i] = lh[i]
      BY <3>1, AppendProperties, LenProperties DEF TypeOK
    <3>3. Distinct(lh')
      BY <1>0, <3>1, <3>2 DEF HeadInv, Distinct
    <3> QED
      BY <1>0, <3>1, <3>2, <3>3 DEF HeadInv, Distinct
  <2> QED
    BY <2>1, <2>2, Zenon
<1>4. CASE WriteLog
  BY <1>0, <1>4 DEF HeadInv, WriteLog, Distinct
<1>5. CASE WriteHead
  BY <1>0, <1>5, Zenon DEF HeadInv, WriteHead, Distinct
<1>6. CASE Install
  BY <1>0, <1>6 DEF HeadInv, Install, InstallTrans, Distinct
<1>7. CASE Clear \/ Erase
  BY <1>7 DEF HeadInv, Clear, Erase, Distinct
<1>8. CASE Finish
  BY <1>8, Zenon DEF HeadInv, Finish, Distinct
<1>9. ASSUME NEW b \in Block, Evict(b) PROVE HeadInv'
  BY <1>9, Zenon DEF HeadInv, Evict, Distinct
<1>10. CASE Crash
  BY <1>10 DEF HeadInv, Crash, Distinct
<1>11. CASE ReadHead
  <2>1. dhead # <<>> => 0 < Len(dhead)
    BY NonEmpty, Zenon DEF TypeOK
  <2> QED
    BY <1>11, <2>1, Zenon DEF HeadInv, ReadHead, Distinct
<1>12. CASE Replay
  BY <1>0, <1>12 DEF HeadInv, Replay, InstallTrans, Distinct
<1>13. CASE UNCHANGED vars
  BY <1>13, Zenon DEF HeadInv, vars, Distinct
<1> QED
  BY <1>1, <1>2, <1>3, <1>4, <1>5, <1>6, <1>7, <1>8, <1>9, <1>10, <1>11,
     <1>12, <1>13, Zenon DEF Next, CommitStep, RecoveryStep

\* write_log() and install_trans() of a commit leave the cache as it is: the
\* blocks they read are pinned, and install_trans() writes what it finds.
LEMMA CopyKeepsCache ==
  ASSUME IInv, WriteLog \/ Install
  PROVE  buf' = buf
<1> USE DEF IInv
<1>1. phase \in {"write_log", "install"}
  BY Zenon DEF WriteLog, Install
<1>2. /\ tail + 1 \in DOMAIN lh /\ lh[tail + 1] \in Block
      /\ dlog[tail + 1] \in Val
  BY <1>1, CopyAt, Zenon
<1>3. CASE WriteLog
  <2>1. buf[lh[tail + 1]] # NoBuf
    BY <1>2, <1>3, Zenon DEF WriteLog, CacheInv
  <2>2. Bread(lh[tail + 1]) = buf[lh[tail + 1]]
    BY <2>1, Zenon DEF Bread
  <2> QED
    BY <1>2, <1>3, <2>2, Zenon DEF WriteLog, TypeOK
<1>4. CASE Install
  <2>1. buf[lh[tail + 1]] = dlog[tail + 1]
    BY <1>2, <1>4, SMTT(40) DEF Install, CopyInv, TypeOK
  <2> QED
    BY <1>2, <1>4, <2>1, Zenon DEF Install, InstallTrans, TypeOK
<1> QED
  BY <1>3, <1>4, Zenon

\* Every step keeps CacheInv.
LEMMA NextCache ==
  ASSUME IInv, [Next]_vars
  PROVE  CacheInv'
<1> USE LogAssumption DEF disk
<1>t. TypeOK
  BY Zenon DEF IInv
<1>h. HeadInv
  BY Zenon DEF IInv
<1>c. CacheInv
  BY Zenon DEF IInv
<1>p. CopyInv
  BY Zenon DEF IInv
<1>1. ASSUME NEW o \in Op, Call(o) \/ BeginOp(o) PROVE CacheInv'
  <2>1. UNCHANGED <<home, buf, pin, lh, phase>>
    BY <1>1, Zenon DEF Call, BeginOp
  <2> QED
    BY <1>c, <2>1, Zenon DEF CacheInv, Clean, Up, Recovering
<1>2. ASSUME NEW o \in Op, EndOp(o) PROVE CacheInv'
  BY <1>c, <1>2, EndFacts, Zenon DEF CacheInv, Clean, Up, Recovering
<1>3. ASSUME NEW o \in Op, NEW b \in Block, NEW v \in Val, LogWrite(o, b, v)
      PROVE  CacheInv'
  <2>1. CASE phase' = "panic"
    <3>1. phase = "up" /\ UNCHANGED <<buf, pin>>
      BY <1>3, <2>1, WriteFacts, Zenon
    <3> QED
      BY <1>c, <2>1, <3>1, Zenon DEF CacheInv
  <2>2. CASE phase' # "panic"
    <3>1. /\ phase = "up" /\ phase' = "up" /\ home' = home
          /\ buf' = [buf EXCEPT ![b] = v]
      BY <1>3, <2>2, WriteFacts, Zenon
    <3>2. /\ \E i \in DOMAIN lh' : lh'[i] = b
          /\ \A i \in DOMAIN lh : i \in DOMAIN lh' /\ lh'[i] = lh[i]
          /\ \A i \in DOMAIN lh' : lh'[i] \in pin'
          /\ pin' \subseteq pin \cup {b}
      <4>1. CASE lh' = lh
        BY <1>c, <1>3, <2>2, <3>1, <4>1, WriteFacts DEF CacheInv
      <4>2. CASE lh' # lh
        <5>1. lh' = Append(lh, b) /\ pin' = pin \cup {b}
          BY <1>3, <2>2, <4>2, WriteFacts, Zenon
        <5>2. /\ Len(lh) \in Nat
              /\ DOMAIN lh' = 1 .. Len(lh) + 1 /\ DOMAIN lh = 1 .. Len(lh)
              /\ lh'[Len(lh) + 1] = b /\ \A i \in 1 .. Len(lh) : lh'[i] = lh[i]
          BY <1>t, <5>1, AppendProperties, LenProperties DEF TypeOK
        <5> QED
          BY <1>c, <3>1, <5>1, <5>2 DEF CacheInv
      <4> QED
        BY <4>1, <4>2, Zenon
    <3>3. v # NoBuf /\ \A c \in Block : buf'[c] = IF c = b THEN v ELSE buf[c]
      BY <1>t, <3>1, Zenon DEF TypeOK
    <3>4. \A c \in pin' : buf'[c] # NoBuf
      BY <1>c, <1>t, <3>2, <3>3, Zenon DEF CacheInv, TypeOK
    <3>5. \A c \in Block : Clean(c)' \/ \E i \in DOMAIN lh' : lh'[i] = c
      BY <1>c, <3>1, <3>2, <3>3, Zenon DEF CacheInv, Clean
    <3> QED
      BY <1>c, <3>1, <3>2, <3>4, <3>5, Zenon DEF CacheInv, Up, Recovering
  <2> QED
    BY <2>1, <2>2, Zenon
<1>4. CASE WriteLog
  <2>1. buf' = buf
    BY <1>4, CopyKeepsCache, Zenon
  <2> QED
    BY <1>c, <1>4, <2>1, Zenon DEF CacheInv, WriteLog, Clean, Up, Recovering
<1>5. CASE WriteHead
  BY <1>c, <1>5, Zenon DEF CacheInv, WriteHead, Clean, Up, Recovering
<1>6. CASE Install
  <2>1. buf' = buf
    BY <1>6, CopyKeepsCache, Zenon
  <2>2. /\ tail + 1 \in DOMAIN lh /\ lh[tail + 1] \in Block
        /\ lh' = lh /\ phase' \in {"install", "clear"} /\ Up /\ Up'
    BY <1>6, CopyAt, Zenon DEF Install, InstallTrans, Up, Recovering
  <2>3. \A b \in Block : b # lh[tail + 1] => home'[b] = home[b]
    BY <1>t, <1>6, Zenon DEF Install, InstallTrans, TypeOK
  <2>4. \A b \in Block : Clean(b)' \/ \E i \in DOMAIN lh' : lh'[i] = b
    BY <1>c, <1>6, <2>1, <2>2, <2>3, Zenon DEF CacheInv, Clean, Install
  <2> QED
    BY <1>c, <1>6, <2>1, <2>2, <2>4, Zenon DEF CacheInv, Install
<1>7. CASE Clear
  <2>1. UNCHANGED <<home, buf, pin>> /\ phase' = "finish"
    BY <1>7, Zenon DEF Clear
  <2>2. \A b \in Block : Clean(b)
    BY <1>c, <1>p, <1>7, Zenon DEF Clear, CacheInv, CopyInv
  <2> QED
    BY <1>c, <2>1, <2>2, Zenon DEF CacheInv, Clean
<1>8. CASE Finish
  BY <1>c, <1>h, <1>8 DEF CacheInv, Finish, HeadInv, Clean, Up, Recovering
<1>9. ASSUME NEW b \in Block, Evict(b) PROVE CacheInv'
  <2>1. /\ b \notin pin /\ \A c \in Block : c # b => buf'[c] = buf[c]
        /\ buf'[b] = NoBuf
        /\ UNCHANGED <<home, pin, lh, phase>>
    BY <1>t, <1>9, Zenon DEF Evict, TypeOK
  <2>2. \A c \in Block : Clean(c) => Clean(c)'
    BY <2>1, Zenon DEF Clean
  <2> QED
    BY <1>c, <1>t, <2>1, <2>2, Zenon DEF CacheInv, TypeOK, Up, Recovering
<1>10. CASE Crash
  BY <1>c, <1>10, Zenon DEF CacheInv, Crash, Clean
<1>11. CASE ReadHead
  BY <1>c, <1>11, Zenon DEF CacheInv, ReadHead, Clean, Up, Recovering
<1>12. CASE Replay
  <2>1. /\ lh[tail + 1] \in Block /\ dlog[tail + 1] \in Val
        /\ phase = "replay" /\ phase' \in {"replay", "erase"} /\ pin' = pin
    BY <1>12, CopyAt, Zenon DEF Replay
  <2>2. \A b \in Block : IF b = lh[tail + 1]
                         THEN buf'[b] = dlog[tail + 1] /\ home'[b] = dlog[tail + 1]
                         ELSE buf'[b] = buf[b] /\ home'[b] = home[b]
    BY <1>t, <1>12, Zenon DEF Replay, InstallTrans, TypeOK
  <2>3. \A b \in Block : Clean(b)'
    BY <1>c, <2>1, <2>2, Zenon DEF CacheInv, Clean, Up, Recovering
  <2> QED
    BY <1>c, <1>t, <2>1, <2>2, <2>3 DEF CacheInv, TypeOK
<1>13. CASE Erase
  BY <1>c, <1>13 DEF CacheInv, Erase, Clean, Up, Recovering
<1>14. CASE UNCHANGED vars
  BY <1>c, <1>14, Zenon DEF CacheInv, vars, Clean, Up, Recovering
<1> QED
  BY <1>1, <1>2, <1>3, <1>4, <1>5, <1>6, <1>7, <1>8, <1>9, <1>10, <1>11,
     <1>12, <1>13, <1>14, Zenon DEF Next, CommitStep, RecoveryStep

\* Every step keeps CopyInv.
LEMMA NextCopy ==
  ASSUME IInv, [Next]_vars
  PROVE  CopyInv'
<1> USE LogAssumption DEF disk
<1>t. TypeOK
  BY Zenon DEF IInv
<1>h. HeadInv
  BY Zenon DEF IInv
<1>c. CacheInv
  BY Zenon DEF IInv
<1>p. CopyInv
  BY Zenon DEF IInv
<1>0. Len(lh) \in Nat /\ DOMAIN lh = 1 .. Len(lh) /\ tail \in Nat
  BY <1>t, LenProperties, Zenon DEF TypeOK
<1>1. ASSUME NEW o \in Op, Call(o) \/ BeginOp(o) PROVE CopyInv'
  <2>1. UNCHANGED <<home, dlog, buf, pin, lh, phase, tail>>
    BY <1>1, Zenon DEF Call, BeginOp
  <2> QED
    BY <1>p, <2>1, Zenon DEF CopyInv, Clean
<1>2. ASSUME NEW o \in Op, EndOp(o) PROVE CopyInv'
  BY <1>p, <1>0, <1>2, EndFacts DEF CopyInv
<1>3. ASSUME NEW o \in Op, NEW b \in Block, NEW v \in Val, LogWrite(o, b, v)
      PROVE  CopyInv'
  BY <1>p, <1>3, WriteFacts, Zenon DEF CopyInv
<1>4. CASE WriteLog
  <2>1. /\ buf' = buf /\ lh' = lh /\ tail' = tail + 1
        /\ phase' \in {"write_log", "write_head"}
        /\ phase' = "write_head" => tail + 1 = Len(lh)
    BY <1>4, CopyKeepsCache, Zenon DEF WriteLog
  <2>2. /\ tail + 1 \in DOMAIN lh /\ tail + 1 \in Slot
        /\ buf[lh[tail + 1]] # NoBuf
    BY <1>c, <1>4, CopyAt, Zenon DEF WriteLog, CacheInv
  <2>3. /\ dlog'[tail + 1] = buf[lh[tail + 1]]
        /\ \A i \in Slot : i # tail + 1 => dlog'[i] = dlog[i]
    BY <1>t, <1>4, <2>2, Zenon DEF WriteLog, TypeOK, Bread
  <2>4. DOMAIN lh \subseteq Slot
    BY <1>h, <1>0 DEF HeadInv, Slot
  <2>5. \A i \in DOMAIN lh : i <= tail => dlog[i] = buf[lh[i]]
    BY <1>p, <1>4, Zenon DEF CopyInv, WriteLog
  <2>6. \A i \in DOMAIN lh : i <= tail + 1 => dlog'[i] = buf[lh[i]]
    BY <1>0, <2>3, <2>4, <2>5
  <2>7. \A i \in DOMAIN lh' : i <= tail' => dlog'[i] = buf'[lh'[i]]
    BY <2>1, <2>6, Zenon
  <2>8. phase' = "write_head" => \A i \in DOMAIN lh' : i <= tail'
    BY <1>0, <2>1
  <2> QED
    BY <2>1, <2>7, <2>8, Zenon DEF CopyInv
<1>5. CASE WriteHead
  BY <1>p, <1>c, <1>0, <1>5 DEF WriteHead, CopyInv, CacheInv
<1>6. CASE Install
  <2>1. /\ buf' = buf /\ lh' = lh /\ dlog' = dlog /\ tail' = tail + 1
        /\ pin' = pin \ {lh[tail + 1]}
        /\ phase' \in {"install", "clear"}
        /\ phase' = "clear" => tail + 1 = Len(lh)
    BY <1>6, CopyKeepsCache, Zenon DEF Install, InstallTrans
  <2>2. /\ tail + 1 \in DOMAIN lh /\ lh[tail + 1] \in Block
        /\ \A i \in DOMAIN lh : i # tail + 1 => lh[i] # lh[tail + 1]
    BY <1>6, CopyAt, Zenon DEF Install
  <2>3. /\ home'[lh[tail + 1]] = dlog[tail + 1]
        /\ \A b \in Block : b # lh[tail + 1] => home'[b] = home[b]
    BY <1>t, <1>6, <2>2, Zenon DEF Install, InstallTrans, TypeOK
  <2>0. \A i \in DOMAIN lh :
          /\ i > tail => lh[i] \in pin /\ buf[lh[i]] = dlog[i]
          /\ i <= tail => home[lh[i]] = dlog[i] /\ buf[lh[i]] \in {NoBuf, home[lh[i]]}
    BY <1>p, <1>6, Zenon DEF CopyInv, Install, Clean
  <2>4. ASSUME NEW i \in DOMAIN lh
        PROVE  /\ i > tail + 1 => lh[i] \in pin' /\ buf[lh[i]] = dlog[i]
               /\ i <= tail + 1 => home'[lh[i]] = dlog[i]
                                   /\ buf[lh[i]] \in {NoBuf, home'[lh[i]]}
    <3>1. lh[i] \in Block
      BY <1>t, <1>0, ElementOfSeq, Zenon DEF TypeOK
    <3>2. CASE i = tail + 1
      BY <1>0, <2>0, <2>3, <3>2
    <3>3. CASE i > tail + 1
      <4>1. lh[i] # lh[tail + 1] /\ lh[i] \in pin /\ buf[lh[i]] = dlog[i]
        BY <1>0, <2>0, <2>2, <3>3
      <4>2. ~(i <= tail + 1)
        BY <1>0, <3>3
      <4> QED
        BY <2>1, <4>1, <4>2, Zenon
    <3>4. CASE i <= tail
      <4>1. lh[i] # lh[tail + 1]
        BY <1>0, <2>2, <3>4
      <4> QED
        BY <1>0, <2>0, <2>3, <3>1, <3>4, <4>1
    <3> QED
      BY <1>0, <3>2, <3>3, <3>4
  <2>5. ASSUME phase' = "clear", NEW i \in DOMAIN lh
        PROVE  i <= tail + 1
    BY <1>0, <2>1, <2>5
  <2>6. \A i \in DOMAIN lh : i > tail' => lh[i] \in pin' /\ buf'[lh[i]] = dlog'[i]
    BY <2>1, <2>4, Zenon
  <2>7. \A i \in DOMAIN lh : i <= tail' => home'[lh[i]] = dlog'[i] /\ Clean(lh[i])'
    BY <2>1, <2>4, Zenon DEF Clean
  <2> QED
    BY <2>1, <2>5, <2>6, <2>7, Zenon DEF CopyInv
<1>7. CASE Clear \/ Erase \/ Crash
  BY <1>p, <1>7, Zenon DEF CopyInv, Clear, Erase, Crash
<1>8. CASE Finish
  BY <1>p, <1>8, Zenon DEF CopyInv, Finish
<1>9. ASSUME NEW b \in Block, Evict(b) PROVE CopyInv'
  <2>1. /\ b \notin pin /\ \A c \in Block : c # b => buf'[c] = buf[c]
        /\ buf'[b] = NoBuf
        /\ UNCHANGED <<home, dlog, pin, lh, phase, tail>>
    BY <1>t, <1>9, Zenon DEF Evict, TypeOK
  <2>2. \A c \in Block : Clean(c) => Clean(c)'
    BY <2>1, Zenon DEF Clean
  <2>3. \A i \in DOMAIN lh : lh[i] \in Block
    BY <1>t, <1>0, ElementOfSeq, Zenon DEF TypeOK
  <2>4. \A i \in DOMAIN lh : lh[i] \in pin => buf'[lh[i]] = buf[lh[i]]
    BY <2>1, <2>3, Zenon
  <2>5. \A i \in DOMAIN lh : phase \in {"write_log", "write_head"} => lh[i] \in pin
    BY <1>c, Zenon DEF CacheInv
  <2>6. \A i \in DOMAIN lh : Clean(lh[i]) => Clean(lh[i])'
    BY <2>1, <2>2, <2>3, Zenon DEF Clean
  <2> QED
    BY <1>p, <2>1, <2>4, <2>5, <2>6, Zenon DEF CopyInv
<1>10. CASE ReadHead
  BY <1>p, <1>t, <1>10, LenProperties DEF CopyInv, ReadHead, TypeOK
<1>11. CASE Replay
  <2>1. /\ lh' = lh /\ dlog' = dlog /\ tail' = tail + 1
        /\ phase' \in {"replay", "erase"}
        /\ phase' = "erase" => tail + 1 = Len(lh)
    BY <1>11, Zenon DEF Replay, InstallTrans
  <2>2. /\ tail + 1 \in DOMAIN lh /\ lh[tail + 1] \in Block
        /\ \A i \in DOMAIN lh : i # tail + 1 => lh[i] # lh[tail + 1]
        /\ \A i \in DOMAIN lh : lh[i] \in Block
    BY <1>t, <1>0, <1>11, CopyAt, ElementOfSeq, Zenon DEF Replay, TypeOK
  <2>3. /\ home'[lh[tail + 1]] = dlog[tail + 1]
        /\ \A b \in Block : b # lh[tail + 1] => home'[b] = home[b]
    BY <1>t, <1>11, <2>2, Zenon DEF Replay, InstallTrans, TypeOK
  <2>4. \A i \in DOMAIN lh : i <= tail + 1 => home'[lh[i]] = dlog[i]
    <3>1. \A i \in DOMAIN lh : i <= tail => home[lh[i]] = dlog[i]
      BY <1>p, <1>11, Zenon DEF CopyInv, Replay
    <3> QED
      BY <1>0, <2>2, <2>3, <3>1
  <2>5. \A i \in DOMAIN lh' : i <= tail' => home'[lh'[i]] = dlog'[i]
    BY <2>1, <2>4, Zenon
  <2>6. phase' = "erase" => \A i \in DOMAIN lh' : i <= tail'
    BY <1>0, <2>1
  <2> QED
    BY <2>1, <2>5, <2>6, Zenon DEF CopyInv
<1>12. CASE UNCHANGED vars
  BY <1>p, <1>12, Zenon DEF CopyInv, vars, Clean
<1> QED
  BY <1>1, <1>2, <1>3, <1>4, <1>5, <1>6, <1>7, <1>8, <1>9, <1>10, <1>11,
     <1>12, Zenon DEF Next, CommitStep, RecoveryStep

\* The inductive invariant is one.
LEMMA IInvAlways == Spec => []IInv
<1>1. Init => IInv
  BY InitIInv, Zenon
<1>2. IInv /\ [Next]_vars => IInv'
  BY NextType, NextOp, NextHead, NextCache, NextCopy, Zenon DEF IInv
<1> QED
  BY <1>1, <1>2, PTL DEF Spec

-----------------------------------------------------------------------------
(* Recovery, as a function of what is on the disk *)

RecOf(h, l, d) ==
  [b \in Block |-> IF \E i \in DOMAIN d : d[i] = b
                  THEN l[CHOOSE i \in DOMAIN d : d[i] = b]
                  ELSE h[b]]

\* Recovery takes a block from the log if the header names it.
LEMMA RecOfIs ==
  ASSUME NEW h, NEW l, NEW d, Distinct(d), NEW b \in Block
  PROVE  /\ \A i \in DOMAIN d : d[i] = b => RecOf(h, l, d)[b] = l[i]
         /\ (\A i \in DOMAIN d : d[i] # b) => RecOf(h, l, d)[b] = h[b]
<1>1. ASSUME NEW i \in DOMAIN d, d[i] = b
      PROVE  RecOf(h, l, d)[b] = l[i]
  <2>1. (CHOOSE j \in DOMAIN d : d[j] = b) = i
    BY <1>1, Zenon DEF Distinct
  <2> QED
    BY <1>1, <2>1, Zenon DEF RecOf
<1> QED
  BY <1>1, Zenon DEF RecOf

\* Two disks recover to the same contents if they do so block by block.
LEMMA SameRecOf ==
  ASSUME NEW h1, NEW l1, NEW d1, NEW h2, NEW l2, NEW d2,
         \A b \in Block : RecOf(h1, l1, d1)[b] = RecOf(h2, l2, d2)[b]
  PROVE  RecOf(h1, l1, d1) = RecOf(h2, l2, d2)
  BY Zenon DEF RecOf

\* With an empty header, recovery changes nothing.
LEMMA RecOfEmpty ==
  ASSUME NEW h \in [Block -> Val], NEW l
  PROVE  RecOf(h, l, <<>>) = h
  BY DEF RecOf

\* While a transaction is installed or replayed, what would be recovered stays
\* the same.
LEMMA InstallKeepsRecovered ==
  ASSUME IInv, InstallTrans, phase \in {"install", "replay"}
  PROVE  Recovered' = Recovered
<1> USE DEF IInv
<1>1. /\ tail + 1 \in DOMAIN lh /\ lh[tail + 1] \in Block
      /\ dhead = lh /\ dhead' = dhead /\ dlog' = dlog
      /\ Distinct(dhead)
  BY CopyAt, Zenon DEF InstallTrans, HeadInv
<1>2. \A b \in Block : b # lh[tail + 1] => home'[b] = home[b]
  BY Zenon DEF InstallTrans, TypeOK
<1>d. Distinct(dhead)
  BY <1>1, Zenon
<1>3. ASSUME NEW b \in Block
      PROVE  RecOf(home', dlog, dhead)[b] = RecOf(home, dlog, dhead)[b]
  <2>0. /\ \A i \in DOMAIN dhead : dhead[i] = b => RecOf(home, dlog, dhead)[b] = dlog[i]
        /\ (\A i \in DOMAIN dhead : dhead[i] # b) => RecOf(home, dlog, dhead)[b] = home[b]
    BY <1>d, RecOfIs
  <2>3. /\ \A i \in DOMAIN dhead : dhead[i] = b => RecOf(home', dlog, dhead)[b] = dlog[i]
        /\ (\A i \in DOMAIN dhead : dhead[i] # b) => RecOf(home', dlog, dhead)[b] = home'[b]
    BY <1>d, RecOfIs
  <2>1. CASE \E i \in DOMAIN dhead : dhead[i] = b
    BY <2>0, <2>1, <2>3, Zenon
  <2>2. CASE \A i \in DOMAIN dhead : dhead[i] # b
    BY <1>1, <1>2, <2>0, <2>2, <2>3, Zenon
  <2> QED
    BY <2>1, <2>2, Zenon
<1>4. RecOf(home', dlog, dhead) = RecOf(home, dlog, dhead)
  BY <1>3, SameRecOf
<1> QED
  BY <1>1, <1>4, Zenon DEF Recovered, RecOf

\* Erasing the header of an installed transaction does not change it either.
LEMMA EraseKeepsRecovered ==
  ASSUME IInv, Clear \/ Erase
  PROVE  Recovered' = Recovered /\ Recovered = home
<1> USE DEF IInv
<1>1. /\ dhead = lh /\ dhead' = <<>> /\ UNCHANGED <<home, dlog>>
      /\ Distinct(dhead)
      /\ \A i \in DOMAIN lh : home[lh[i]] = dlog[i]
  BY Zenon DEF Clear, Erase, HeadInv, CopyInv
<1>d. Distinct(dhead)
  BY <1>1, Zenon
<1>2. ASSUME NEW b \in Block
      PROVE  RecOf(home, dlog, dhead)[b] = home[b]
  <2>0. /\ \A i \in DOMAIN dhead : dhead[i] = b => RecOf(home, dlog, dhead)[b] = dlog[i]
        /\ (\A i \in DOMAIN dhead : dhead[i] # b) => RecOf(home, dlog, dhead)[b] = home[b]
    BY <1>d, RecOfIs
  <2>1. CASE \E i \in DOMAIN dhead : dhead[i] = b
    BY <1>1, <2>0, <2>1, Zenon
  <2>2. CASE \A i \in DOMAIN dhead : dhead[i] # b
    BY <2>0, <2>2, Zenon
  <2> QED
    BY <2>1, <2>2, Zenon
<1>3. RecOf(home, dlog, <<>>) = home
  BY RecOfEmpty, Zenon DEF TypeOK
<1>4. RecOf(home, dlog, dhead) = RecOf(home, dlog, <<>>)
  BY <1>2, <1>3, SameRecOf
<1>5. Recovered = RecOf(home, dlog, dhead) /\ Recovered' = RecOf(home', dlog', dhead')
  BY Zenon DEF Recovered, RecOf
<1> QED
  BY <1>1, <1>3, <1>4, <1>5, Zenon

\* The header in memory names each block once and fits into the log area; and
\* when no system call is active and no commit runs, all updates are on disk.
THEOREM LogHeaderFits == Spec => []LogFits
<1>1. IInv => LogFits
  <2> SUFFICES ASSUME IInv
               PROVE  LogFits
    BY Zenon
  <2> USE DEF IInv
  <2>1. ASSUME phase = "up", outstanding = 0
        PROVE  Contents = Recovered
    <3>1. ActiveOps = {}
      <4>1. IsFiniteSet(ActiveOps)
        BY LogAssumption, FS_Subset, Zenon DEF ActiveOps
      <4> QED
        BY <2>1, <4>1, FS_EmptySet, Zenon DEF OpInv
    <3>2. lh = <<>> /\ dhead = <<>>
      BY <2>1, <3>1, Zenon DEF OpInv, HeadInv
    <3>3. \A b \in Block : Bread(b) = home[b]
      BY <2>1, <3>2 DEF CacheInv, Clean, Bread
    <3>4. Recovered = home
      BY <3>2, RecOfEmpty DEF Recovered, RecOf, TypeOK
    <3> QED
      BY <2>1, <3>3, <3>4, Zenon DEF Contents, Up, Recovering, TypeOK
  <2> QED
    BY <2>1, Zenon DEF LogFits, HeadInv, Distinct
<1> QED
  BY <1>1, IInvAlways, PTL

-----------------------------------------------------------------------------
(* The refinement of AtomicDisk *)

\* The threads that are active on the atomic disk.
Inside == {o \in Op : Up /\ pc[o] = "active"}

Same == Contents' = Contents /\ Recovered' = Recovered /\ Inside' = Inside

\* The initial states are initial states of the atomic disk.
LEMMA InitAtomic ==
  ASSUME Init
  PROVE  Atomic!Init
<1>1. Recovered = home /\ home \in [Block -> Val]
  BY RecOfEmpty DEF Init, Recovered, RecOf
<1>2. ~Up
  BY Zenon DEF Init, Up, Recovering
<1> QED
  BY <1>1, <1>2, Zenon DEF Atomic!Init, Contents

\* If memory and disk change no block as readers see it, and no thread enters
\* or leaves, the atomic disk does not change.
LEMMA SameUp ==
  ASSUME Up, Up', Recovered' = Recovered, pc' = pc,
         \A b \in Block : Bread(b)' = Bread(b)
  PROVE  Same
  BY Zenon DEF Same, Contents, Inside

\* A machine that is not up shows what it will recover to.
LEMMA SameDown ==
  ASSUME ~Up, ~Up', Recovered' = Recovered
  PROVE  Same
  BY Zenon DEF Same, Contents, Inside

\* Every step of log.c is a step of the atomic disk, or leaves it alone.
LEMMA NextAtomic ==
  ASSUME IInv, [Next]_vars
  PROVE  [Atomic!Next]_(Atomic!avars)
<1> USE LogAssumption DEF IInv, disk
<1>0. ASSUME Same PROVE [Atomic!Next]_(Atomic!avars)
  BY <1>0, Zenon DEF Same, Inside, Atomic!avars
<1>1. ASSUME NEW o \in Op, Call(o) PROVE Same
  <2>1. UNCHANGED <<home, dlog, dhead, buf, phase>>
    BY <1>1, Zenon DEF Call
  <2>2. Inside' = Inside
    BY <1>1, Zenon DEF Call, Inside, Up, Recovering, TypeOK
  <2> QED
    BY <2>1, <2>2, Zenon DEF Same, Contents, Recovered, Bread, Up, Recovering
<1>2. ASSUME NEW o \in Op, BeginOp(o) PROVE [Atomic!Next]_(Atomic!avars)
  <2>1. UNCHANGED <<home, dlog, dhead, buf, phase>> /\ Up /\ Up'
    BY <1>2, Zenon DEF BeginOp, Up, Recovering
  <2>2. Contents' = Contents /\ Recovered' = Recovered
    BY <2>1, Zenon DEF Contents, Recovered, Bread, Up, Recovering
  <2>3. CASE Admits
    <3>1. Inside' = Inside \cup {o} /\ o \notin Inside
      BY <1>2, <2>1, <2>3, Zenon DEF BeginOp, Inside, TypeOK
    <3>2. Atomic!Begin(o)
      BY <2>2, <3>1, Zenon DEF Atomic!Begin, Inside
    <3> QED
      BY <3>2, Zenon DEF Atomic!Next
  <2>4. CASE ~Admits
    <3>1. Inside' = Inside
      BY <1>2, <2>1, <2>4, Zenon DEF BeginOp, Inside, TypeOK
    <3> QED
      BY <1>0, <2>2, <3>1, Zenon DEF Same
  <2> QED
    BY <2>3, <2>4, Zenon
<1>3. ASSUME NEW o \in Op, EndOp(o) PROVE [Atomic!Next]_(Atomic!avars)
  <2>1. /\ UNCHANGED <<home, dlog, dhead, buf>> /\ Up /\ Up'
        /\ o \in ActiveOps /\ ActiveOps' = ActiveOps \ {o}
    BY <1>3, EndFacts, Zenon DEF Up, Recovering
  <2>2. Contents' = Contents /\ Recovered' = Recovered
    BY <2>1, Zenon DEF Contents, Recovered, Bread
  <2>3. Inside' = Inside \ {o} /\ o \in Inside
    BY <2>1, Zenon DEF Inside, ActiveOps
  <2>4. Atomic!End(o)
    BY <2>2, <2>3, Zenon DEF Atomic!End, Inside
  <2> QED
    BY <2>4, Zenon DEF Atomic!Next
<1>4. ASSUME NEW o \in Op, NEW b \in Block, NEW v \in Val, LogWrite(o, b, v)
      PROVE  [Atomic!Next]_(Atomic!avars)
  <2>1. /\ UNCHANGED <<home, dlog, dhead, pc>> /\ Up /\ o \in Inside
        /\ phase = "up"
    BY <1>4, WriteFacts, Zenon DEF Up, Recovering, Inside, ActiveOps
  <2>2. Recovered' = Recovered
    BY <2>1, Zenon DEF Recovered
  <2>3. CASE phase' = "panic"
    <3>1. ~Up' /\ Inside' = {}
      BY <2>3, Zenon DEF Up, Inside
    <3>2. Atomic!Crash
      BY <2>2, <3>1, Zenon DEF Atomic!Crash, Contents, Inside
    <3> QED
      BY <3>2, Zenon DEF Atomic!Next
  <2>4. CASE phase' # "panic"
    <3>1. phase' = "up" /\ buf' = [buf EXCEPT ![b] = v]
      BY <1>4, <2>4, WriteFacts, Zenon
    <3>2. Up' /\ Inside' = Inside
      BY <2>1, <3>1, Zenon DEF Up, Recovering, Inside
    <3>3. \A c \in Block : Bread(c)' = IF c = b THEN v ELSE Bread(c)
      BY <2>1, <3>1, Zenon DEF Bread, TypeOK
    <3>4. Contents' = [Contents EXCEPT ![b] = v]
      BY <2>1, <3>2, <3>3, Zenon DEF Contents
    <3>5. Atomic!Write(o, b, v)
      BY <2>1, <2>2, <3>2, <3>4, Zenon DEF Atomic!Write, Inside
    <3> QED
      BY <3>5, Zenon DEF Atomic!Next
  <2> QED
    BY <2>3, <2>4, Zenon
<1>5. ASSUME WriteLog PROVE Same
  <2>1. buf' = buf /\ UNCHANGED <<home, dhead, pc>> /\ dhead = <<>> /\ Up /\ Up'
    BY <1>5, CopyKeepsCache, Zenon DEF WriteLog, HeadInv, Up, Recovering
  <2>2. DOMAIN dhead = {} /\ DOMAIN dhead' = {}
    BY <2>1
  <2>3. Recovered' = Recovered
    BY <2>1, <2>2, Zenon DEF Recovered
  <2> QED
    BY <2>1, <2>3, SameUp, Zenon DEF Bread
<1>6. CASE WriteHead
  <2>1. /\ UNCHANGED <<home, dlog, buf, pc>> /\ Up /\ Up' /\ dhead' = lh
        /\ Distinct(lh) /\ phase = "write_head"
    BY <1>6, Zenon DEF WriteHead, HeadInv, Up, Recovering
  <2>2. Inside = {} /\ Inside' = {}
    BY <2>1, Zenon DEF Inside, OpInv, ActiveOps
  <2>3. Contents' = Contents
    BY <2>1, Zenon DEF Contents, Bread
  <2>d. Distinct(lh)
    BY <2>1, Zenon
  <2>4. ASSUME NEW b \in Block PROVE RecOf(home, dlog, lh)[b] = Bread(b)
    <3>0. /\ \A i \in DOMAIN lh : lh[i] = b => RecOf(home, dlog, lh)[b] = dlog[i]
          /\ (\A i \in DOMAIN lh : lh[i] # b) => RecOf(home, dlog, lh)[b] = home[b]
      BY <2>d, RecOfIs
    <3>1. CASE \E i \in DOMAIN lh : lh[i] = b
      <4>1. PICK i \in DOMAIN lh : lh[i] = b
        BY <3>1, Zenon
      <4>2. buf[b] = dlog[i] /\ buf[b] # NoBuf
        BY <2>1, <4>1, Zenon DEF CopyInv, CacheInv
      <4>3. RecOf(home, dlog, lh)[b] = dlog[i]
        BY <3>0, <4>1, Zenon
      <4>4. Bread(b) = buf[b]
        BY <4>2, Zenon DEF Bread
      <4> QED
        BY <4>2, <4>3, <4>4, Zenon
    <3>2. CASE \A i \in DOMAIN lh : lh[i] # b
      <4>1. Bread(b) = home[b]
        <5>1. Clean(b)
          BY <2>1, <3>2, Zenon DEF CacheInv
        <5> QED
          BY <5>1, Zenon DEF Clean, Bread
      <4> QED
        BY <3>0, <3>2, <4>1, Zenon
    <3> QED
      BY <3>1, <3>2, Zenon
  <2>5. Recovered' = Contents
    <3>1. Recovered' = RecOf(home, dlog, lh)
      BY <2>1, Zenon DEF Recovered, RecOf
    <3>2. RecOf(home, dlog, lh) = [b \in Block |-> RecOf(home, dlog, lh)[b]]
      BY Zenon DEF RecOf
    <3>3. [b \in Block |-> RecOf(home, dlog, lh)[b]] = [b \in Block |-> Bread(b)]
      BY <2>4, Zenon
    <3> QED
      BY <2>1, <3>1, <3>2, <3>3, Zenon DEF Contents
  <2>6. Atomic!Commit
    BY <2>2, <2>3, <2>5, Zenon DEF Atomic!Commit, Inside
  <2> QED
    BY <2>6, Zenon DEF Atomic!Next
<1>7. ASSUME Install PROVE Same
  <2>1. buf' = buf /\ pc' = pc /\ Up /\ Up' /\ Recovered' = Recovered
    BY <1>7, CopyKeepsCache, InstallKeepsRecovered, Zenon
       DEF Install, InstallTrans, Up, Recovering
  <2>2. /\ tail + 1 \in DOMAIN lh /\ lh[tail + 1] \in pin
        /\ buf[lh[tail + 1]] # NoBuf
    <3>1. tail + 1 \in DOMAIN lh /\ tail + 1 > tail
      BY <1>7, CopyAt DEF Install, TypeOK
    <3> QED
      BY <1>7, <3>1, Zenon DEF Install, CopyInv, CacheInv
  <2>3. \A b \in Block : b # lh[tail + 1] => home'[b] = home[b]
    BY <1>7, Zenon DEF Install, InstallTrans, TypeOK
  <2>4. \A b \in Block : Bread(b)' = Bread(b)
    BY <2>1, <2>2, <2>3, Zenon DEF Bread
  <2> QED
    BY <2>1, <2>4, SameUp, Zenon
<1>8. ASSUME Clear PROVE Same
  <2>1. UNCHANGED <<home, buf, pc>> /\ Up /\ Up'
    BY <1>8, Zenon DEF Clear, Up, Recovering
  <2> QED
    BY <1>8, <2>1, SameUp, EraseKeepsRecovered, Zenon DEF Bread
<1>9. ASSUME Finish PROVE Same
  <2>1. UNCHANGED <<home, dlog, dhead, buf>> /\ Up /\ Up'
    BY <1>9, Zenon DEF Finish, Up, Recovering
  <2>2. Contents' = Contents /\ Recovered' = Recovered
    BY <2>1, Zenon DEF Contents, Recovered, Bread
  <2>3. Inside' = Inside
    BY <1>9, <2>1, Zenon DEF Finish, Wakeup, Inside, TypeOK
  <2> QED
    BY <2>2, <2>3, Zenon DEF Same
<1>10. ASSUME NEW b \in Block, Evict(b) PROVE Same
  <2>1. /\ UNCHANGED <<home, dlog, dhead, pc, phase>>
        /\ b \notin pin /\ phase # "panic"
        /\ buf' = [buf EXCEPT ![b] = NoBuf]
    BY <1>10, Zenon DEF Evict
  <2>2. Recovered' = Recovered
    BY <2>1, Zenon DEF Recovered
  <2>3. CASE Up
    <3>1. Clean(b)
      BY <2>1, <2>3, SMTT(40) DEF CacheInv, CopyInv, HeadInv, Up, Recovering, TypeOK
    <3>2. \A c \in Block : Bread(c)' = Bread(c)
      BY <2>1, <3>1, Zenon DEF Bread, Clean, TypeOK
    <3>3. Up'
      BY <2>1, <2>3, Zenon DEF Up, Recovering
    <3> QED
      BY <2>1, <2>2, <2>3, <3>2, <3>3, SameUp, Zenon
  <2>4. CASE ~Up
    <3>1. ~Up'
      BY <2>1, <2>4, Zenon DEF Up, Recovering
    <3> QED
      BY <2>2, <2>4, <3>1, SameDown, Zenon
  <2> QED
    BY <2>3, <2>4, Zenon
<1>11. CASE Crash
  <2>1. ~Up' /\ Recovered' = Recovered /\ Inside' = {}
    BY <1>11, Zenon DEF Crash, Up, Recovering, Recovered, Inside
  <2>2. Atomic!Crash
    BY <2>1, Zenon DEF Atomic!Crash, Contents, Inside
  <2> QED
    BY <2>2, Zenon DEF Atomic!Next
<1>12. ASSUME ReadHead PROVE Same
  <2>1. ~Up /\ ~Up' /\ Recovered' = Recovered
    BY <1>12, Zenon DEF ReadHead, Up, Recovering, Recovered
  <2> QED
    BY <2>1, SameDown, Zenon
<1>13. ASSUME Replay PROVE Same
  <2>1. ~Up /\ ~Up' /\ Recovered' = Recovered
    BY <1>13, InstallKeepsRecovered, Zenon DEF Replay, Up, Recovering
  <2> QED
    BY <2>1, SameDown, Zenon
<1>14. ASSUME Erase PROVE Same
  <2>1. /\ UNCHANGED <<home, buf, pc>> /\ ~Up /\ Up' /\ phase = "erase"
        /\ Recovered' = Recovered /\ Recovered = home
    BY <1>14, EraseKeepsRecovered, Zenon DEF Erase, Up, Recovering
  <2>2. \A b \in Block : Bread(b)' = home[b]
    BY <2>1, Zenon DEF CacheInv, Clean, Bread
  <2>3. Contents' = Contents
    BY <2>1, <2>2, Zenon DEF Contents, TypeOK
  <2>4. Inside = {} /\ Inside' = {}
    BY <2>1, Zenon DEF Inside, OpInv, ActiveOps
  <2> QED
    BY <2>1, <2>3, <2>4, Zenon DEF Same
<1>15. ASSUME UNCHANGED vars PROVE Same
  BY <1>15, Zenon DEF vars, Same, Contents, Recovered, Bread, Inside, Up, Recovering
<1> QED
  BY <1>0, <1>1, <1>2, <1>3, <1>4, <1>5, <1>6, <1>7, <1>8, <1>9, <1>10, <1>11,
     <1>12, <1>13, <1>14, <1>15, Zenon DEF Next, CommitStep, RecoveryStep

\* Crash atomicity for any number of threads, blocks and log blocks: log.c, with
\* crashes at every point, implements the atomic disk.
THEOREM LogIsAtomic == Spec => CrashAtomic
<1>1. Init => Atomic!Init
  BY InitAtomic, Zenon
<1>2. IInv /\ [Next]_vars => [Atomic!Next]_(Atomic!avars)
  BY NextAtomic, Zenon
<1> QED
  BY <1>1, <1>2, IInvAlways, PTL DEF Spec, CrashAtomic, Atomic!Spec
=============================================================================
