------------------------------ MODULE PipeProof ------------------------------
(***************************************************************************)
(* Proofs about Pipe for any processes, buffer size and width of the       *)
(* counters: the page is freed once and in peace, no wakeup is missed, and *)
(* a pipe is a bounded FIFO.                                               *)
(***************************************************************************)
EXTENDS Pipe, RingProof, FiniteSetTheorems, TLAPS

Point == {"user", "wlock", "write", "wsleep", "rlock", "rwait", "rsleep",
          "rcopy", "closer", "closew", "kfree"}
Writing == {"wlock", "write", "wsleep"}
Reading == {"rlock", "rwait", "rsleep", "rcopy"}

\* pi->lock is held by whoever is in a loop of pipe.c, and by nobody else.
LockInv ==
  \A p \in Proc : pc[p] \in {"write", "rwait", "rcopy"} <=> lock = p

\* Processes inside pipewrite() or piperead() keep their descriptors.  An end
\* with descriptors is open; without any it is closed, or its last holder is
\* on the way to pipeclose().
EndInv ==
  /\ \A p \in Proc : /\ pc[p] \in Writing => p \in wfd
                     /\ pc[p] \in Reading => p \in rfd
                     /\ pc[p] = "closew" => wfd = {} /\ writeopen
                     /\ pc[p] = "closer" => rfd = {} /\ readopen
  /\ \A p, q \in Proc : pc[p] = pc[q] /\ pc[p] \in {"closew", "closer"} => p = q
  /\ ~writeopen => wfd = {}
  /\ ~readopen => rfd = {}

\* kfree() is called once, after both ends were closed.
FreeInv ==
  /\ frees <= 1
  /\ frees # 0 => ~readopen /\ ~writeopen
  /\ \A p \in Proc : pc[p] = "kfree" => frees = 0 /\ ~readopen /\ ~writeopen
  /\ \A p, q \in Proc : pc[p] = "kfree" /\ pc[q] = "kfree" => p = q

IInv == TypeOK /\ LockInv /\ EndInv /\ FreeInv /\ SleepersBlocked

\* The counters stay in range.
LEMMA Counters ==
  ASSUME NEW k \in 0 .. UINT - 1
  PROVE  (k + 1) % UINT \in 0 .. UINT - 1 /\ k % PIPESIZE \in 0 .. PIPESIZE - 1
<1>1. UINT \in Nat \ {0} /\ k + 1 \in Int /\ k \in Int
  BY PipeAssumption
<1> QED
  BY <1>1, PipeAssumption

\* Init establishes the inductive invariant.
LEMMA InitIInv ==
  ASSUME Init
  PROVE  IInv
<1> USE PipeAssumption
<1>1. TypeOK
  <2>1. data \in [0 .. PIPESIZE - 1 -> Byte]
    BY Zenon DEF Init
  <2>2. 0 \in 0 .. UINT - 1
    OBVIOUS
  <2>3. /\ killed \in [Proc -> BOOLEAN]
        /\ readopen \in BOOLEAN /\ writeopen \in BOOLEAN /\ unannounced \in BOOLEAN
    BY Zenon DEF Init
  <2>4. /\ n \in [Proc -> Count \cup {0}] /\ i \in [Proc -> Nat]
        /\ \A p \in Proc : i[p] <= n[p]
    BY DEF Init
  <2>5. rfd \subseteq Proc /\ wfd \subseteq Proc
    BY Zenon DEF Init
  <2> QED
    BY <2>1, <2>2, <2>3, <2>4, <2>5, Zenon DEF Init, TypeOK
<1>2. LockInv /\ EndInv /\ FreeInv /\ SleepersBlocked
  BY DEF Init, LockInv, EndInv, FreeInv, SleepersBlocked, Writing, Reading
<1> QED
  BY <1>1, <1>2, Zenon DEF IInv

\* A move of p, and what it does to the others: nothing but to wake sleepers.
Moves(p, point, ch) ==
  /\ pc' \in [Proc -> Point] /\ pc'[p] = point
  /\ \A q \in Proc \ {p} :
       \/ pc'[q] = pc[q] /\ pc[q] \notin ch
       \/ pc[q] = "rsleep" /\ "rsleep" \in ch /\ pc'[q] = "rlock"
       \/ pc[q] = "wsleep" /\ "wsleep" \in ch /\ pc'[q] = "wlock"

\* Goto() is such a move.
LEMMA GotoMoves ==
  ASSUME TypeOK, NEW p \in Proc, NEW point \in Point,
         NEW ch \in SUBSET {"rsleep", "wsleep"}, Goto(p, point, ch)
  PROVE  Moves(p, point, ch)
<1>1. pc \in [Proc -> Point]
  BY Zenon DEF TypeOK, Point
<1>2. \A q \in Proc :
        pc'[q] = CASE q = p -> point
                   [] q # p /\ pc[q] = "rsleep" /\ "rsleep" \in ch -> "rlock"
                   [] q # p /\ pc[q] = "wsleep" /\ "wsleep" \in ch -> "wlock"
                   [] OTHER -> pc[q]
  BY Zenon DEF Goto
<1>3. ASSUME NEW q \in Proc, q # p
      PROVE  /\ \/ pc'[q] = pc[q] /\ pc[q] \notin ch
                \/ pc[q] = "rsleep" /\ "rsleep" \in ch /\ pc'[q] = "rlock"
                \/ pc[q] = "wsleep" /\ "wsleep" \in ch /\ pc'[q] = "wlock"
             /\ pc'[q] \in Point
  <2>1. CASE pc[q] = "rsleep" /\ "rsleep" \in ch
    BY <1>2, <1>3, <2>1, Zenon DEF Point
  <2>2. CASE pc[q] = "wsleep" /\ "wsleep" \in ch
    BY <1>2, <1>3, <2>2, Zenon DEF Point
  <2>3. CASE pc[q] \notin ch
    BY <1>1, <1>2, <1>3, <2>3, Zenon
  <2> QED
    BY <2>1, <2>2, <2>3, Zenon
<1>4. pc'[p] = point
  BY <1>2, Zenon
<1>5. pc' = [q \in Proc |-> pc'[q]]
  BY Zenon DEF Goto
<1> QED
  BY <1>3, <1>4, <1>5, Zenon DEF Moves

\* Goto() with a wakeup of the readers, of the writers or of nobody.
LEMMA Channels ==
  /\ {} \in SUBSET {"rsleep", "wsleep"}
  /\ {"rsleep"} \in SUBSET {"rsleep", "wsleep"}
  /\ {"wsleep"} \in SUBSET {"rsleep", "wsleep"}
  BY Zenon

\* kill() moves one process, and only from its sleep.
LEMMA KillMoves ==
  ASSUME TypeOK, NEW p \in Proc, Kill(p)
  PROVE  /\ pc' \in [Proc -> Point] /\ \A q \in Proc \ {p} : pc'[q] = pc[q]
         /\ \/ pc'[p] = pc[p] /\ pc[p] \notin {"rsleep", "wsleep"}
            \/ pc[p] = "rsleep" /\ pc'[p] = "rlock"
            \/ pc[p] = "wsleep" /\ pc'[p] = "wlock"
<1>1. pc \in [Proc -> Point]
  BY Zenon DEF TypeOK, Point
<1>2. pc' = [pc EXCEPT ![p] = CASE pc[p] = "rsleep" -> "rlock"
                                [] pc[p] = "wsleep" -> "wlock"
                                [] OTHER -> pc[p]]
  BY Zenon DEF Kill
<1>3. CASE pc[p] = "rsleep"
  BY <1>1, <1>2, <1>3, Zenon DEF Point
<1>4. CASE pc[p] = "wsleep"
  BY <1>1, <1>2, <1>4, Zenon DEF Point
<1>5. CASE pc[p] \notin {"rsleep", "wsleep"}
  BY <1>1, <1>2, <1>5, Zenon DEF Point
<1> QED
  BY <1>3, <1>4, <1>5, Zenon

\* Return() moves p back to user mode and drops its locals.
LEMMA Returns ==
  ASSUME TypeOK, NEW p \in Proc, NEW ch \in SUBSET {"rsleep", "wsleep"},
         Return(p, ch)
  PROVE  /\ Moves(p, "user", ch) /\ lock' = NoProc
         /\ n' \in [Proc -> Count \cup {0}] /\ i' \in [Proc -> Nat]
         /\ \A q \in Proc : i'[q] <= n'[q] /\ (q # p => i'[q] = i[q])
<1>1. Moves(p, "user", ch)
  BY GotoMoves, Zenon DEF Return, Point
<1>2. /\ \A q \in Proc : n'[q] = IF q = p THEN 0 ELSE n[q]
      /\ \A q \in Proc : i'[q] = IF q = p THEN 0 ELSE i[q]
      /\ n' \in [Proc -> Count \cup {0}] /\ i' \in [Proc -> Nat]
  BY Zenon DEF Return, TypeOK
<1>3. \A q \in Proc : i'[q] <= n'[q]
  BY <1>2, SMTT(40) DEF TypeOK
<1> QED
  BY <1>1, <1>2, <1>3, Zenon DEF Return

-----------------------------------------------------------------------------
\* Calls count in natural numbers.
LEMMA CountType ==
  ASSUME TypeOK, NEW q \in Proc
  PROVE  i[q] \in Nat /\ n[q] \in Nat
<1>1. i[q] \in Nat
  BY Zenon DEF TypeOK
<1>2. n[q] \in Count \cup {0}
  BY Zenon DEF TypeOK
<1>3. \A k \in Count \cup {0} : k \in Nat
  BY PipeAssumption
<1>4. n[q] \in Nat
  BY <1>2, <1>3, Zenon
<1> QED
  BY <1>1, <1>4, Zenon

\* One byte more is done of the call of p.
LEMMA CountUp ==
  ASSUME TypeOK, NEW p \in Proc, i[p] < n[p], i' = [i EXCEPT ![p] = @ + 1],
         n' = n
  PROVE  /\ i' \in [Proc -> Nat] /\ \A q \in Proc : i'[q] <= n'[q]
         /\ i'[p] > 0 /\ \A q \in Proc \ {p} : i'[q] = i[q]
<1>1. \A q \in Proc : i[q] \in Nat /\ n[q] \in Nat
  BY CountType, Zenon
<1>2. \A q \in Proc : i'[q] = IF q = p THEN i[p] + 1 ELSE i[q]
  BY Zenon DEF TypeOK
<1>3. i' \in [Proc -> Nat]
  BY <1>1, <1>2 DEF TypeOK
<1>4. \A q \in Proc : i[q] <= n[q]
  BY Zenon DEF TypeOK
<1> QED
  BY <1>1, <1>2, <1>3, <1>4

\* Every step keeps the types.
LEMMA NextType ==
  ASSUME TypeOK, [Next]_vars
  PROVE  TypeOK'
<1> USE PipeAssumption, Channels DEF pipe, fds
<1>1. ASSUME NEW p \in Proc, Reads(p) \/ Writes(p) PROVE TypeOK'
  <2>1. PICK k \in Count : /\ n' = [n EXCEPT ![p] = k] /\ i' = [i EXCEPT ![p] = 0]
                           /\ Goto(p, "wlock", {}) \/ Goto(p, "rlock", {})
                           /\ UNCHANGED <<pipe, lock, frees, fds, killed, unannounced>>
    BY <1>1, Zenon DEF Reads, Writes, Read, Write
  <2>2. pc' \in [Proc -> Point]
    BY <2>1, GotoMoves, Zenon DEF Moves, Point
  <2>3. /\ n' \in [Proc -> Count \cup {0}] /\ i' \in [Proc -> Nat]
        /\ \A q \in Proc : i'[q] <= n'[q]
    BY <2>1 DEF TypeOK
  <2> QED
    BY <2>1, <2>2, <2>3, Zenon DEF TypeOK, Point
<1>2. ASSUME NEW p \in Proc, Lock(p) PROVE TypeOK'
  <2>1. pc' \in [Proc -> Point]
    BY <1>2, GotoMoves, Zenon DEF Lock, Moves, Point
  <2> QED
    BY <1>2, <2>1, Zenon DEF TypeOK, Lock, Point
<1>3. ASSUME NEW p \in Proc, WriteFails(p) \/ WriteDone(p) \/ ReadKilled(p)
      PROVE  TypeOK'
  <2>1. Return(p, {}) \/ Return(p, {"rsleep"})
    BY <1>3, Zenon DEF WriteFails, WriteDone, ReadKilled
  <2>2. /\ pc' \in [Proc -> Point] /\ lock' = NoProc
        /\ n' \in [Proc -> Count \cup {0}] /\ i' \in [Proc -> Nat]
        /\ \A q \in Proc : i'[q] <= n'[q]
    BY <2>1, Returns, Zenon DEF Moves
  <2>3. unannounced' \in BOOLEAN
    BY <1>3, Zenon DEF TypeOK, WriteFails, WriteDone, ReadKilled
  <2>4. UNCHANGED <<pipe, frees, fds, killed>>
    BY <1>3, Zenon DEF WriteFails, WriteDone, ReadKilled
  <2> QED
    BY <2>2, <2>3, <2>4, Zenon DEF TypeOK, Point
<1>4. ASSUME NEW p \in Proc, WriteFull(p) \/ ReadSleep(p) PROVE TypeOK'
  <2>1. pc' \in [Proc -> Point]
    BY <1>4, GotoMoves, Zenon DEF WriteFull, ReadSleep, Moves, Point
  <2>2. killed' \in [Proc -> BOOLEAN]
    BY <1>4, Zenon DEF WriteFull, ReadSleep, KilledTooLate, TypeOK
  <2>3. unannounced' \in BOOLEAN
    BY <1>4, Zenon DEF WriteFull, ReadSleep, TypeOK
  <2>4. lock' = NoProc /\ UNCHANGED <<pipe, frees, fds, n, i>>
    BY <1>4, Zenon DEF WriteFull, ReadSleep
  <2> QED
    BY <2>1, <2>2, <2>3, <2>4, Zenon DEF TypeOK, Point
<1>5. ASSUME NEW p \in Proc, NEW b \in Byte, WriteByte(p, b) PROVE TypeOK'
  <2>1. nwrite' \in 0 .. UINT - 1 /\ data' \in [0 .. PIPESIZE - 1 -> Byte]
    BY <1>5, Counters, Zenon DEF WriteByte, TypeOK
  <2>2. i' \in [Proc -> Nat] /\ \A q \in Proc : i'[q] <= n'[q]
    BY <1>5, CountUp, Zenon DEF WriteByte
  <2> QED
    BY <1>5, <2>1, <2>2, Zenon DEF WriteByte, TypeOK
<1>6. ASSUME NEW p \in Proc, ReadReady(p) PROVE TypeOK'
  <2>1. pc' \in [Proc -> Point]
    BY <1>6, GotoMoves, Zenon DEF ReadReady, Moves, Point
  <2> QED
    BY <1>6, <2>1, Zenon DEF ReadReady, TypeOK, Point
<1>7. ASSUME NEW p \in Proc, ReadByte(p) PROVE TypeOK'
  <2>1. nread' \in 0 .. UINT - 1
    BY <1>7, Counters, Zenon DEF ReadByte, TypeOK
  <2>2. i' \in [Proc -> Nat] /\ \A q \in Proc : i'[q] <= n'[q]
    BY <1>7, CountUp, Zenon DEF ReadByte
  <2> QED
    BY <1>7, <2>1, <2>2, Zenon DEF ReadByte, TypeOK
<1>8. ASSUME NEW p \in Proc, ReadDone(p) PROVE TypeOK'
  <2>1. nread' \in 0 .. UINT - 1
    BY <1>8, Counters, Zenon DEF ReadDone, TypeOK
  <2>2. /\ pc' \in [Proc -> Point] /\ lock' = NoProc
        /\ n' \in [Proc -> Count \cup {0}] /\ i' \in [Proc -> Nat]
        /\ \A q \in Proc : i'[q] <= n'[q]
    BY <1>8, Returns, Zenon DEF Moves, ReadDone
  <2> QED
    BY <1>8, <2>1, <2>2, Zenon DEF ReadDone, TypeOK, Point
<1>9. ASSUME NEW p \in Proc, CloseRead(p) \/ CloseWrite(p) PROVE TypeOK'
  <2>1. pc' \in [Proc -> Point]
    BY <1>9, GotoMoves, Zenon DEF CloseRead, CloseWrite, Moves, Point
  <2>2. rfd' \subseteq rfd /\ wfd' \subseteq wfd
    BY <1>9, Zenon DEF CloseRead, CloseWrite
  <2>3. UNCHANGED <<pipe, lock, frees, killed, n, i, unannounced>>
    BY <1>9, Zenon DEF CloseRead, CloseWrite
  <2> QED
    BY <2>1, <2>2, <2>3, Zenon DEF TypeOK, Point
<1>10. ASSUME NEW p \in Proc, PipeClose(p) PROVE TypeOK'
  <2>1. pc' \in [Proc -> Point]
    BY <1>10, GotoMoves, Zenon DEF PipeClose, Moves, Point
  <2>2. readopen' \in BOOLEAN /\ writeopen' \in BOOLEAN /\ unannounced' \in BOOLEAN
    BY <1>10, Zenon DEF PipeClose, TypeOK
  <2>3. UNCHANGED <<nread, nwrite, data, lock, frees, fds, killed, n, i>>
    BY <1>10, Zenon DEF PipeClose
  <2> QED
    BY <2>1, <2>2, <2>3, Zenon DEF TypeOK, Point
<1>11. ASSUME NEW p \in Proc, FreePipe(p) PROVE TypeOK'
  <2>1. pc' \in [Proc -> Point]
    BY <1>11, GotoMoves, Zenon DEF FreePipe, Moves, Point
  <2> QED
    BY <1>11, <2>1 DEF FreePipe, TypeOK, Point
<1>12. ASSUME NEW p \in Proc, Kill(p) PROVE TypeOK'
  <2>1. pc' \in [Proc -> Point]
    BY <1>12, KillMoves, Zenon
  <2>2. killed' \in [Proc -> BOOLEAN]
    BY <1>12, Zenon DEF Kill, TypeOK
  <2>3. UNCHANGED <<pipe, lock, frees, fds, n, i, unannounced>>
    BY <1>12, Zenon DEF Kill
  <2> QED
    BY <2>1, <2>2, <2>3, Zenon DEF TypeOK, Point
<1>13. CASE UNCHANGED vars
  BY <1>13, Zenon DEF vars, TypeOK
<1> QED
  BY <1>1, <1>2, <1>3, <1>4, <1>5, <1>6, <1>7, <1>8, <1>9, <1>10, <1>11,
     <1>12, <1>13, Zenon DEF Next, Running, Closes

-----------------------------------------------------------------------------
\* A move of p that does not touch the ends and the page.
Keeps == UNCHANGED <<readopen, writeopen, frees, rfd, wfd>>

\* A move inside pipewrite() or inside piperead(), or out of them, keeps what
\* is known of the ends and of the page.
LEMMA MoveKeeps ==
  ASSUME EndInv, FreeInv, NEW p \in Proc, NEW point \in Point,
         NEW ch \in SUBSET {"rsleep", "wsleep"}, Moves(p, point, ch), Keeps,
         point \notin {"closew", "closer", "kfree"},
         point \in Writing => p \in wfd, point \in Reading => p \in rfd
  PROVE  EndInv' /\ FreeInv'
<1>1. \A q \in Proc :
        /\ pc'[q] \in Writing => q \in wfd
        /\ pc'[q] \in Reading => q \in rfd
        /\ pc'[q] \in {"closew", "closer", "kfree"} => pc[q] = pc'[q]
  BY Zenon DEF Moves, EndInv, Writing, Reading
<1>2. EndInv'
  BY <1>1, Zenon DEF EndInv, Keeps
<1>3. FreeInv'
  BY <1>1, Zenon DEF FreeInv, Keeps
<1> QED
  BY <1>2, <1>3, Zenon

\* Every step keeps the facts about the two ends and the page.
LEMMA NextEnds ==
  ASSUME IInv, [Next]_vars
  PROVE  EndInv' /\ FreeInv'
<1> USE PipeAssumption, Channels DEF IInv, pipe, fds
<1>0. pc \in [Proc -> Point]
  BY Zenon DEF TypeOK, Point
<1>1. ASSUME NEW p \in Proc, Reads(p) \/ Writes(p) PROVE EndInv' /\ FreeInv'
  <2>1. Keeps
    BY <1>1, Zenon DEF Reads, Writes, Read, Write, Keeps
  <2>2. \/ p \in wfd /\ Moves(p, "wlock", {})
        \/ p \in rfd /\ Moves(p, "rlock", {})
    BY <1>1, GotoMoves, Zenon DEF Reads, Writes, Read, Write, Point
  <2> QED
    BY <2>1, <2>2, MoveKeeps, Zenon DEF Point, Writing, Reading
<1>2. ASSUME NEW p \in Proc, Lock(p) PROVE EndInv' /\ FreeInv'
  <2>1. Keeps
    BY <1>2, Zenon DEF Lock, Keeps
  <2>2. \/ p \in wfd /\ Moves(p, "write", {})
        \/ p \in rfd /\ Moves(p, "rwait", {})
    BY <1>2, GotoMoves, Zenon DEF Lock, Point, EndInv, Writing, Reading
  <2> QED
    BY <2>1, <2>2, MoveKeeps, Zenon DEF Point, Writing, Reading
<1>3. ASSUME NEW p \in Proc,
             WriteFails(p) \/ WriteDone(p) \/ ReadKilled(p) \/ ReadDone(p)
      PROVE  EndInv' /\ FreeInv'
  <2>1. Keeps
    BY <1>3, Zenon DEF WriteFails, WriteDone, ReadKilled, ReadDone, Keeps
  <2>2. \/ Return(p, {}) \/ Return(p, {"rsleep"}) \/ Return(p, {"wsleep"})
    BY <1>3, Zenon DEF WriteFails, WriteDone, ReadKilled, ReadDone
  <2>3. \/ Moves(p, "user", {}) \/ Moves(p, "user", {"rsleep"})
        \/ Moves(p, "user", {"wsleep"})
    BY <2>2, Returns, Zenon
  <2> QED
    BY <2>1, <2>3, MoveKeeps, Zenon DEF Point, Writing, Reading
<1>4. ASSUME NEW p \in Proc, WriteFull(p) \/ ReadSleep(p) \/ ReadReady(p)
      PROVE  EndInv' /\ FreeInv'
  <2>1. Keeps
    BY <1>4, Zenon DEF WriteFull, ReadSleep, ReadReady, Keeps
  <2>2. \/ p \in wfd /\ Moves(p, "wsleep", {"rsleep"})
        \/ p \in rfd /\ (Moves(p, "rsleep", {}) \/ Moves(p, "rcopy", {}))
    BY <1>4, GotoMoves, Zenon
       DEF WriteFull, ReadSleep, ReadReady, Point, EndInv, Writing, Reading
  <2> QED
    BY <2>1, <2>2, MoveKeeps, Zenon DEF Point, Writing, Reading
<1>5. ASSUME NEW p \in Proc, ReadByte(p) \/ \E b \in Byte : WriteByte(p, b)
      PROVE  EndInv' /\ FreeInv'
  <2>1. Keeps /\ pc' = pc
    BY <1>5, Zenon DEF WriteByte, ReadByte, Keeps
  <2> QED
    BY <2>1, Zenon DEF EndInv, FreeInv, Keeps
<1>6. ASSUME NEW p \in Proc, CloseWrite(p) PROVE EndInv' /\ FreeInv'
  <2>1. /\ wfd' = wfd \ {p} /\ p \in wfd /\ pc[p] = "user"
        /\ UNCHANGED <<readopen, writeopen, frees, rfd>>
        /\ Moves(p, IF wfd = {p} THEN "closew" ELSE "user", {})
    BY <1>6, GotoMoves, Zenon DEF CloseWrite, Point
  <2>2. \A q \in Proc \ {p} : pc'[q] = pc[q]
    BY <2>1, Zenon DEF Moves
  <2>3. writeopen /\ frees = 0 /\ \A q \in Proc : pc[q] \notin {"closew", "kfree"}
    BY <2>1, Zenon DEF EndInv, FreeInv, TypeOK
  <2>4. pc'[p] = IF wfd = {p} THEN "closew" ELSE "user"
    BY <2>1, Zenon DEF Moves
  <2>5. \A q \in Proc : pc'[q] \in Writing => q \in wfd'
    BY <2>1, <2>2, <2>4, Zenon DEF EndInv, Writing
  <2>6. EndInv'
    BY <2>1, <2>2, <2>3, <2>4, <2>5, Zenon DEF EndInv, Writing, Reading
  <2>7. FreeInv'
    BY <2>1, <2>2, <2>3, <2>4, Zenon DEF FreeInv
  <2> QED
    BY <2>6, <2>7, Zenon
<1>7. ASSUME NEW p \in Proc, CloseRead(p) PROVE EndInv' /\ FreeInv'
  <2>1. /\ rfd' = rfd \ {p} /\ p \in rfd /\ pc[p] = "user"
        /\ UNCHANGED <<readopen, writeopen, frees, wfd>>
        /\ Moves(p, IF rfd = {p} THEN "closer" ELSE "user", {})
    BY <1>7, GotoMoves, Zenon DEF CloseRead, Point
  <2>2. \A q \in Proc \ {p} : pc'[q] = pc[q]
    BY <2>1, Zenon DEF Moves
  <2>3. readopen /\ frees = 0 /\ \A q \in Proc : pc[q] \notin {"closer", "kfree"}
    BY <2>1, Zenon DEF EndInv, FreeInv, TypeOK
  <2>4. pc'[p] = IF rfd = {p} THEN "closer" ELSE "user"
    BY <2>1, Zenon DEF Moves
  <2>5. \A q \in Proc : pc'[q] \in Reading => q \in rfd'
    BY <2>1, <2>2, <2>4, Zenon DEF EndInv, Reading
  <2>6. EndInv'
    BY <2>1, <2>2, <2>3, <2>4, <2>5, Zenon DEF EndInv, Writing, Reading
  <2>7. FreeInv'
    BY <2>1, <2>2, <2>3, <2>4, Zenon DEF FreeInv
  <2> QED
    BY <2>6, <2>7, Zenon
<1>8. ASSUME NEW p \in Proc, PipeClose(p), pc[p] = "closew"
      PROVE  EndInv' /\ FreeInv'
  <2>1. /\ ~writeopen' /\ UNCHANGED <<readopen, frees, rfd, wfd>>
        /\ Moves(p, IF readopen THEN "user" ELSE "kfree", {"rsleep"})
    BY <1>8, GotoMoves, Zenon DEF PipeClose, Point
  <2>2. /\ wfd = {} /\ writeopen /\ frees = 0
        /\ \A q \in Proc \ {p} : pc[q] \notin {"closew", "kfree"}
    BY <1>8, Zenon DEF EndInv, FreeInv, TypeOK
  <2>3. /\ pc'[p] = IF readopen THEN "user" ELSE "kfree"
        /\ \A q \in Proc \ {p} :
             /\ pc'[q] \in Writing => q \in wfd
             /\ pc'[q] \in Reading => q \in rfd
             /\ pc'[q] \in {"closew", "closer", "kfree"} => pc[q] = pc'[q]
    BY <2>1, Zenon DEF Moves, EndInv, Writing, Reading
  <2>4. EndInv'
    BY <2>1, <2>2, <2>3, Zenon DEF EndInv, Writing, Reading
  <2>5. FreeInv'
    BY <2>1, <2>2, <2>3, Zenon DEF FreeInv
  <2> QED
    BY <2>4, <2>5, Zenon
<1>9. ASSUME NEW p \in Proc, PipeClose(p), pc[p] = "closer"
      PROVE  EndInv' /\ FreeInv'
  <2>1. /\ ~readopen' /\ UNCHANGED <<writeopen, frees, rfd, wfd>>
        /\ Moves(p, IF writeopen THEN "user" ELSE "kfree", {"wsleep"})
    BY <1>9, GotoMoves, Zenon DEF PipeClose, Point
  <2>2. /\ rfd = {} /\ readopen /\ frees = 0
        /\ \A q \in Proc \ {p} : pc[q] \notin {"closer", "kfree"}
    BY <1>9, Zenon DEF EndInv, FreeInv, TypeOK
  <2>3. /\ pc'[p] = IF writeopen THEN "user" ELSE "kfree"
        /\ \A q \in Proc \ {p} :
             /\ pc'[q] \in Writing => q \in wfd
             /\ pc'[q] \in Reading => q \in rfd
             /\ pc'[q] \in {"closew", "closer", "kfree"} => pc[q] = pc'[q]
    BY <2>1, Zenon DEF Moves, EndInv, Writing, Reading
  <2>4. EndInv'
    BY <2>1, <2>2, <2>3, Zenon DEF EndInv, Writing, Reading
  <2>5. FreeInv'
    BY <2>1, <2>2, <2>3, Zenon DEF FreeInv
  <2> QED
    BY <2>4, <2>5, Zenon
<1>10. ASSUME NEW p \in Proc, FreePipe(p) PROVE EndInv' /\ FreeInv'
  <2>1. /\ pc[p] = "kfree" /\ frees' = frees + 1 /\ Moves(p, "user", {})
        /\ UNCHANGED <<readopen, writeopen, rfd, wfd>>
    BY <1>10, GotoMoves, Zenon DEF FreePipe, Point
  <2>2. pc'[p] = "user" /\ \A q \in Proc \ {p} : pc'[q] = pc[q] /\ pc[q] # "kfree"
    BY <2>1, Zenon DEF Moves, FreeInv
  <2>3. frees' = 1 /\ ~readopen' /\ ~writeopen'
    BY <2>1 DEF FreeInv
  <2>4. EndInv'
    BY <2>1, <2>2 DEF EndInv, Writing, Reading
  <2> QED
    BY <2>2, <2>3, <2>4 DEF FreeInv
<1>11. ASSUME NEW p \in Proc, Kill(p) PROVE EndInv' /\ FreeInv'
  <2>1. \A q \in Proc : /\ pc'[q] \in Writing <=> pc[q] \in Writing
                        /\ pc'[q] \in Reading <=> pc[q] \in Reading
                        /\ pc'[q] \in {"closew", "closer", "kfree"} => pc'[q] = pc[q]
    BY <1>11, KillMoves, Zenon DEF Writing, Reading
  <2>2. UNCHANGED <<readopen, writeopen, frees, rfd, wfd>>
    BY <1>11, Zenon DEF Kill
  <2> QED
    BY <2>1, <2>2, Zenon DEF EndInv, FreeInv
<1>12. CASE UNCHANGED vars
  BY <1>12, Zenon DEF vars, EndInv, FreeInv
<1>13. ASSUME NEW p \in Proc, PipeClose(p) PROVE pc[p] \in {"closew", "closer"}
  BY <1>13, Zenon DEF PipeClose
<1> QED
  BY <1>1, <1>2, <1>3, <1>4, <1>5, <1>6, <1>7, <1>8, <1>9, <1>10, <1>11,
     <1>12, <1>13, Zenon DEF Next, Running, Closes

-----------------------------------------------------------------------------
Holding == {"write", "rwait", "rcopy"}

\* Moves that take, keep and give up pi->lock.
LEMMA MoveLocks ==
  ASSUME LockInv, NEW p \in Proc, NEW point \in Point,
         NEW ch \in SUBSET {"rsleep", "wsleep"}, Moves(p, point, ch),
         \/ lock = NoProc /\ lock' = p /\ point \in Holding
         \/ lock = p /\ lock' = NoProc /\ point \notin Holding
         \/ lock' = lock /\ (pc[p] \in Holding <=> point \in Holding)
  PROVE  LockInv'
<1>1. \A q \in Proc \ {p} : pc'[q] \in Holding <=> pc[q] \in Holding
  BY Zenon DEF Moves, Holding
<1>2. pc'[p] = point
  BY Zenon DEF Moves
<1>3. \A q \in Proc : pc[q] \in Holding <=> lock = q
  BY Zenon DEF LockInv, Holding
<1>4. \A q \in Proc : pc'[q] \in Holding <=> lock' = q
  BY <1>1, <1>2, <1>3, PipeAssumption
<1> QED
  BY <1>4, Zenon DEF LockInv, Holding

\* Every step keeps the lock discipline.
LEMMA NextLock ==
  ASSUME IInv, [Next]_vars
  PROVE  LockInv'
<1> USE Channels DEF IInv, pipe, fds
<1>1. ASSUME NEW p \in Proc, Reads(p) \/ Writes(p) PROVE LockInv'
  <2>1. /\ lock' = lock /\ pc[p] = "user"
        /\ Moves(p, "wlock", {}) \/ Moves(p, "rlock", {})
    BY <1>1, GotoMoves, Zenon DEF Reads, Writes, Read, Write, Point
  <2> QED
    BY <2>1, MoveLocks, Zenon DEF Point, Holding
<1>2. ASSUME NEW p \in Proc, Lock(p) PROVE LockInv'
  <2>1. /\ lock = NoProc /\ lock' = p
        /\ Moves(p, "write", {}) \/ Moves(p, "rwait", {})
    BY <1>2, GotoMoves, Zenon DEF Lock, Point
  <2> QED
    BY <2>1, MoveLocks, Zenon DEF Point, Holding
<1>3. ASSUME NEW p \in Proc,
             WriteFails(p) \/ WriteDone(p) \/ ReadKilled(p) \/ ReadDone(p)
      PROVE  LockInv'
  <2>1. lock = p
    BY <1>3, Zenon DEF WriteFails, WriteDone, ReadKilled, ReadDone, LockInv
  <2>2. \/ Return(p, {}) \/ Return(p, {"rsleep"}) \/ Return(p, {"wsleep"})
    BY <1>3, Zenon DEF WriteFails, WriteDone, ReadKilled, ReadDone
  <2>3. /\ lock' = NoProc
        /\ \/ Moves(p, "user", {}) \/ Moves(p, "user", {"rsleep"})
           \/ Moves(p, "user", {"wsleep"})
    BY <2>2, Returns, Zenon
  <2> QED
    BY <2>1, <2>3, MoveLocks, Zenon DEF Point, Holding
<1>4. ASSUME NEW p \in Proc, WriteFull(p) \/ ReadSleep(p) PROVE LockInv'
  <2>1. /\ lock = p /\ lock' = NoProc
        /\ Moves(p, "wsleep", {"rsleep"}) \/ Moves(p, "rsleep", {})
    BY <1>4, GotoMoves, Zenon DEF WriteFull, ReadSleep, Point, LockInv
  <2> QED
    BY <2>1, MoveLocks, Zenon DEF Point, Holding
<1>5. ASSUME NEW p \in Proc, ReadReady(p) PROVE LockInv'
  <2>1. lock' = lock /\ pc[p] = "rwait" /\ Moves(p, "rcopy", {})
    BY <1>5, GotoMoves, Zenon DEF ReadReady, Point
  <2> QED
    BY <2>1, MoveLocks, Zenon DEF Point, Holding
<1>6. ASSUME NEW p \in Proc, ReadByte(p) \/ \E b \in Byte : WriteByte(p, b)
      PROVE  LockInv'
  BY <1>6, Zenon DEF WriteByte, ReadByte, LockInv
<1>7. ASSUME NEW p \in Proc, CloseRead(p) \/ CloseWrite(p) PROVE LockInv'
  <2>1. /\ lock' = lock /\ pc[p] = "user"
        /\ \E point \in {"user", "closer", "closew"} : Moves(p, point, {})
    BY <1>7, GotoMoves, Zenon DEF CloseRead, CloseWrite, Point
  <2> QED
    BY <2>1, MoveLocks, Zenon DEF Point, Holding
<1>8. ASSUME NEW p \in Proc, PipeClose(p) PROVE LockInv'
  <2>1. /\ lock' = lock /\ pc[p] \in {"closew", "closer"}
        /\ \E point \in {"user", "kfree"}, ch \in {{"rsleep"}, {"wsleep"}} :
             Moves(p, point, ch)
    BY <1>8, GotoMoves, Zenon DEF PipeClose, Point
  <2> QED
    BY <2>1, MoveLocks, Zenon DEF Point, Holding
<1>9. ASSUME NEW p \in Proc, FreePipe(p) PROVE LockInv'
  <2>1. lock' = lock /\ pc[p] = "kfree" /\ Moves(p, "user", {})
    BY <1>9, GotoMoves, Zenon DEF FreePipe, Point
  <2> QED
    BY <2>1, MoveLocks, Zenon DEF Point, Holding
<1>10. ASSUME NEW p \in Proc, Kill(p) PROVE LockInv'
  <2>1. lock' = lock /\ \A q \in Proc : pc'[q] \in Holding <=> pc[q] \in Holding
    BY <1>10, KillMoves, Zenon DEF Kill, Holding
  <2> QED
    BY <2>1, Zenon DEF LockInv, Holding
<1>11. CASE UNCHANGED vars
  BY <1>11, Zenon DEF vars, LockInv
<1> QED
  BY <1>1, <1>2, <1>3, <1>4, <1>5, <1>6, <1>7, <1>8, <1>9, <1>10, <1>11, Zenon
     DEF Next, Running, Closes

-----------------------------------------------------------------------------
\* Why a reader, or a writer, may sleep.
ReaderMay ==
  /\ writeopen
  /\ Empty \/ unannounced \/ \E q \in Proc : pc[q] = "write" /\ i[q] > 0
WriterMay == readopen /\ (Full \/ \E q \in Proc : pc[q] = "rcopy")

\* A step keeps the property for the readers if they may sleep after it, or none
\* sleeps after it, or it takes away no reason and puts nobody to sleep.
ReadersKept ==
  \/ ReaderMay'
  \/ \A p \in Proc : pc'[p] # "rsleep"
  \/ /\ ReaderMay => ReaderMay'
     /\ \A p \in Proc : pc'[p] = "rsleep" => pc[p] = "rsleep"
WritersKept ==
  \/ WriterMay'
  \/ \A p \in Proc : pc'[p] # "wsleep"
  \/ /\ WriterMay => WriterMay'
     /\ \A p \in Proc : pc'[p] = "wsleep" => pc[p] = "wsleep"

\* And likewise for the writers.
LEMMA KeepsSleepers ==
  ASSUME SleepersBlocked, ReadersKept, WritersKept
  PROVE  SleepersBlocked'
<1>1. \A p \in Proc : /\ pc[p] = "rsleep" => ReaderMay
                      /\ pc[p] = "wsleep" => WriterMay
  BY Zenon DEF SleepersBlocked, ReaderMay, WriterMay
<1>2. \A p \in Proc : /\ pc'[p] = "rsleep" => ReaderMay'
                      /\ pc'[p] = "wsleep" => WriterMay'
  BY <1>1, Zenon DEF ReadersKept, WritersKept
<1> QED
  BY <1>2, Zenon DEF SleepersBlocked, ReaderMay, WriterMay

\* Every step keeps SleepersBlocked.
LEMMA NextSleepers ==
  ASSUME IInv, [Next]_vars
  PROVE  SleepersBlocked'
<1> USE Channels DEF IInv, pipe, fds
<1>1. ASSUME NEW p \in Proc, Reads(p) \/ Writes(p) PROVE SleepersBlocked'
  <2>1. /\ pc[p] = "user" /\ UNCHANGED <<nread, nwrite, readopen, writeopen, unannounced>>
        /\ Moves(p, "wlock", {}) \/ Moves(p, "rlock", {})
        /\ \A q \in Proc \ {p} : i'[q] = i[q]
    BY <1>1, GotoMoves, Zenon DEF Reads, Writes, Read, Write, Point, TypeOK
  <2>2. /\ pc'[p] \in {"wlock", "rlock"}
        /\ \A q \in Proc \ {p} : pc'[q] = pc[q]
    BY <2>1, Zenon DEF Moves
  <2>3. ReadersKept
    BY <2>1, <2>2, Zenon DEF ReadersKept, ReaderMay, Empty
  <2>4. WritersKept
    BY <2>1, <2>2, Zenon DEF WritersKept, WriterMay, Full
  <2> QED
    BY <2>3, <2>4, KeepsSleepers, Zenon
<1>2. ASSUME NEW p \in Proc, Lock(p) PROVE SleepersBlocked'
  <2>1. /\ pc[p] \in {"wlock", "rlock"}
        /\ UNCHANGED <<nread, nwrite, readopen, writeopen, i, unannounced>>
        /\ Moves(p, "write", {}) \/ Moves(p, "rwait", {})
    BY <1>2, GotoMoves, Zenon DEF Lock, Point
  <2>2. /\ pc'[p] \in {"write", "rwait"}
        /\ \A q \in Proc \ {p} : pc'[q] = pc[q]
    BY <2>1, Zenon DEF Moves
  <2>3. ReadersKept
    BY <2>1, <2>2, Zenon DEF ReadersKept, ReaderMay, Empty
  <2>4. WritersKept
    BY <2>1, <2>2, Zenon DEF WritersKept, WriterMay, Full
  <2> QED
    BY <2>3, <2>4, KeepsSleepers, Zenon
<1>3. ASSUME NEW p \in Proc, WriteFails(p) PROVE SleepersBlocked'
  <2>1. /\ pc[p] = "write" /\ UNCHANGED <<nread, nwrite, readopen, writeopen>>
        /\ unannounced' = (unannounced \/ i[p] > 0)
        /\ Moves(p, "user", {}) /\ \A q \in Proc \ {p} : i'[q] = i[q]
    BY <1>3, Returns, Zenon DEF WriteFails
  <2>2. pc'[p] = "user" /\ \A q \in Proc \ {p} : pc'[q] = pc[q]
    BY <2>1, Zenon DEF Moves
  <2>3. ReadersKept
    BY <2>1, <2>2, Zenon DEF ReadersKept, ReaderMay, Empty
  <2>4. WritersKept
    BY <2>1, <2>2, Zenon DEF WritersKept, WriterMay, Full
  <2> QED
    BY <2>3, <2>4, KeepsSleepers, Zenon
<1>4. ASSUME NEW p \in Proc, WriteFull(p) \/ WriteDone(p) PROVE SleepersBlocked'
  <2>1. /\ pc[p] = "write" /\ UNCHANGED <<nread, nwrite, readopen, writeopen>>
        /\ \/ Moves(p, "wsleep", {"rsleep"}) /\ Full /\ readopen
           \/ Moves(p, "user", {"rsleep"})
    BY <1>4, GotoMoves, Returns, Zenon DEF WriteFull, WriteDone, Point
  <2>2. \A q \in Proc : pc'[q] # "rsleep"
    BY <2>1, Zenon DEF Moves
  <2>3. CASE Moves(p, "wsleep", {"rsleep"}) /\ Full /\ readopen
    <3>1. WriterMay'
      BY <2>1, <2>3, Zenon DEF WriterMay, Full
    <3> QED
      BY <2>2, <3>1, KeepsSleepers, Zenon DEF ReadersKept, WritersKept
  <2>4. CASE Moves(p, "user", {"rsleep"})
    <3>1. \A q \in Proc : /\ pc'[q] = "wsleep" => pc[q] = "wsleep"
                          /\ pc[q] = "rcopy" => pc'[q] = "rcopy"
      BY <2>1, <2>4, Zenon DEF Moves
    <3>2. WriterMay => WriterMay'
      BY <2>1, <3>1, Zenon DEF WriterMay, Full
    <3> QED
      BY <2>2, <3>1, <3>2, KeepsSleepers, Zenon DEF ReadersKept, WritersKept
  <2> QED
    BY <2>1, <2>3, <2>4, Zenon
<1>5. ASSUME NEW p \in Proc, NEW b \in Byte, WriteByte(p, b)
      PROVE  SleepersBlocked'
  <2>1. /\ pc[p] = "write" /\ ~Full /\ i'[p] > 0
        /\ UNCHANGED <<readopen, writeopen, unannounced, pc>>
    BY <1>5, CountUp, Zenon DEF WriteByte
  <2>2. \A q \in Proc : pc[q] # "wsleep"
    BY <2>1, Zenon DEF SleepersBlocked, LockInv
  <2>3. ReadersKept
    BY <2>1, Zenon DEF ReadersKept, ReaderMay
  <2> QED
    BY <2>1, <2>2, <2>3, KeepsSleepers, Zenon DEF WritersKept
<1>6. ASSUME NEW p \in Proc, ReadKilled(p) PROVE SleepersBlocked'
  <2>1. /\ pc[p] = "rwait"
        /\ UNCHANGED <<nread, nwrite, readopen, writeopen, unannounced>>
        /\ Moves(p, "user", {}) /\ \A q \in Proc \ {p} : i'[q] = i[q]
    BY <1>6, Returns, Zenon DEF ReadKilled
  <2>2. pc'[p] = "user" /\ \A q \in Proc \ {p} : pc'[q] = pc[q]
    BY <2>1, Zenon DEF Moves
  <2>3. ReadersKept
    BY <2>1, <2>2, Zenon DEF ReadersKept, ReaderMay, Empty
  <2>4. WritersKept
    BY <2>1, <2>2, Zenon DEF WritersKept, WriterMay, Full
  <2> QED
    BY <2>3, <2>4, KeepsSleepers, Zenon
<1>7. ASSUME NEW p \in Proc, ReadSleep(p) PROVE SleepersBlocked'
  <2>1. /\ pc[p] = "rwait" /\ Empty /\ writeopen
        /\ UNCHANGED <<nread, nwrite, readopen, writeopen>>
        /\ Moves(p, "rsleep", {})
    BY <1>7, GotoMoves, Zenon DEF ReadSleep, Point
  <2>2. pc'[p] = "rsleep" /\ \A q \in Proc \ {p} : pc'[q] = pc[q]
    BY <2>1, Zenon DEF Moves
  <2>3. ReaderMay'
    BY <2>1, Zenon DEF ReaderMay, Empty
  <2>4. WritersKept
    BY <2>1, <2>2, Zenon DEF WritersKept, WriterMay, Full
  <2> QED
    BY <2>3, <2>4, KeepsSleepers, Zenon DEF ReadersKept
<1>8. ASSUME NEW p \in Proc, ReadReady(p) PROVE SleepersBlocked'
  <2>1. /\ pc[p] = "rwait"
        /\ UNCHANGED <<nread, nwrite, readopen, writeopen, unannounced, i>>
        /\ Moves(p, "rcopy", {})
    BY <1>8, GotoMoves, Zenon DEF ReadReady, Point
  <2>2. pc'[p] = "rcopy" /\ \A q \in Proc \ {p} : pc'[q] = pc[q]
    BY <2>1, Zenon DEF Moves
  <2>3. ReadersKept
    BY <2>1, <2>2, Zenon DEF ReadersKept, ReaderMay, Empty
  <2>4. WritersKept
    BY <2>1, <2>2, Zenon DEF WritersKept, WriterMay, Full
  <2> QED
    BY <2>3, <2>4, KeepsSleepers, Zenon
<1>9. ASSUME NEW p \in Proc, ReadByte(p) PROVE SleepersBlocked'
  <2>1. /\ pc[p] = "rcopy" /\ ~Empty
        /\ UNCHANGED <<readopen, writeopen, unannounced, pc>>
        /\ \A q \in Proc \ {p} : i'[q] = i[q]
    BY <1>9, CountUp, Zenon DEF ReadByte
  <2>2. ReadersKept
    BY <2>1, Zenon DEF ReadersKept, ReaderMay
  <2>3. WritersKept
    BY <2>1, Zenon DEF WritersKept, WriterMay
  <2> QED
    BY <2>2, <2>3, KeepsSleepers, Zenon
<1>10. ASSUME NEW p \in Proc, ReadDone(p) PROVE SleepersBlocked'
  <2>1. /\ pc[p] = "rcopy" /\ (nread' # nread => ~Empty)
        /\ UNCHANGED <<nwrite, readopen, writeopen, unannounced>>
        /\ Moves(p, "user", {"wsleep"}) /\ \A q \in Proc \ {p} : i'[q] = i[q]
    BY <1>10, Returns, Zenon DEF ReadDone
  <2>2. /\ pc'[p] = "user"
        /\ \A q \in Proc \ {p} : /\ pc'[q] # "wsleep"
                                 /\ pc[q] = "write" => pc'[q] = "write"
                                 /\ pc'[q] = "rsleep" => pc[q] = "rsleep"
    BY <2>1, Zenon DEF Moves
  <2>3. ReadersKept
    BY <2>1, <2>2, Zenon DEF ReadersKept, ReaderMay, Empty
  <2> QED
    BY <2>2, <2>3, KeepsSleepers, Zenon DEF WritersKept
<1>11. ASSUME NEW p \in Proc, CloseRead(p) \/ CloseWrite(p) \/ FreePipe(p)
       PROVE  SleepersBlocked'
  <2>1. /\ pc[p] \in {"user", "kfree"}
        /\ UNCHANGED <<nread, nwrite, readopen, writeopen, unannounced, i>>
        /\ \E point \in {"user", "closer", "closew"} : Moves(p, point, {})
    BY <1>11, GotoMoves, Zenon DEF CloseRead, CloseWrite, FreePipe, Point
  <2>2. /\ pc'[p] \in {"user", "closer", "closew"}
        /\ \A q \in Proc \ {p} : pc'[q] = pc[q]
    BY <2>1, Zenon DEF Moves
  <2>3. ReadersKept
    BY <2>1, <2>2, Zenon DEF ReadersKept, ReaderMay, Empty
  <2>4. WritersKept
    BY <2>1, <2>2, Zenon DEF WritersKept, WriterMay, Full
  <2> QED
    BY <2>3, <2>4, KeepsSleepers, Zenon
<1>12. ASSUME NEW p \in Proc, PipeClose(p), pc[p] = "closew"
       PROVE  SleepersBlocked'
  <2>1. /\ UNCHANGED <<nread, nwrite, readopen>>
        /\ \E point \in {"user", "kfree"} : Moves(p, point, {"rsleep"})
    BY <1>12, GotoMoves, Zenon DEF PipeClose, Point
  <2>2. /\ pc'[p] \in {"user", "kfree"}
        /\ \A q \in Proc \ {p} : /\ pc'[q] # "rsleep"
                                 /\ pc[q] = "rcopy" => pc'[q] = "rcopy"
                                 /\ pc'[q] = "wsleep" => pc[q] = "wsleep"
    BY <2>1, Zenon DEF Moves
  <2>3. WritersKept
    BY <1>12, <2>1, <2>2, Zenon DEF WritersKept, WriterMay, Full
  <2> QED
    BY <2>2, <2>3, KeepsSleepers, Zenon DEF ReadersKept
<1>13. ASSUME NEW p \in Proc, PipeClose(p), pc[p] = "closer"
       PROVE  SleepersBlocked'
  <2>1. /\ UNCHANGED <<nread, nwrite, writeopen, unannounced, i>>
        /\ \E point \in {"user", "kfree"} : Moves(p, point, {"wsleep"})
    BY <1>13, GotoMoves, Zenon DEF PipeClose, Point
  <2>2. /\ pc'[p] \in {"user", "kfree"}
        /\ \A q \in Proc \ {p} : /\ pc'[q] # "wsleep"
                                 /\ pc[q] = "write" => pc'[q] = "write"
                                 /\ pc'[q] = "rsleep" => pc[q] = "rsleep"
    BY <2>1, Zenon DEF Moves
  <2>3. ReadersKept
    BY <1>13, <2>1, <2>2, Zenon DEF ReadersKept, ReaderMay, Empty
  <2> QED
    BY <2>2, <2>3, KeepsSleepers, Zenon DEF WritersKept
<1>14. ASSUME NEW p \in Proc, Kill(p) PROVE SleepersBlocked'
  <2>1. /\ UNCHANGED <<nread, nwrite, readopen, writeopen, unannounced, i>>
        /\ \A q \in Proc : /\ pc'[q] \in {"rsleep", "wsleep"} => pc'[q] = pc[q]
                           /\ pc[q] \in {"write", "rcopy"} => pc'[q] = pc[q]
    BY <1>14, KillMoves, Zenon DEF Kill
  <2>2. ReadersKept
    BY <2>1, Zenon DEF ReadersKept, ReaderMay, Empty
  <2>3. WritersKept
    BY <2>1, Zenon DEF WritersKept, WriterMay, Full
  <2> QED
    BY <2>2, <2>3, KeepsSleepers, Zenon
<1>15. CASE UNCHANGED vars
  BY <1>15, Zenon DEF vars, SleepersBlocked, Empty, Full
<1>16. ASSUME NEW p \in Proc, PipeClose(p) PROVE pc[p] \in {"closew", "closer"}
  BY <1>16, Zenon DEF PipeClose
<1> QED
  BY <1>1, <1>2, <1>3, <1>4, <1>5, <1>6, <1>7, <1>8, <1>9, <1>10, <1>11,
     <1>12, <1>13, <1>14, <1>15, <1>16, Zenon DEF Next, Running, Closes

-----------------------------------------------------------------------------
\* The inductive invariant is one.
LEMMA IInvAlways == Spec => []IInv
<1>1. Init => IInv
  BY InitIInv, Zenon
<1>2. IInv /\ [Next]_vars => IInv'
  BY NextType, NextLock, NextEnds, NextSleepers, Zenon DEF IInv
<1> QED
  BY <1>1, <1>2, PTL DEF Spec

\* The pipe's page is freed at most once, and only when no process has a
\* descriptor of it or is inside pipe.c, for any number of processes.
THEOREM PipeFreedOnce == Spec => []FreedOnce
<1>1. IInv => FreedOnce
  <2> SUFFICES ASSUME IInv
               PROVE  FreedOnce
    BY Zenon
  <2> USE DEF IInv
  <2> DEFINE Freers == {p \in Proc : pc[p] = "kfree"}
  <2>1. frees + Cardinality(Freers) <= 1
    <3>1. CASE Freers = {}
      <4>1. Cardinality(Freers) = 0
        BY <3>1, FS_EmptySet, Zenon
      <4> HIDE DEF Freers
      <4> QED
        BY <4>1 DEF FreeInv, TypeOK
    <3>2. CASE Freers # {}
      <4>1. PICK p \in Freers : TRUE
        BY <3>2, Zenon
      <4>2. Freers = {p} /\ frees = 0
        BY <4>1, Zenon DEF FreeInv
      <4>3. Cardinality(Freers) = 1
        BY <4>2, FS_Singleton, Zenon
      <4> QED
        BY <4>2, <4>3
    <3> QED
      BY <3>1, <3>2, Zenon
  <2>2. ASSUME frees = 1 \/ \E p \in Proc : pc[p] = "kfree"
        PROVE  /\ rfd = {} /\ wfd = {} /\ lock = NoProc
               /\ \A p \in Proc : pc[p] \in {"user", "kfree"}
    <3>1. ~readopen /\ ~writeopen
      BY <2>2 DEF FreeInv
    <3>2. rfd = {} /\ wfd = {}
      BY <3>1, Zenon DEF EndInv
    <3>3. \A p \in Proc : pc[p] \in {"user", "kfree"}
      BY <3>1, <3>2, Zenon DEF EndInv, TypeOK, Writing, Reading
    <3>4. lock = NoProc
      BY <3>3, Zenon DEF LockInv, TypeOK
    <3> QED
      BY <3>2, <3>3, <3>4, Zenon
  <2> QED
    BY <2>1, <2>2, Zenon DEF FreedOnce
<1> QED
  BY <1>1, IInvAlways, PTL

\* No reader and no writer of a pipe misses a wakeup, for any number of
\* processes, with kills and closes at any moment.
THEOREM PipeSleepersBlocked == Spec => []SleepersBlocked
<1>1. IInv => SleepersBlocked
  BY Zenon DEF IInv
<1> QED
  BY <1>1, IInvAlways, PTL

-----------------------------------------------------------------------------
(* The buffer as a queue *)

\* nread and nwrite are never farther apart than the buffer is long.
QueueInv == IsQueue(UINT, PIPESIZE, Byte, data, nread, nwrite)

Puts(p, b) ==
  /\ pc[p] = "write" /\ readopen /\ ~Full
  /\ data' = [data EXCEPT ![nwrite % PIPESIZE] = b] /\ nwrite' = (nwrite + 1) % UINT
  /\ UNCHANGED <<nread, readopen, writeopen>>

Gets(p) ==
  /\ pc[p] = "rcopy" /\ ~Empty
  /\ nread' = (nread + 1) % UINT
  /\ UNCHANGED <<nwrite, data, readopen, writeopen>>

Shuts(p) ==
  /\ \/ pc[p] = "closew" /\ writeopen' = FALSE /\ UNCHANGED readopen
     \/ pc[p] = "closer" /\ readopen' = FALSE /\ UNCHANGED writeopen
  /\ UNCHANGED <<nread, nwrite, data>>

\* What a step does to the pipe: it puts a byte in, takes one out, closes an
\* end, or does nothing.
LEMMA PipeSteps ==
  ASSUME [Next]_vars
  PROVE  \/ UNCHANGED pipe
         \/ \E p \in Proc : Gets(p) \/ Shuts(p) \/ \E b \in Byte : Puts(p, b)
<1>1. ASSUME NEW p \in Proc, Running(p)
      PROVE  UNCHANGED pipe \/ Gets(p) \/ \E b \in Byte : Puts(p, b)
  <2>1. CASE \E b \in Byte : WriteByte(p, b)
    BY <2>1, Zenon DEF WriteByte, Puts
  <2>2. CASE ReadByte(p)
    BY <2>2, Zenon DEF ReadByte, Gets
  <2>3. CASE ReadDone(p)
    BY <2>3, Zenon DEF ReadDone, Gets, pipe
  <2>4. CASE WriteFails(p) \/ WriteFull(p) \/ WriteDone(p)
    BY <2>4, Zenon DEF WriteFails, WriteFull, WriteDone
  <2>5. CASE ReadKilled(p) \/ ReadSleep(p) \/ ReadReady(p) \/ FreePipe(p)
    BY <2>5, Zenon DEF ReadKilled, ReadSleep, ReadReady, FreePipe
  <2> QED
    BY <1>1, <2>1, <2>2, <2>3, <2>4, <2>5, Zenon DEF Running
<1>2. ASSUME NEW p \in Proc, PipeClose(p) PROVE Shuts(p)
  BY <1>2, Zenon DEF PipeClose, Shuts
<1>3. ASSUME NEW p \in Proc, Lock(p) \/ Reads(p) \/ Writes(p) \/ Closes(p) \/ Kill(p)
      PROVE  UNCHANGED pipe
  BY <1>3, Zenon DEF Lock, Reads, Read, Writes, Write, Closes, CloseRead, CloseWrite, Kill
<1>4. CASE UNCHANGED vars
  BY <1>4, Zenon DEF vars
<1> QED
  BY <1>1, <1>2, <1>3, <1>4, Zenon DEF Next

\* No step fills the buffer beyond its size; what is put in is appended, and
\* what is taken out was the first.
LEMMA QueueSteps ==
  ASSUME QueueInv
  PROVE  /\ \A p \in Proc, b \in Byte :
              Puts(p, b) => /\ QueueInv' /\ Len(Buffered) < PIPESIZE
                            /\ Buffered' = Append(Buffered, b)
         /\ \A p \in Proc :
              Gets(p) => QueueInv' /\ Buffered # <<>> /\ Buffered' = Tail(Buffered)
         /\ \A p \in Proc : Shuts(p) => QueueInv' /\ Buffered' = Buffered
<1>1. Buffered = Queue(UINT, PIPESIZE, data, nread, nwrite)
  BY Zenon DEF Buffered, Queue, Ring, Behind
<1>2. Buffered' = Queue(UINT, PIPESIZE, data', nread', nwrite')
  BY Zenon DEF Buffered, Queue, Ring, Behind
<1>3. ASSUME NEW p \in Proc, NEW b \in Byte, Puts(p, b)
      PROVE  QueueInv' /\ Len(Buffered) < PIPESIZE /\ Buffered' = Append(Buffered, b)
  <2>1. QueuePuts(UINT, PIPESIZE, Byte, data, nread, nwrite, b)
    BY <1>3, QueuePut, Zenon DEF Puts, Full, QueueInv
  <2> QED
    BY <1>1, <1>2, <1>3, <2>1, Zenon DEF Puts, QueuePuts, QueueInv
<1>4. ASSUME NEW p \in Proc, Gets(p)
      PROVE  QueueInv' /\ Buffered # <<>> /\ Buffered' = Tail(Buffered)
  <2>1. QueueGets(UINT, PIPESIZE, Byte, data, nread, nwrite)
    BY <1>4, QueueGet, Zenon DEF Gets, Empty, QueueInv
  <2> QED
    BY <1>1, <1>2, <1>4, <2>1, Zenon DEF Gets, QueueGets, QueueInv
<1>5. ASSUME NEW p \in Proc, Shuts(p)
      PROVE  QueueInv' /\ Buffered' = Buffered
  BY <1>1, <1>2, <1>5, Zenon DEF Shuts, QueueInv
<1> QED
  BY <1>3, <1>4, <1>5, Zenon

\* A pipe implements a bounded FIFO of its bytes: what writers put in comes out
\* once and in order, whatever processes read, write, close or are killed, for
\* any size of the buffer and counters that wrap.
THEOREM PipeIsFifo == Spec => IsFifo
<1>1. Init => Promise!Init /\ QueueInv
  <2> SUFFICES ASSUME Init PROVE Promise!Init /\ QueueInv
    BY Zenon
  <2>1. Wraps(UINT, PIPESIZE)
    BY PipeAssumption DEF Wraps
  <2>2. BufferOf(PIPESIZE, Byte, data) /\ nread = 0 /\ nwrite = 0
    BY InitIInv, PipeAssumption, Zenon DEF IInv, TypeOK, BufferOf, Init
  <2>3. QueueInv /\ Queue(UINT, PIPESIZE, data, nread, nwrite) = <<>>
    BY <2>1, <2>2, QueueEmpty, Zenon DEF QueueInv
  <2>4. Buffered = <<>>
    BY <2>3, Zenon DEF Buffered, Queue, Ring, Behind
  <2> QED
    BY <2>3, <2>4, Zenon DEF Promise!Init, Init
<1>2. IInv /\ QueueInv /\ [Next]_vars => QueueInv' /\ [Promise!Next]_Promise!vars
  <2> SUFFICES ASSUME IInv, QueueInv, [Next]_vars
               PROVE  QueueInv' /\ (Promise!Next \/ UNCHANGED <<Buffered, readopen, writeopen>>)
    BY Zenon DEF Promise!vars
  <2>0. EndInv
    BY Zenon DEF IInv
  <2>1. CASE UNCHANGED pipe
    BY <2>1, Zenon DEF pipe, Buffered, QueueInv
  <2>2. ASSUME NEW p \in Proc, NEW b \in Byte, Puts(p, b) PROVE QueueInv' /\ Promise!Put(b)
    <3>1. readopen /\ writeopen /\ UNCHANGED <<readopen, writeopen>>
      BY <2>0, <2>2, Zenon DEF Puts, EndInv, Writing
    <3> QED
      BY <2>2, <3>1, QueueSteps, Zenon DEF Promise!Put
  <2>3. ASSUME NEW p \in Proc, Gets(p) PROVE QueueInv' /\ Promise!Get
    <3>1. readopen /\ UNCHANGED <<readopen, writeopen>>
      BY <2>0, <2>3, Zenon DEF Gets, EndInv, Reading
    <3> QED
      BY <2>3, <3>1, QueueSteps, Zenon DEF Promise!Get
  <2>4. ASSUME NEW p \in Proc, Shuts(p)
        PROVE  QueueInv' /\ (Promise!CloseRead \/ Promise!CloseWrite)
    <3>1. QueueInv' /\ Buffered' = Buffered
      BY <2>4, QueueSteps, Zenon
    <3> QED
      BY <2>0, <2>4, <3>1, Zenon DEF Shuts, EndInv, Promise!CloseRead, Promise!CloseWrite
  <2> QED
    BY <2>1, <2>2, <2>3, <2>4, PipeSteps, Zenon DEF Promise!Next
<1> QED
  BY <1>1, <1>2, IInvAlways, PTL DEF Spec, IsFifo, Promise!Spec
=============================================================================
