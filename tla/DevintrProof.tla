---------------------------- MODULE DevintrProof ----------------------------
(***************************************************************************)
(* Proofs about the components devintr() drives, for any values of their   *)
(* constants.  Alarm: handlers that do not arm the alarm again are not     *)
(* entered twice, and the interrupted program goes on where it was.  Uart: *)
(* a transmit FIFO of three bytes is enough for the three who may find it  *)
(* empty at once, no process misses a wakeup of uartstart(), and the ring  *)
(* buffer is a queue.  Console: no missed wakeup, an end of file that is   *)
(* not lost, and a ring buffer that is a queue of lines.                   *)
(***************************************************************************)
EXTENDS Alarm, Uart, Console, RingProof, WellFoundedInduction, TLAPS

-----------------------------------------------------------------------------
(* Alarm *)

\* The countdown: a process that asked for no alarm never meets the value 1;
\* one that did is elapsed ticks into its interval, and at its beginning while
\* the handler runs.
CountInv ==
  /\ alarm_ticks = asked
  /\ asked = 0 => alarm_ticks_left <= 0 /\ elapsed = 0 /\ ~alarm_flag
  /\ asked # 0 => alarm_ticks_left >= 1 /\ elapsed + alarm_ticks_left = asked
  /\ alarm_flag => alarm_ticks_left = asked

\* The handler: it runs at depth 1, with the flag set unless it has stopped the
\* alarm, and the saved context is that of the interrupted main program.
HandlerInv ==
  /\ alarm_flag => alive /\ depth = 1
  /\ ~alive => depth = 0 /\ asked = 0
  /\ alive => \/ depth = 0 /\ ctx.code = "main"
              \/ /\ depth = 1 /\ ctx.code = "handler"
                 /\ alarm_flag \/ asked = 0
                 /\ saved_tf = interrupted /\ saved_tf.code = "main"

AlarmInv == TypeOK /\ CountInv /\ HandlerInv

\* The longest interval.
LEMMA MaxIntervalIs ==
  MaxInterval \in Interval /\ MaxInterval \in Nat
  /\ \A n \in Interval : n \in Nat /\ n <= MaxInterval
  BY AlarmAssumption, Zenon DEF MaxInterval

\* The ranges of the counters hold 0 and every interval.
LEMMA Ranges ==
  /\ 0 \in 0 .. MaxInterval /\ 0 \in 0 .. MaxDepth /\ 0 \in -MaxIdle .. MaxInterval
  /\ \A n \in Interval : n \in -MaxIdle .. MaxInterval
  BY AlarmAssumption, MaxIntervalIs

\* Init establishes the inductive invariant.
LEMMA InitAlarm ==
  ASSUME Init
  PROVE  AlarmInv
<1>1. TypeOK
  <2>1. ctx \in Context
    BY Zenon DEF Init, Context
  <2>2. alarm_flag \in BOOLEAN /\ alive \in BOOLEAN
    BY Zenon DEF Init
  <2>3. 0 \in Interval
    BY AlarmAssumption, Zenon
  <2> QED
    BY <2>1, <2>2, <2>3, Ranges, Zenon DEF Init, TypeOK
<1>2. CountInv
  BY DEF Init, CountInv
<1>3. HandlerInv
  BY Zenon DEF Init, HandlerInv
<1> QED
  BY <1>1, <1>2, <1>3, Zenon DEF AlarmInv

\* Every step keeps the inductive invariant, if handlers do not arm the alarm
\* again and processes stop it before they exit.
LEMMA NextAlarm ==
  ASSUME ~Rearms, ~ExitsArmed, AlarmInv, [Next]_vars
  PROVE  AlarmInv'
<1> USE AlarmAssumption, MaxIntervalIs DEF AlarmInv, fields, ghosts
<1>0. asked \in Nat /\ elapsed \in Nat /\ alarm_ticks_left \in Int /\ depth \in Nat
  BY DEF TypeOK
<1>1. ASSUME NEW rg \in Reg, Compute(rg) PROVE AlarmInv'
  <2>1. ctx' \in Context /\ ctx'.code = ctx.code
    BY <1>1, Zenon DEF Compute, TypeOK, Context
  <2>2. UNCHANGED <<alarm_flag, alarm_ticks, alarm_ticks_left, saved_tf, alive,
                    asked, elapsed, depth, interrupted>>
    BY <1>1, Zenon DEF Compute
  <2>3. TypeOK'
    BY <2>1, <2>2, Zenon DEF TypeOK
  <2>4. CountInv'
    BY <2>2, Zenon DEF CountInv
  <2>5. HandlerInv'
    BY <2>1, <2>2, Zenon DEF HandlerInv
  <2> QED
    BY <2>3, <2>4, <2>5, Zenon
<1>2. ASSUME NEW m \in Interval, Sigalarm(m) PROVE AlarmInv'
  <2>1. /\ alive /\ (ctx.code = "handler" => m = 0)
        /\ alarm_ticks' = m /\ alarm_ticks_left' = m /\ alarm_flag' = FALSE
        /\ asked' = m /\ elapsed' = 0
        /\ UNCHANGED <<saved_tf, ctx, alive, depth, interrupted>>
    BY <1>2, Zenon DEF Sigalarm
  <2>2. TypeOK'
    <3>1. alarm_flag' \in BOOLEAN
      BY <2>1, Zenon
    <3> QED
      BY <2>1, <3>1, Ranges, Zenon DEF TypeOK
  <2>3. CountInv'
    BY <2>1 DEF CountInv
  <2>4. HandlerInv'
    BY <2>1, Zenon DEF HandlerInv
  <2> QED
    BY <2>2, <2>3, <2>4, Zenon
<1>3. CASE TickInHandler
  BY <1>3, Zenon DEF TickInHandler, vars, TypeOK, CountInv, HandlerInv
<1>4. CASE TickCounts
  <2>1. /\ alive /\ ~alarm_flag /\ alarm_ticks_left # 1
        /\ alarm_ticks_left > -MaxIdle
        /\ alarm_ticks_left' = alarm_ticks_left - 1
        /\ elapsed' = IF asked > 0 THEN elapsed + 1 ELSE 0
        /\ UNCHANGED <<alarm_flag, alarm_ticks, saved_tf, ctx, alive, asked, depth,
                       interrupted>>
    BY <1>4, Zenon DEF TickCounts
  <2>2. CountInv'
    BY <1>0, <2>1 DEF CountInv
  <2>3. elapsed' \in 0 .. MaxInterval /\ alarm_ticks_left' \in -MaxIdle .. MaxInterval
    BY <1>0, <2>1 DEF CountInv, TypeOK
  <2>4. TypeOK'
    BY <2>1, <2>3, Zenon DEF TypeOK
  <2>5. HandlerInv'
    BY <2>1, Zenon DEF HandlerInv
  <2> QED
    BY <2>2, <2>4, <2>5, Zenon
<1>5. CASE TickFires
  <2>1. /\ alive /\ ~alarm_flag /\ alarm_ticks_left = 1 /\ depth < MaxDepth
        /\ alarm_flag' = TRUE /\ saved_tf' = ctx
        /\ alarm_ticks_left' = alarm_ticks
        /\ ctx' = [ctx EXCEPT !.code = "handler"]
        /\ elapsed' = 0 /\ depth' = depth + 1
        /\ interrupted' = IF depth = 0 THEN ctx ELSE interrupted
        /\ UNCHANGED <<alarm_ticks, alive, asked>>
    BY <1>5, Zenon DEF TickFires, Starts
  <2>2. asked # 0 /\ depth = 0 /\ ctx.code = "main"
    BY <1>0, <2>1 DEF CountInv, HandlerInv
  <2>3. ctx' \in Context /\ ctx'.code = "handler"
    BY <2>1, Zenon DEF TypeOK, Context
  <2>4. TypeOK'
    BY <1>0, <2>1, <2>2, <2>3 DEF TypeOK, CountInv
  <2>5. CountInv'
    BY <1>0, <2>1, <2>2 DEF CountInv
  <2>6. HandlerInv'
    BY <2>1, <2>2, <2>3 DEF HandlerInv
  <2> QED
    BY <2>4, <2>5, <2>6, Zenon
<1>6. CASE Sigreturn
  <2>1. /\ alive /\ ctx.code = "handler" /\ ctx' = saved_tf
        /\ alarm_flag' = FALSE /\ depth' = depth - 1
        /\ UNCHANGED <<alarm_ticks, alarm_ticks_left, saved_tf, alive, asked,
                       elapsed, interrupted>>
    BY <1>6, Zenon DEF Sigreturn
  <2>2. depth = 1 /\ saved_tf.code = "main"
    BY <2>1, Zenon DEF HandlerInv
  <2>3. TypeOK'
    <3>1. alarm_flag' \in BOOLEAN
      BY <2>1, Zenon
    <3>2. depth' = 0
      BY <2>1, <2>2
    <3>3. depth' \in 0 .. MaxDepth
      BY <3>2, Ranges, Zenon
    <3> QED
      BY <2>1, <3>1, <3>3, Zenon DEF TypeOK
  <2>4. CountInv'
    BY <2>1, Zenon DEF CountInv
  <2>5. HandlerInv'
    BY <2>1, <2>2 DEF HandlerInv
  <2> QED
    BY <2>3, <2>4, <2>5, Zenon
<1>7. CASE Exit
  <2>1. /\ alive /\ asked = 0 /\ alive' = FALSE
        /\ asked' = 0 /\ elapsed' = 0 /\ depth' = 0
        /\ UNCHANGED <<alarm_flag, alarm_ticks, alarm_ticks_left, saved_tf, ctx,
                       interrupted>>
    BY <1>7, Zenon DEF Exit
  <2>2. TypeOK'
    <3>1. alive' \in BOOLEAN
      BY <2>1, Zenon
    <3> QED
      BY <2>1, <3>1, Ranges, Zenon DEF TypeOK
  <2>3. CountInv'
    BY <2>1, Zenon DEF CountInv
  <2>4. HandlerInv'
    BY <2>1, <2>3, Zenon DEF HandlerInv, CountInv
  <2> QED
    BY <2>2, <2>3, <2>4, Zenon
<1>8. ASSUME NEW rg \in Reg, Allocproc(rg) PROVE AlarmInv'
  <2>1. /\ ~alive /\ alive' = TRUE /\ alarm_flag' = FALSE
        /\ ctx' = [code |-> "main", reg |-> rg] /\ interrupted' = ctx'
        /\ UNCHANGED <<alarm_ticks, alarm_ticks_left, saved_tf, asked, elapsed, depth>>
    BY <1>8, Zenon DEF Allocproc
  <2>2. ctx' \in Context /\ ctx'.code = "main"
    BY <2>1, Zenon DEF Context
  <2>3. TypeOK'
    BY <2>1, <2>2, Zenon DEF TypeOK
  <2>4. CountInv'
    BY <2>1, Zenon DEF CountInv
  <2>5. HandlerInv'
    BY <2>1, <2>2, Zenon DEF HandlerInv
  <2> QED
    BY <2>3, <2>4, <2>5, Zenon
<1>9. CASE UNCHANGED vars
  BY <1>9, Zenon DEF vars, TypeOK, CountInv, HandlerInv
<1> QED
  BY <1>1, <1>2, <1>3, <1>4, <1>5, <1>6, <1>7, <1>8, <1>9, Zenon DEF Next, Tick

-----------------------------------------------------------------------------
\* No handler starts before the one before it has finished, whatever the
\* intervals, if handlers do not arm the alarm again.
THEOREM AlarmNoReentry ==
  ASSUME ~Rearms, ~ExitsArmed
  PROVE  Spec => []NoReentry
<1>1. Init => AlarmInv
  BY InitAlarm, Zenon
<1>2. AlarmInv /\ [Next]_vars => AlarmInv'
  BY NextAlarm, Zenon
<1>3. AlarmInv => NoReentry
  BY DEF AlarmInv, HandlerInv, NoReentry, TypeOK
<1> QED
  BY <1>1, <1>2, <1>3, PTL DEF Spec

\* Under the same assumptions a handler starts only in a process that asked for
\* it, exactly at the n-th tick, and the interrupted program resumes with the
\* registers it had.
THEOREM AlarmHandlerContract ==
  ASSUME ~Rearms, ~ExitsArmed
  PROVE  Spec => HandlerContract
<1> USE DEF AlarmInv, fields, ghosts
<1>1. Init => AlarmInv
  BY InitAlarm, Zenon
<1>2. AlarmInv /\ [Next]_vars => AlarmInv'
  BY NextAlarm, Zenon
<1>3. AlarmInv /\ [Next]_vars =>
        [/\ depth' > depth => asked # 0 /\ elapsed + 1 = asked
         /\ depth = 1 /\ depth' = 0 /\ alive' => ctx' = interrupted]_vars
  <2> SUFFICES ASSUME AlarmInv, Next
               PROVE  /\ depth' > depth => asked # 0 /\ elapsed + 1 = asked
                      /\ depth = 1 /\ depth' = 0 /\ alive' => ctx' = interrupted
    BY Zenon
  <2>0. depth \in Nat /\ asked \in Nat /\ elapsed \in Nat
    BY AlarmAssumption, MaxIntervalIs DEF TypeOK
  <2>1. ASSUME depth' = depth
        PROVE  /\ ~(depth' > depth) /\ ~(depth = 1 /\ depth' = 0)
    BY <2>0, <2>1
  <2>2. CASE TickFires
    <3>1. alarm_ticks_left = 1 /\ depth' = depth + 1
      BY <2>2, Zenon DEF TickFires, Starts
    <3>2. asked # 0 /\ elapsed + 1 = asked
      BY <3>1, <2>0 DEF CountInv
    <3> QED
      BY <2>0, <3>1, <3>2
  <2>3. CASE Sigreturn
    <3>1. ctx' = saved_tf /\ depth' = depth - 1 /\ alive
      BY <2>3, Zenon DEF Sigreturn
    <3>2. depth = 1 => saved_tf = interrupted
      BY <3>1 DEF HandlerInv
    <3> QED
      BY <2>0, <3>1, <3>2
  <2>4. CASE Exit
    BY <2>0, <2>4 DEF Exit
  <2>5. CASE ~(TickFires \/ Sigreturn \/ Exit)
    <3>1. depth' = depth
      BY <2>5, Zenon DEF Next, Tick, TickInHandler, TickCounts, Compute, Allocproc,
                  Sigalarm, vars
    <3> QED
      BY <2>1, <3>1, Zenon
  <2> QED
    BY <2>2, <2>3, <2>4, <2>5, Zenon
<1> QED
  BY <1>1, <1>2, <1>3, PTL DEF Spec, HandlerContract

-----------------------------------------------------------------------------
(* Uart *)

InStart == {"start", "thr"}

\* uart_tx_lock excludes: one process, or the handler, is in uartstart().
TxLockInv ==
  /\ \A p, q \in Printer : wpc[p] \in InStart /\ wpc[q] \in InStart => p = q
  /\ \A q \in Printer : wpc[q] \in InStart => hpc \notin InStart

\* Bytes that are on their way to the FIFO: of the holder of uart_tx_lock, of
\* the handler's echo and of printf().
Pending ==
  (IF hpc = "thr" \/ \E q \in Printer : wpc[q] = "thr" THEN 1 ELSE 0)
    + (IF hpc = "sync" THEN 1 ELSE 0) + (IF kpc = "sync" THEN 1 ELSE 0)

\* Those who found the FIFO empty fit into it together with what others have
\* sent since.
FifoInv == thr + Pending <= 3

SleepInv == \A q \in Printer : wpc[q] = "sleep" => TxFull

UartTypeInv == UartTypeOK /\ typed \in Nat /\ typed <= MaxTyped /\ rhr <= typed

UartInv == UartTypeInv /\ TxLockInv /\ FifoInv /\ SleepInv

\* Positions stay in range.
LEMMA TxIndex ==
  ASSUME NEW k \in 0 .. TXUINT - 1
  PROVE  /\ (k + 1) % TXUINT \in 0 .. TXUINT - 1
         /\ k % UART_TX_BUF_SIZE \in 0 .. UART_TX_BUF_SIZE - 1
<1>1. TXUINT \in Nat \ {0} /\ k + 1 \in Int /\ k \in Int
  BY UartAssumption
<1> QED
  BY <1>1, UartAssumption

\* UartInit establishes the inductive invariant.
LEMMA InitUart ==
  ASSUME UartInit
  PROVE  UartInv
<1>1. uart_tx_buf \in [0 .. UART_TX_BUF_SIZE - 1 -> Printer]
  <2>1. (CHOOSE q \in Printer : TRUE) \in Printer
    BY UartAssumption, Zenon
  <2> QED
    BY <2>1, Zenon DEF UartInit
<1>2. 0 \in 0 .. TXUINT - 1 /\ 0 \in 0 .. MaxTyped /\ 0 <= MaxTyped
  BY UartAssumption
<1>3. uirq \in BOOLEAN
  BY Zenon DEF UartInit
<1>4. UartTypeInv
  BY <1>1, <1>2, <1>3 DEF UartInit, UartTypeInv, UartTypeOK
<1>5. TxLockInv /\ SleepInv
  BY Zenon DEF UartInit, TxLockInv, SleepInv, InStart
<1>6. FifoInv
  BY DEF UartInit, FifoInv, Pending
<1> QED
  BY <1>4, <1>5, <1>6, Zenon DEF UartInv

\* Pending is at most 3, so whoever finds the FIFO empty may add a byte.
LEMMA PendingIs ==
  /\ Pending \in 0 .. 3
  /\ Pending' \in 0 .. 3
  BY DEF Pending

\* Every step keeps the types.
LEMMA NextUartType ==
  ASSUME UartTypeInv, [UartNext]_uartvars
  PROVE  UartTypeInv'
<1> USE DEF UartTypeInv, UartTypeOK, tx
<1>0. rhr \in Nat /\ typed \in Nat /\ MaxTyped \in Nat
  BY UartAssumption
<1>1. ASSUME NEW q \in Printer, Putc(q) \/ PutcSleeps(q) PROVE UartTypeInv'
  BY <1>1, Zenon DEF Putc, PutcSleeps
<1>2. ASSUME NEW q \in Printer, PutcStores(q) PROVE UartTypeInv'
  <2>1. /\ uart_tx_w' \in 0 .. TXUINT - 1
        /\ uart_tx_buf' \in [0 .. UART_TX_BUF_SIZE - 1 -> Printer]
    BY <1>2, TxIndex, Zenon DEF PutcStores
  <2> QED
    BY <1>2, <2>1, Zenon DEF PutcStores
<1>3. ASSUME Takes PROVE uart_tx_r' \in 0 .. TXUINT - 1
  BY <1>3, TxIndex, Zenon DEF Takes
<1>4. ASSUME NEW q \in Printer, PutcStarts(q) PROVE UartTypeInv'
  <2>1. wpc' \in [Printer -> {"user", "putc", "sleep", "start", "thr"}]
    BY <1>4, Zenon DEF PutcStarts, Woken
  <2>2. uart_tx_r' \in 0 .. TXUINT - 1 /\ thr' \in Nat
    BY <1>3, <1>4 DEF PutcStarts, Takes, Sends
  <2> QED
    BY <1>4, <2>1, <2>2, Zenon DEF PutcStarts, Takes, Sends
<1>5. CASE IntrStarts
  <2>1. wpc' \in [Printer -> {"user", "putc", "sleep", "start", "thr"}]
    BY <1>5, Zenon DEF IntrStarts, Woken
  <2>2. uart_tx_r' \in 0 .. TXUINT - 1 /\ thr' \in Nat
    BY <1>3, <1>5 DEF IntrStarts, Takes, Sends
  <2> QED
    BY <1>5, <2>1, <2>2, Zenon DEF IntrStarts, Takes, Sends
<1>6. CASE UartIntr
  <2>1. uirq' \in BOOLEAN
    BY <1>6, Zenon DEF UartIntr
  <2> QED
    BY <1>6, <2>1, Zenon DEF UartIntr
<1>7. CASE IntrReads
  <2>1. rhr' \in 0 .. MaxTyped /\ rhr' <= typed
    BY <1>0, <1>7 DEF IntrReads
  <2> QED
    BY <1>7, <2>1, Zenon DEF IntrReads
<1>8. CASE IntrLocks
  BY <1>8, Zenon DEF IntrLocks
<1>9. CASE IntrEchoes
  BY <1>9 DEF IntrEchoes, Sends
<1>10. CASE Printf
  BY <1>10 DEF Printf
<1>11. CASE Transmit
  <2>1. uirq' \in BOOLEAN
    BY <1>11, Zenon DEF Transmit
  <2>2. thr' \in Nat
    BY <1>11 DEF Transmit
  <2> QED
    BY <1>11, <2>1, <2>2, Zenon DEF Transmit
<1>12. CASE Receive
  <2>1. rhr' \in 0 .. MaxTyped /\ rhr' <= typed' /\ typed' \in Nat /\ typed' <= MaxTyped
    BY <1>0, <1>12 DEF Receive
  <2>2. uirq' \in BOOLEAN
    BY <1>12, Zenon DEF Receive
  <2> QED
    BY <1>12, <2>1, <2>2, Zenon DEF Receive
<1>13. CASE UNCHANGED uartvars
  BY <1>13, Zenon DEF uartvars
<1> QED
  BY <1>1, <1>2, <1>4, <1>5, <1>6, <1>7, <1>8, <1>9, <1>10, <1>11, <1>12, <1>13, Zenon
     DEF UartNext, UartStep, Handler

\* Nobody enters uartstart() while another is in it.
LEMMA NextTxLock ==
  ASSUME UartTypeInv, TxLockInv, [UartNext]_uartvars
  PROVE  TxLockInv'
<1> USE DEF UartTypeInv, UartTypeOK, TxLockInv, InStart
<1>1. ASSUME NEW q \in Printer, Putc(q) \/ PutcSleeps(q) PROVE TxLockInv'
  BY <1>1 DEF Putc, PutcSleeps
<1>2. ASSUME NEW q \in Printer, PutcStores(q) PROVE TxLockInv'
  BY <1>2, Zenon DEF PutcStores, TxLocked
<1>3. ASSUME NEW q \in Printer, PutcStarts(q) PROVE TxLockInv'
  <2>1. /\ wpc[q] \in InStart /\ hpc' = hpc
        /\ \A p \in Printer \ {q} : wpc'[p] \in InStart => wpc[p] \in InStart
    <3>1. CASE wpc[q] = "start" /\ wpc' = [Woken EXCEPT ![q] = "thr"] /\ UNCHANGED hpc
      <4>1. \A p \in Printer \ {q} : wpc'[p] = Woken[p]
        BY <3>1, Zenon DEF Woken
      <4> QED
        BY <3>1, <4>1, Zenon DEF Woken
    <3>2. CASE wpc[q] = "thr" /\ wpc' = [wpc EXCEPT ![q] = "start"] /\ UNCHANGED hpc
      BY <3>2, Zenon
    <3>3. CASE wpc[q] = "start" /\ wpc' = [wpc EXCEPT ![q] = "user"] /\ UNCHANGED hpc
      BY <3>3, Zenon
    <3> QED
      BY <1>3, <3>1, <3>2, <3>3, Zenon DEF PutcStarts
  <2> QED
    BY <2>1, Zenon
<1>4. CASE IntrStarts
  <2>1. /\ hpc \in InStart
        /\ \A p \in Printer : wpc'[p] \in InStart => wpc[p] \in InStart
    BY <1>4, Zenon DEF IntrStarts, Woken
  <2> QED
    BY <2>1, Zenon
<1>5. CASE IntrLocks
  BY <1>5, Zenon DEF IntrLocks, TxLocked
<1>6. CASE UartIntr \/ IntrReads \/ IntrEchoes
  BY <1>6, Zenon DEF UartIntr, IntrReads, IntrEchoes
<1>7. CASE Printf \/ Transmit \/ Receive \/ UNCHANGED uartvars
  BY <1>7, Zenon DEF Printf, Transmit, Receive, uartvars
<1> QED
  BY <1>1, <1>2, <1>3, <1>4, <1>5, <1>6, <1>7, Zenon DEF UartNext, UartStep, Handler

\* A byte goes onto its way only when the FIFO is empty, and it is on its way no
\* more when it is in the FIFO.
LEMMA NextFifo ==
  ASSUME UartTypeInv, TxLockInv, FifoInv, [UartNext]_uartvars
  PROVE  FifoInv'
<1> DEFINE Holder == hpc = "thr" \/ \E q \in Printer : wpc[q] = "thr"
<1>0. thr \in Nat /\ thr + Pending <= 3 /\ Pending' \in 0 .. 3
  BY PendingIs, Zenon DEF UartTypeInv, UartTypeOK, FifoInv
<1>1. ASSUME thr' = 0 PROVE FifoInv'
  <2>1. \A n \in 0 .. 3 : 0 + n <= 3
    OBVIOUS
  <2> QED
    BY <1>0, <1>1, <2>1, Zenon DEF FifoInv
<1>2. ASSUME thr' \in Nat, thr' <= thr, Pending' = Pending PROVE FifoInv'
  <2>1. \A k, m \in Nat, n \in 0 .. 3 : k <= m /\ m + n <= 3 => k + n <= 3
    OBVIOUS
  <2> QED
    BY <1>0, <1>2, <2>1, Zenon DEF FifoInv
<1>3. ASSUME thr' = thr + 1, Pending = Pending' + 1 PROVE FifoInv'
  <2>1. \A k \in Nat, n \in 0 .. 3 : k + (n + 1) <= 3 => (k + 1) + n <= 3
    OBVIOUS
  <2> QED
    BY <1>0, <1>3, <2>1, Zenon DEF FifoInv
<1>4. ASSUME NEW q \in Printer, Putc(q) \/ PutcSleeps(q) \/ PutcStores(q) PROVE FifoInv'
  <2>1. thr' = thr /\ hpc' = hpc /\ kpc' = kpc /\ Holder' = Holder
    BY <1>4, Zenon DEF Putc, PutcSleeps, PutcStores, UartTypeInv, UartTypeOK
  <2> QED
    BY <1>0, <1>2, <2>1 DEF Pending
<1>5. ASSUME NEW q \in Printer, PutcStarts(q) PROVE FifoInv'
  <2>1. CASE wpc[q] = "start" /\ Takes
    BY <1>1, <1>5, <2>1, Zenon DEF PutcStarts, Takes, Idle
  <2>2. CASE wpc[q] = "thr" /\ Sends /\ wpc' = [wpc EXCEPT ![q] = "start"] /\ UNCHANGED hpc
    <3>1. Holder /\ ~Holder' /\ hpc # "thr"
      BY <2>2, Zenon DEF UartTypeInv, UartTypeOK, TxLockInv, InStart
    <3>2. thr' = thr + 1 /\ kpc' = kpc /\ hpc' = hpc
      BY <2>2, Zenon DEF Sends
    <3>3. Pending = Pending' + 1
      BY <3>1, <3>2 DEF Pending
    <3> QED
      BY <1>3, <3>2, <3>3, Zenon
  <2>3. CASE /\ wpc[q] = "start" /\ wpc' = [wpc EXCEPT ![q] = "user"]
             /\ UNCHANGED <<thr, hpc, kpc>>
    <3>1. Holder' = Holder
      BY <2>3, Zenon DEF UartTypeInv, UartTypeOK
    <3> QED
      BY <1>0, <1>2, <2>3, <3>1 DEF Pending
  <2> QED
    BY <1>5, <2>1, <2>2, <2>3, Zenon DEF PutcStarts
<1>6. CASE IntrStarts
  <2>1. CASE hpc = "start" /\ Takes
    BY <1>1, <1>6, <2>1, Zenon DEF IntrStarts, Takes, Idle
  <2>2. CASE hpc = "thr" /\ Sends /\ hpc' = "start" /\ UNCHANGED wpc
    <3>1. Holder /\ ~Holder'
      BY <2>2, Zenon DEF UartTypeInv, UartTypeOK, TxLockInv, InStart
    <3>2. thr' = thr + 1 /\ kpc' = kpc
      BY <2>2, Zenon DEF Sends
    <3>3. Pending = Pending' + 1
      BY <2>2, <3>1, <3>2 DEF Pending
    <3> QED
      BY <1>3, <3>2, <3>3, Zenon
  <2>3. CASE hpc = "start" /\ hpc' = "idle" /\ UNCHANGED <<thr, wpc, kpc>>
    <3>1. Holder' = Holder
      BY <2>3, Zenon
    <3> QED
      BY <1>0, <1>2, <2>3, <3>1 DEF Pending
  <2> QED
    BY <1>6, <2>1, <2>2, <2>3, Zenon DEF IntrStarts
<1>7. CASE UartIntr \/ IntrReads \/ IntrLocks
  <2>1. /\ thr' = thr /\ kpc' = kpc /\ wpc' = wpc
        /\ hpc \in {"idle", "rx"} /\ hpc' \in {"rx", "echo", "start"}
    BY <1>7, Zenon DEF UartIntr, IntrReads, IntrLocks
  <2>2. Holder' = Holder
    BY <2>1, Zenon
  <2> QED
    BY <1>0, <1>2, <2>1, <2>2 DEF Pending
<1>8. CASE IntrEchoes
  <2>1. CASE Idle /\ UNCHANGED thr
    BY <1>1, <2>1, Zenon DEF Idle
  <2>2. CASE hpc = "sync" /\ Sends /\ hpc' = "rx" /\ UNCHANGED wpc
    <3>1. Holder' = Holder /\ kpc' = kpc /\ thr' = thr + 1
      BY <2>2, Zenon DEF Sends
    <3>2. Pending = Pending' + 1
      BY <2>2, <3>1 DEF Pending
    <3> QED
      BY <1>3, <3>1, <3>2, Zenon
  <2> QED
    BY <1>8, <2>1, <2>2, Zenon DEF IntrEchoes
<1>9. CASE Printf
  <2>1. Holder' = Holder /\ hpc' = hpc
    BY <1>9, Zenon DEF Printf
  <2>2. CASE kpc = "idle" /\ kpc' = "print" /\ UNCHANGED thr
    BY <1>0, <1>2, <2>1, <2>2 DEF Pending
  <2>3. CASE Idle /\ UNCHANGED thr
    BY <1>1, <2>3, Zenon DEF Idle
  <2>4. CASE kpc = "sync" /\ thr' = thr + 1 /\ kpc' = "idle"
    <3>1. Pending = Pending' + 1
      BY <2>1, <2>4 DEF Pending
    <3> QED
      BY <1>3, <2>4, <3>1, Zenon
  <2> QED
    BY <1>9, <2>2, <2>3, <2>4, Zenon DEF Printf
<1>10. CASE Transmit \/ Receive \/ UNCHANGED uartvars
  <2>1. hpc' = hpc /\ kpc' = kpc /\ wpc' = wpc
    BY <1>10, Zenon DEF Transmit, Receive, uartvars
  <2>2. thr' \in Nat /\ thr' <= thr
    BY <1>0, <1>10 DEF Transmit, Receive, uartvars
  <2> QED
    BY <1>2, <2>1, <2>2, Zenon DEF Pending
<1> QED
  BY <1>4, <1>5, <1>6, <1>7, <1>8, <1>9, <1>10, Zenon DEF UartNext, UartStep, Handler

\* Who makes room wakes everybody, and nobody stores into a full buffer.
LEMMA NextSleep ==
  ASSUME UartTypeInv, SleepInv, [UartNext]_uartvars
  PROVE  SleepInv'
<1>1. ASSUME UNCHANGED <<uart_tx_w, uart_tx_r>>,
             \A q \in Printer : wpc'[q] = "sleep" => wpc[q] = "sleep" \/ TxFull
      PROVE  SleepInv'
  BY <1>1, Zenon DEF SleepInv, TxFull
<1>2. ASSUME \A q \in Printer : wpc'[q] # "sleep" PROVE SleepInv'
  BY <1>2, Zenon DEF SleepInv
<1>3. \A q \in Printer : Woken[q] # "sleep"
  BY Zenon DEF Woken
<1> USE DEF UartTypeInv, UartTypeOK, tx
<1>4. ASSUME NEW q \in Printer, Putc(q) \/ PutcSleeps(q) PROVE SleepInv'
  <2>1. \A p \in Printer : wpc'[p] = "sleep" => wpc[p] = "sleep" \/ TxFull
    BY <1>4, Zenon DEF Putc, PutcSleeps
  <2> QED
    BY <1>1, <1>4, <2>1, Zenon DEF Putc, PutcSleeps
<1>5. ASSUME NEW q \in Printer, PutcStores(q) PROVE SleepInv'
  <2>1. \A p \in Printer : wpc[p] # "sleep"
    BY <1>5, Zenon DEF PutcStores, SleepInv
  <2> QED
    BY <1>2, <1>5, <2>1, Zenon DEF PutcStores
<1>6. ASSUME NEW q \in Printer, PutcStarts(q) PROVE SleepInv'
  <2>1. CASE wpc[q] = "start" /\ Takes /\ wpc' = [Woken EXCEPT ![q] = "thr"]
    <3>1. Woken \in [Printer -> {"user", "putc", "sleep", "start", "thr"}]
      BY Zenon DEF Woken
    <3>2. \A p \in Printer : wpc'[p] # "sleep"
      BY <1>3, <2>1, <3>1, Zenon
    <3> QED
      BY <1>2, <3>2, Zenon
  <2>2. CASE wpc' \in {[wpc EXCEPT ![q] = "start"], [wpc EXCEPT ![q] = "user"]} /\ UNCHANGED tx
    <3>1. \A p \in Printer : wpc'[p] = "sleep" => wpc[p] = "sleep"
      BY <2>2, Zenon
    <3> QED
      BY <1>1, <2>2, <3>1, Zenon
  <2> QED
    BY <1>6, <2>1, <2>2, Zenon DEF PutcStarts, Sends
<1>7. CASE IntrStarts
  BY <1>1, <1>2, <1>3, <1>7, Zenon DEF IntrStarts, Sends
<1>8. CASE UartIntr \/ IntrReads \/ IntrLocks \/ IntrEchoes
  BY <1>1, <1>8, Zenon DEF UartIntr, IntrReads, IntrLocks, IntrEchoes, Sends
<1>9. CASE Printf \/ Transmit \/ Receive \/ UNCHANGED uartvars
  BY <1>1, <1>9, Zenon DEF Printf, Transmit, Receive, uartvars
<1> QED
  BY <1>4, <1>5, <1>6, <1>7, <1>8, <1>9, Zenon DEF UartNext, UartStep, Handler

\* A transmit FIFO of three bytes never overflows, whatever uartputc(), the
\* handler's echo and printf() find idle at the same time; and whoever sleeps
\* in uartputc() faces a full buffer.
THEOREM UartFifoFits ==
  ASSUME FIFO >= 3
  PROVE  UartSpec => []FifoFits
<1>1. UartInv => FifoFits
  <2> SUFFICES ASSUME UartInv PROVE FifoFits
    BY Zenon
  <2>1. thr <= FIFO
    <3>1. thr \in Nat /\ FIFO \in Nat /\ Pending \in 0 .. 3 /\ thr + Pending <= 3
      BY UartAssumption, PendingIs, Zenon DEF UartInv, UartTypeInv, UartTypeOK, FifoInv
    <3> QED
      BY <3>1
  <2> QED
    BY <2>1, Zenon DEF UartInv, UartTypeInv, SleepInv, FifoFits
<1>2. UartInv /\ [UartNext]_uartvars => UartInv'
  BY NextUartType, NextTxLock, NextFifo, NextSleep, Zenon DEF UartInv
<1> QED
  BY <1>1, <1>2, InitUart, PTL DEF UartSpec

\* uart_tx_r and uart_tx_w are never farther apart than the buffer is long.
TxInv == IsQueue(TXUINT, UART_TX_BUF_SIZE, Printer, uart_tx_buf, uart_tx_r, uart_tx_w)

TxPuts(q) ==
  /\ ~TxFull
  /\ uart_tx_buf' = [uart_tx_buf EXCEPT ![uart_tx_w % UART_TX_BUF_SIZE] = q]
  /\ uart_tx_w' = (uart_tx_w + 1) % TXUINT /\ UNCHANGED uart_tx_r

TxGets ==
  /\ ~TxEmpty
  /\ uart_tx_r' = (uart_tx_r + 1) % TXUINT /\ UNCHANGED <<uart_tx_buf, uart_tx_w>>

\* What a step does to uart_tx_buf: only uartputc() puts in, and only uartstart()
\* takes out.
LEMMA TxSteps ==
  ASSUME [UartNext]_uartvars
  PROVE  UNCHANGED tx \/ TxGets \/ \E q \in Printer : TxPuts(q)
<1>1. ASSUME NEW q \in Printer, Putc(q) \/ PutcSleeps(q) PROVE UNCHANGED tx
  BY <1>1, Zenon DEF Putc, PutcSleeps
<1>2. ASSUME NEW q \in Printer, PutcStores(q) PROVE TxPuts(q)
  BY <1>2, Zenon DEF PutcStores, TxPuts
<1>3. ASSUME NEW q \in Printer, PutcStarts(q) PROVE UNCHANGED tx \/ TxGets
  BY <1>3, Zenon DEF PutcStarts, Takes, Sends, TxGets
<1>4. CASE IntrStarts
  BY <1>4, Zenon DEF IntrStarts, Takes, Sends, TxGets
<1>5. CASE UartIntr \/ IntrReads \/ IntrLocks \/ IntrEchoes
  BY <1>5, Zenon DEF UartIntr, IntrReads, IntrLocks, IntrEchoes, Sends
<1>6. CASE Printf \/ Transmit \/ Receive
  BY <1>6, Zenon DEF Printf, Transmit, Receive
<1>7. CASE UNCHANGED uartvars
  BY <1>7, Zenon DEF uartvars
<1> QED
  BY <1>1, <1>2, <1>3, <1>4, <1>5, <1>6, <1>7, Zenon DEF UartNext, UartStep, Handler

\* uart_tx_buf implements a bounded FIFO: what processes write goes to the UART
\* once and in the order it was stored, for any size of the buffer and counters
\* that wrap, whoever sleeps, is woken or sends.
THEOREM UartTxIsFifo == UartSpec => TxIsFifo
<1>1. UartInit => TxPromise!Init /\ TxInv
  <2> SUFFICES ASSUME UartInit PROVE TxPromise!Init /\ TxInv
    BY Zenon
  <2>1. Wraps(TXUINT, UART_TX_BUF_SIZE)
    BY UartAssumption DEF Wraps
  <2>2. BufferOf(UART_TX_BUF_SIZE, Printer, uart_tx_buf) /\ uart_tx_r = 0 /\ uart_tx_w = 0
    BY InitUart, UartAssumption, Zenon DEF UartInv, UartTypeInv, UartTypeOK, BufferOf, UartInit
  <2>3. TxInv /\ Queue(TXUINT, UART_TX_BUF_SIZE, uart_tx_buf, uart_tx_r, uart_tx_w) = <<>>
    BY <2>1, <2>2, QueueEmpty, Zenon DEF TxInv
  <2>4. TxQueue = <<>>
    BY <2>3, Zenon DEF TxQueue, Queue, Ring, Behind
  <2> QED
    BY <2>3, <2>4, Zenon DEF TxPromise!Init
<1>2. TxInv /\ [UartNext]_uartvars => TxInv' /\ [TxPromise!Next]_TxPromise!vars
  <2> SUFFICES ASSUME TxInv, [UartNext]_uartvars
               PROVE  TxInv' /\ (TxPromise!Next \/ TxQueue' = TxQueue)
    BY Zenon DEF TxPromise!vars
  <2>1. TxQueue = Queue(TXUINT, UART_TX_BUF_SIZE, uart_tx_buf, uart_tx_r, uart_tx_w)
    BY Zenon DEF TxQueue, Queue, Ring, Behind
  <2>2. TxQueue' = Queue(TXUINT, UART_TX_BUF_SIZE, uart_tx_buf', uart_tx_r', uart_tx_w')
    BY Zenon DEF TxQueue, Queue, Ring, Behind
  <2>3. CASE UNCHANGED tx
    BY <2>1, <2>2, <2>3, Zenon DEF tx, TxInv
  <2>4. ASSUME NEW q \in Printer, TxPuts(q) PROVE TxInv' /\ TxPromise!Put(q)
    <3>1. QueuePuts(TXUINT, UART_TX_BUF_SIZE, Printer, uart_tx_buf, uart_tx_r, uart_tx_w, q)
      BY <2>4, QueuePut, Zenon DEF TxPuts, TxFull, TxInv
    <3> QED
      BY <2>1, <2>2, <2>4, <3>1, Zenon DEF TxPuts, QueuePuts, TxInv, TxPromise!Put
  <2>5. CASE TxGets
    <3>1. QueueGets(TXUINT, UART_TX_BUF_SIZE, Printer, uart_tx_buf, uart_tx_r, uart_tx_w)
      BY <2>5, QueueGet, Zenon DEF TxGets, TxEmpty, TxInv
    <3>2. TxInv' /\ TxPromise!Get
      BY <2>1, <2>2, <2>5, <3>1, Zenon DEF TxGets, QueueGets, TxInv, TxPromise!Get
    <3> QED
      BY <3>2, Zenon DEF TxPromise!Next
  <2> QED
    BY <2>3, <2>4, <2>5, TxSteps, Zenon DEF TxPromise!Next
<1> QED
  BY <1>1, <1>2, PTL DEF UartSpec, TxIsFifo, TxPromise!Spec

-----------------------------------------------------------------------------
(* Console *)

\* Only the holder of cons.lock is inside the loop of consoleread().
ConsLockInv == \A p \in Reader : rpc[p] = "read" => holder = p

\* n counts down from target, and a reader sleeps in front of an empty buffer.
ConsWaitInv ==
  \A p \in Reader : left[p] <= target[p] /\ (rpc[p] = "sleep" => r = w)

ConsInv == ConsTypeOK /\ ConsLockInv /\ ConsWaitInv

\* An index stays an index.
LEMMA Index ==
  ASSUME NEW a \in Int
  PROVE  a % CONSUINT \in 0 .. CONSUINT - 1
  BY ConsoleAssumption

\* So do the indices and distances computed from it.
LEMMA IndexSteps ==
  ASSUME NEW j \in 0 .. CONSUINT - 1, NEW k \in 0 .. CONSUINT - 1
  PROVE  /\ {Inc(j), Dec(j), Dist(j, k)} \subseteq 0 .. CONSUINT - 1
         /\ Dist(j, k) \in Nat
<1>1. j + 1 \in Int /\ j + CONSUINT - 1 \in Int /\ k + CONSUINT - j \in Int
  BY ConsoleAssumption
<1>2. /\ (j + 1) % CONSUINT \in 0 .. CONSUINT - 1
      /\ (j + CONSUINT - 1) % CONSUINT \in 0 .. CONSUINT - 1
      /\ (k + CONSUINT - j) % CONSUINT \in 0 .. CONSUINT - 1
  BY <1>1, Index, Zenon
<1> QED
  BY <1>2 DEF Inc, Dec, Dist

\* A set of natural numbers up to n has a greatest element.
LEMMA Greatest ==
  ASSUME NEW n \in Nat, NEW T, T \subseteq 0 .. n, T # {}
  PROVE  \E k \in T : \A j \in T : j <= k
<1> DEFINE Gap == {d \in Nat : d <= n /\ n - d \in T}
<1>1. Gap \subseteq Nat /\ Gap # {}
  <2>1. PICK k \in T : TRUE
    BY Zenon
  <2>2. n - k \in Nat /\ n - k <= n /\ n - (n - k) = k
    OBVIOUS
  <2>3. n - k \in Gap
    BY <2>2, Zenon
  <2> QED
    BY <2>3, Zenon
<1>2. PICK d \in Gap : \A x \in Gap : ~(<<x, d>> \in OpToRel(<, Nat))
  BY <1>1, NatLessThanWellFounded, WFMin, Zenon
<1>3. \A x \in Gap : d <= x
  <2> SUFFICES ASSUME NEW x \in Gap, x < d
               PROVE  FALSE
    OBVIOUS
  <2>1. <<x, d>> \in OpToRel(<, Nat)
    BY Zenon DEF OpToRel
  <2> QED
    BY <1>2, <2>1, Zenon
<1>4. ASSUME NEW j \in T
      PROVE  j <= n - d
  <2>1. n - j \in Nat /\ n - j <= n /\ n - (n - j) = j
    OBVIOUS
  <2>2. n - j \in Gap
    BY <2>1, Zenon
  <2> QED
    BY <1>3, <2>1, <2>2
<1> QED
  BY <1>4, Zenon

-----------------------------------------------------------------------------
\* ConsInit establishes the inductive invariant.
LEMMA InitCons ==
  ASSUME ConsInit
  PROVE  ConsInv
<1> USE ConsoleAssumption
<1>1. ConsTypeOK
  BY DEF ConsInit, ConsTypeOK, Stored
<1> QED
  BY <1>1 DEF ConsInit, ConsInv, ConsLockInv, ConsWaitInv

\* control-U and control-H move e and nothing else.
LEMMA EditFacts ==
  ASSUME ConsInv, Kills \/ Erases
  PROVE  e' \in 0 .. CONSUINT - 1 /\ UNCHANGED <<buf, r, w, holder, rpc, rlocals, dead>>
<1> USE ConsoleAssumption DEF ConsInv, ConsTypeOK
<1>1. CASE Erases
  <2>1. Dec(e) \in 0 .. CONSUINT - 1
    BY IndexSteps, Zenon
  <2> QED
    BY <1>1, <2>1, Zenon DEF Erases
<1>2. CASE Kills
  <2> DEFINE back == {k \in 0 .. Dist(w, e) :
                        \A j \in 0 .. k - 1 : buf[Cell(e + CONSUINT - j - 1)] # NL}
  <2>1. Dist(w, e) \in Nat
    BY IndexSteps, Zenon
  <2>2. back \subseteq 0 .. Dist(w, e) /\ 0 \in back
    BY <2>1
  <2> DEFINE most == CHOOSE k \in back : \A j \in back : j <= k
  <2>3. e' = (e + CONSUINT - most) % CONSUINT
    BY <1>2, Zenon DEF Kills
  <2> HIDE DEF back
  <2>4. \E k \in back : \A j \in back : j <= k
    BY <2>1, <2>2, Greatest, Zenon
  <2>5. most \in back
    BY <2>4, Zenon
  <2> HIDE DEF most
  <2>6. e + CONSUINT - most \in Int
    BY <2>1, <2>2, <2>5
  <2>7. e' \in 0 .. CONSUINT - 1
    BY <2>3, <2>6, Index, Zenon
  <2> QED
    BY <1>2, <2>7, Zenon DEF Kills
<1> QED
  BY <1>1, <1>2, Zenon

\* A stored character wakes every sleeper if it completes a line, and leaves w
\* where it was if it does not.
LEMMA StoreFacts ==
  ASSUME ConsInv, NEW key \in Key, key # "control-P", key # "control-U",
         key # "control-H", Stores(key)
  PROVE  /\ ConsTypeOK' /\ holder = NoReader
         /\ UNCHANGED <<r, holder, left, target, dead>>
         /\ \A p \in Reader : /\ rpc'[p] = "read" => rpc[p] = "read"
                              /\ rpc'[p] = "sleep" => rpc[p] = "sleep" /\ w' = w
<1> USE ConsoleAssumption DEF ConsInv, ConsTypeOK
<1> DEFINE c == IF key = CR THEN NL ELSE key
<1>1. c \in Stored
  BY Zenon DEF Key, Stored, Stores, CR
<1>2. Cell(e) \in 0 .. INPUT_BUF_SIZE - 1
  BY DEF Cell
<1>3. e' = Inc(e) /\ Inc(e) \in 0 .. CONSUINT - 1
  <2>1. Inc(e) \in 0 .. CONSUINT - 1
    BY IndexSteps, Zenon
  <2> QED
    BY <2>1, Zenon DEF Stores
<1> HIDE DEF c
<1>4. /\ buf' = [buf EXCEPT ![Cell(e)] = c]
      /\ w' = IF Commits(c, e') THEN e' ELSE w
      /\ rpc' = [p \in Reader |->
                   IF Commits(c, e') /\ rpc[p] = "sleep" THEN "lock" ELSE rpc[p]]
      /\ UNCHANGED <<r, holder, left, target, dead>>
      /\ holder = NoReader
  BY Zenon DEF Stores, c, rlocals
<1>5. \A p \in Reader : /\ rpc'[p] = "read" => rpc[p] = "read"
                        /\ rpc'[p] = "sleep" => rpc[p] = "sleep" /\ w' = w
  BY <1>4, Zenon
<1>6. /\ buf' \in [0 .. INPUT_BUF_SIZE - 1 -> Stored]
      /\ w' \in 0 .. CONSUINT - 1
      /\ rpc' \in [Reader -> {"user", "lock", "read", "sleep"}]
  BY <1>1, <1>2, <1>3, <1>4, Zenon
<1> QED
  BY <1>3, <1>4, <1>5, <1>6, Zenon

\* Every step keeps the inductive invariant.
LEMMA NextCons ==
  ASSUME ConsInv, [ConsNext]_consvars
  PROVE  ConsInv'
<1> USE ConsoleAssumption DEF ConsInv, ConsTypeOK, cons, rlocals
<1>1. ASSUME Kills \/ Erases PROVE ConsInv'
  BY <1>1, EditFacts, Zenon DEF ConsLockInv, ConsWaitInv
<1>2. ASSUME NEW key \in Key, Stores(key), key # "control-P",
             key # "control-U", key # "control-H"
      PROVE  ConsInv'
  <2>1. /\ ConsTypeOK' /\ UNCHANGED <<r, holder, left, target>>
        /\ \A p \in Reader : /\ rpc'[p] = "read" => rpc[p] = "read"
                             /\ rpc'[p] = "sleep" => rpc[p] = "sleep" /\ w' = w
    BY <1>2, StoreFacts, Zenon
  <2>2. ConsLockInv'
    BY <2>1, Zenon DEF ConsLockInv
  <2>3. ConsWaitInv'
    BY <2>1, Zenon DEF ConsWaitInv
  <2> QED
    BY <2>1, <2>2, <2>3, Zenon
<1>3. ASSUME UNCHANGED consvars PROVE ConsInv'
  BY <1>3, Zenon DEF consvars, ConsLockInv, ConsWaitInv
<1>4. ASSUME NEW key \in Key, consoleintr(key) PROVE ConsInv'
  <2>1. CASE key = "control-U"
    BY <1>1, <1>4, <2>1, Zenon DEF consoleintr
  <2>2. CASE key = "control-H"
    BY <1>1, <1>4, <2>2, Zenon DEF consoleintr
  <2>3. CASE key = "control-P"
    BY <1>3, <1>4, <2>3, Zenon DEF consoleintr, Ignores
  <2>4. CASE key \notin {"control-U", "control-H", "control-P"}
    BY <1>2, <1>3, <1>4, <2>4, Zenon DEF consoleintr, Ignores
  <2> QED
    BY <2>1, <2>2, <2>3, <2>4, Zenon
<1>5. ASSUME NEW p \in Reader, NEW len \in 0 .. MaxRead, consoleread(p, len)
      PROVE  ConsInv'
  BY <1>5 DEF consoleread, ConsLockInv, ConsWaitInv
<1>6. ASSUME NEW p \in Reader, ReadLocks(p) PROVE ConsInv'
  BY <1>6, Zenon DEF ReadLocks, ConsLockInv, ConsWaitInv
<1>7. ASSUME NEW p \in Reader, Returns(p), rpc[p] = "read",
              UNCHANGED <<buf, w, e, dead>>,
              r' \in 0 .. CONSUINT - 1, r' # r => r # w
       PROVE  ConsInv'
  <2>1. \A q \in Reader : rpc'[q] = IF q = p THEN "user" ELSE rpc[q]
    BY <1>7, Zenon DEF Returns
  <2>2. ConsLockInv'
    BY <1>7, <2>1, Zenon DEF ConsLockInv
  <2>3. ConsWaitInv'
    BY <1>7, <2>1 DEF ConsWaitInv, Returns
  <2> QED
    BY <1>7, <2>2, <2>3 DEF Returns
<1>8. ASSUME NEW p \in Reader, ReadWaits(p) PROVE ConsInv'
  <2>1. CASE p \in dead
    <3>1. /\ Returns(p) /\ rpc[p] = "read"
          /\ UNCHANGED <<buf, r, w, e, dead>>
      BY <1>8, <2>1, Zenon DEF ReadWaits
    <3> QED
      BY <1>7, <3>1, Zenon
  <2>2. CASE p \notin dead
    <3>1. /\ r = w /\ rpc' = [rpc EXCEPT ![p] = "sleep"]
          /\ dead' \subseteq Reader /\ holder' = NoReader
          /\ UNCHANGED <<buf, r, w, e, left, target>>
          /\ rpc[p] = "read"
      BY <1>8, <2>2, Zenon DEF ReadWaits
    <3>2. \A q \in Reader \ {p} : rpc'[q] # "read"
      BY <3>1, Zenon DEF ConsLockInv
    <3> QED
      BY <3>1, <3>2, Zenon DEF ConsLockInv, ConsWaitInv
  <2> QED
    BY <2>1, <2>2, Zenon
<1>9. ASSUME NEW p \in Reader, ReadEnds(p) \/ ReadChar(p)
      PROVE  r' \in 0 .. CONSUINT - 1 /\ (r' # r => r # w)
  <2>1. Inc(r) \in 0 .. CONSUINT - 1
    BY IndexSteps, Zenon
  <2> QED
    BY <1>9, <2>1, Zenon DEF ReadEnds, ReadChar
<1>10. ASSUME NEW p \in Reader, ReadEnds(p) PROVE ConsInv'
  <2>1. /\ UNCHANGED <<buf, w, e, dead>> /\ Returns(p) /\ rpc[p] = "read"
    BY <1>10, Zenon DEF ReadEnds
  <2> QED
    BY <1>9, <1>10, <1>7, <2>1, Zenon
<1>11. ASSUME NEW p \in Reader, ReadChar(p) PROVE ConsInv'
  <2>1. /\ UNCHANGED <<buf, w, e, dead>> /\ rpc[p] = "read" /\ left[p] > 0
        /\ \/ Returns(p)
           \/ left' = [left EXCEPT ![p] = @ - 1] /\ UNCHANGED <<holder, rpc, target>>
    BY <1>11, Zenon DEF ReadChar
  <2>2. CASE Returns(p)
    BY <1>7, <1>9, <1>11, <2>1, <2>2, Zenon
  <2>3. CASE ~Returns(p)
    <3>1. left' = [left EXCEPT ![p] = left[p] - 1] /\ UNCHANGED <<holder, rpc, target>>
      BY <2>1, <2>3, Zenon
    <3>2. left[p] - 1 \in 0 .. MaxRead /\ left[p] - 1 <= target[p]
      BY <2>1 DEF ConsWaitInv
    <3>3. /\ left' \in [Reader -> 0 .. MaxRead]
          /\ \A q \in Reader : left'[q] = IF q = p THEN left[p] - 1 ELSE left[q]
      BY <3>1, <3>2, Zenon
    <3>4. ConsWaitInv'
      BY <1>9, <1>11, <2>1, <3>1, <3>2, <3>3, Zenon DEF ConsWaitInv
    <3> QED
      BY <1>9, <1>11, <2>1, <3>1, <3>3, <3>4, Zenon DEF ConsLockInv
  <2> QED
    BY <2>2, <2>3, Zenon
<1>12. ASSUME NEW p \in Reader, ConsKill(p) PROVE ConsInv'
  BY <1>12, Zenon DEF ConsKill, ConsLockInv, ConsWaitInv
<1> QED
  BY <1>3, <1>4, <1>5, <1>6, <1>8, <1>10, <1>11, <1>12, Zenon DEF ConsNext, ConsStep

\* The inductive invariant is one.
LEMMA ConsAlways == ConsSpec => []ConsInv
<1>1. ConsInit => ConsInv
  BY InitCons, Zenon
<1>2. ConsInv /\ [ConsNext]_consvars => ConsInv'
  BY NextCons, Zenon
<1> QED
  BY <1>1, <1>2, PTL DEF ConsSpec

-----------------------------------------------------------------------------
\* No reader of the console misses a wakeup, for any number of readers and any
\* buffer: whoever sleeps has nothing to read.
THEOREM ConsoleReaderWaits == ConsSpec => []ReaderWaits
<1>1. ConsInv => ReaderWaits
  BY Zenon DEF ConsInv, ConsWaitInv, ReaderWaits
<1> QED
  BY <1>1, ConsAlways, PTL

\* control-D leaves the buffer only with a read() that returns no bytes.
LEMMA StepEof ==
  ASSUME ConsInv, ConsNext, r' # r, buf[Cell(r)] = EOT
  PROVE  \E p \in Reader : holder = p /\ left[p] = target[p] /\ holder' = NoReader
<1> USE ConsoleAssumption DEF ConsInv, ConsTypeOK, cons, rlocals
<1>1. ASSUME NEW key \in Key, consoleintr(key) PROVE r' = r
  <2>1. CASE key = "control-U"
    BY <1>1, <2>1, Zenon DEF consoleintr, Kills
  <2>2. CASE key = "control-H"
    BY <1>1, <2>2, Zenon DEF consoleintr, Erases
  <2>3. CASE key = "control-P"
    BY <1>1, <2>3, Zenon DEF consoleintr, Ignores, consvars
  <2>4. CASE key \notin {"control-U", "control-H", "control-P"}
    BY <1>1, <2>4, Zenon DEF consoleintr, Stores, Ignores, consvars
  <2> QED
    BY <2>1, <2>2, <2>3, <2>4, Zenon
<1>2. PICK p \in Reader : ReadEnds(p)
  BY <1>1, Zenon DEF ConsNext, ConsStep, consoleread, ReadLocks, ReadWaits, ReadChar,
              ConsKill
<1>3. holder = p /\ holder' = NoReader
  BY <1>2, Zenon DEF ReadEnds, Returns, ConsLockInv
<1>4. left[p] = target[p]
  <2>1. left[p] <= target[p] /\ left[p] \in Nat /\ target[p] \in Nat
    BY DEF ConsWaitInv
  <2>2. ~(left[p] < target[p])
    BY <1>2, Zenon DEF ReadEnds
  <2> QED
    BY <2>1, <2>2
<1> QED
  BY <1>3, <1>4, Zenon

\* "Save ^D for next time": the end of file that ends one read() is still there
\* for the next one, whatever the reader asked for.
THEOREM ConsoleEofIsSeen == ConsSpec => EofIsSeen
<1>1. ConsInv /\ [ConsNext]_consvars =>
        [r' # r /\ buf[Cell(r)] = EOT =>
           \E p \in Reader : holder = p /\ left[p] = target[p] /\ holder' = NoReader
        ]_consvars
  BY StepEof, Zenon
<1> QED
  BY <1>1, ConsAlways, PTL DEF ConsSpec, EofIsSeen

-----------------------------------------------------------------------------
\* The lines of the console.  r, w and e are in this order around the buffer, no
\* farther apart than it is long, and no newline is left between w and e, so
\* that control-U goes back to w.
LineInv ==
  /\ IsLine(CONSUINT, INPUT_BUF_SIZE, Stored, buf, r, w, e)
  /\ \A k \in 1 .. Len(Cells(w, e)) : Cells(w, e)[k] # NL

LineChar == Char \cup {NL, EOT}

\* What a step does to the buffer.
LineStores(c) ==
  /\ Dist(r, e) < INPUT_BUF_SIZE
  /\ buf' = [buf EXCEPT ![Cell(e)] = c]
  /\ e' = Inc(e)
  /\ w' = IF Commits(c, e') THEN e' ELSE w
  /\ UNCHANGED r

LineReads == r # w /\ r' = Inc(r) /\ UNCHANGED <<buf, w, e>>

\* Apart from that it edits the line or leaves the buffer alone.
LEMMA LineSteps ==
  ASSUME [ConsNext]_consvars
  PROVE  \/ UNCHANGED cons \/ Kills \/ Erases \/ LineReads
         \/ \E c \in LineChar : LineStores(c)
<1>1. ASSUME NEW key \in Key, Stores(key), key # "control-P",
             key # "control-U", key # "control-H"
      PROVE  \E c \in LineChar : LineStores(c)
  <2> DEFINE c == IF key = CR THEN NL ELSE key
  <2>1. c \in LineChar
    BY <1>1, Zenon DEF Key, LineChar, Stores
  <2>2. LineStores(c)
    BY <1>1, Zenon DEF Stores, LineStores
  <2> QED
    BY <2>1, <2>2, Zenon
<1>2. ASSUME NEW key \in Key, consoleintr(key)
      PROVE  UNCHANGED cons \/ Kills \/ Erases \/ \E c \in LineChar : LineStores(c)
  <2>1. CASE key = "control-U"
    BY <1>2, <2>1, Zenon DEF consoleintr
  <2>2. CASE key = "control-H"
    BY <1>2, <2>2, Zenon DEF consoleintr
  <2>3. CASE key = "control-P"
    BY <1>2, <2>3, Zenon DEF consoleintr, Ignores, consvars
  <2>4. CASE key \notin {"control-U", "control-H", "control-P"}
    BY <1>1, <1>2, <2>4, Zenon DEF consoleintr, Ignores, consvars
  <2> QED
    BY <2>1, <2>2, <2>3, <2>4, Zenon
<1>3. ASSUME NEW p \in Reader, NEW len \in 0 .. MaxRead, consoleread(p, len)
      PROVE  UNCHANGED cons
  BY <1>3, Zenon DEF consoleread
<1>4. ASSUME NEW p \in Reader, ReadLocks(p) \/ ReadWaits(p) \/ ConsKill(p)
      PROVE  UNCHANGED cons
  BY <1>4, Zenon DEF ReadLocks, ReadWaits, ConsKill
<1>5. ASSUME NEW p \in Reader, ReadEnds(p) PROVE UNCHANGED cons \/ LineReads
  BY <1>5, Zenon DEF ReadEnds, LineReads, cons
<1>6. ASSUME NEW p \in Reader, ReadChar(p) PROVE LineReads
  BY <1>6, Zenon DEF ReadChar, LineReads
<1>7. CASE UNCHANGED consvars
  BY <1>7, Zenon DEF consvars
<1> QED
  BY <1>2, <1>3, <1>4, <1>5, <1>6, <1>7, Zenon DEF ConsNext, ConsStep

\* Cells is a queue of RingProof.
LEMMA CellsAre ==
  /\ \A j, k : Cells(j, k) = Queue(CONSUINT, INPUT_BUF_SIZE, buf, j, k)
  /\ \A j, k : Dist(j, k) = Behind(CONSUINT, j, k)
<1>1. \A j, k : Dist(j, k) = Behind(CONSUINT, j, k)
  BY Zenon DEF Dist, Behind
<1>2. \A j, k : Cells(j, k) = Queue(CONSUINT, INPUT_BUF_SIZE, buf, j, k)
  BY Zenon DEF Cells, Queue, Ring, Dist, Behind, Cell
<1> QED
  BY <1>1, <1>2, Zenon

\* Lengths.
LEMMA LineLengths ==
  ASSUME LineInv
  PROVE  /\ Cells(r, w) \in Seq(Stored) /\ Len(Cells(r, w)) = Dist(r, w)
         /\ Cells(w, e) \in Seq(Stored) /\ Len(Cells(w, e)) = Dist(w, e)
         /\ Dist(r, w) \in Nat /\ Dist(w, e) \in Nat /\ Dist(r, e) = Dist(r, w) + Dist(w, e)
<1>1. /\ QueueSize(CONSUINT, INPUT_BUF_SIZE, Stored, r, w,
                   Queue(CONSUINT, INPUT_BUF_SIZE, buf, r, w))
      /\ QueueSize(CONSUINT, INPUT_BUF_SIZE, Stored, w, e,
                   Queue(CONSUINT, INPUT_BUF_SIZE, buf, w, e))
  BY LineQueues, QueueIs, Zenon DEF LineInv
<1>2. LineSize(CONSUINT, INPUT_BUF_SIZE, Behind(CONSUINT, r, w), Behind(CONSUINT, w, e),
               Behind(CONSUINT, r, e))
  BY LineIs, Zenon DEF LineInv
<1>3. /\ Cells(r, w) = Queue(CONSUINT, INPUT_BUF_SIZE, buf, r, w)
      /\ Cells(w, e) = Queue(CONSUINT, INPUT_BUF_SIZE, buf, w, e)
      /\ Dist(r, w) = Behind(CONSUINT, r, w)
      /\ Dist(w, e) = Behind(CONSUINT, w, e)
      /\ Dist(r, e) = Behind(CONSUINT, r, e)
  BY CellsAre, Zenon
<1>4. LineSize(CONSUINT, INPUT_BUF_SIZE, Dist(r, w), Dist(w, e), Dist(r, e))
  BY <1>2, <1>3, Zenon
<1>5. Dist(r, w) \in Nat /\ Dist(w, e) \in Nat /\ Dist(r, e) = Dist(r, w) + Dist(w, e)
  <2> HIDE DEF Dist
  <2> QED
    BY <1>4 DEF LineSize
<1> QED
  BY <1>1, <1>3, <1>5, Zenon DEF QueueSize

\* A key that is stored is typed: it becomes the last of the line, or completes it.
LEMMA StoreTypes ==
  ASSUME LineInv, NEW c \in LineChar, LineStores(c)
  PROVE  LineInv' /\ LinePromise!Type(c)
<1> DEFINE U == CONSUINT
           S == INPUT_BUF_SIZE
           f == [buf EXCEPT ![e % S] = c]
           g == (e + 1) % U
<1>0. c \in Stored
  BY Zenon DEF LineChar, Stored
<1>1. LineTypes(U, S, Stored, buf, r, w, e, c)
  <2>1. Behind(U, r, e) < S
    BY Zenon DEF LineStores, Dist, Behind
  <2> QED
    BY <1>0, <2>1, LineType, Zenon DEF LineInv
<1>2. /\ IsLine(U, S, Stored, f, r, w, g)
      /\ Queue(U, S, f, r, w) = Cells(r, w)
      /\ Queue(U, S, f, w, g) = Append(Cells(w, e), c)
      /\ Behind(U, r, g) = Dist(r, w) + (Dist(w, e) + 1)
  <2>1. /\ Cells(r, w) = Queue(U, S, buf, r, w)
        /\ Cells(w, e) = Queue(U, S, buf, w, e)
        /\ Dist(r, w) = Behind(U, r, w)
        /\ Dist(w, e) = Behind(U, w, e)
    BY CellsAre, Zenon
  <2> QED
    BY <1>1, <2>1, Zenon DEF LineTypes
<1>3. buf' = f /\ e' = g /\ r' = r
  BY Zenon DEF LineStores, Cell, Inc
<1>4. /\ Cells(r, w)' = Queue(U, S, f, r, w')
      /\ Cells(w, e)' = Queue(U, S, f, w', g)
      /\ Dist(r, e') = Behind(U, r, g)
  <2>1. /\ Cells(r, w)' = Queue(U, S, buf', r', w')
        /\ Cells(w, e)' = Queue(U, S, buf', w', e')
    BY Zenon DEF Cells, Queue, Ring, Dist, Behind, Cell
  <2>2. Dist(r, e') = Behind(U, r, e')
    BY CellsAre, Zenon
  <2> HIDE DEF f, g
  <2> QED
    BY <1>3, <2>1, <2>2, Zenon
<1>5. /\ Len(Cells(r, w)) + Len(Append(Cells(w, e), c)) = Dist(r, w) + (Dist(w, e) + 1)
      /\ Len(Cells(r, w)) + Len(Cells(w, e)) < S
      /\ Cells(w, e) \in Seq(Stored) /\ Append(Cells(w, e), c) \in Seq(Stored)
      /\ Len(Append(Cells(w, e), c)) = Len(Cells(w, e)) + 1 /\ Len(Cells(w, e)) \in Nat
  <2>1. /\ Cells(w, e) \in Seq(Stored) /\ Len(Cells(w, e)) = Dist(w, e)
        /\ Len(Cells(r, w)) = Dist(r, w) /\ Dist(w, e) \in Nat
        /\ Dist(r, e) = Dist(r, w) + Dist(w, e)
    BY LineLengths, Zenon
  <2>2. Dist(r, e) < S
    BY Zenon DEF LineStores
  <2>3. /\ Append(Cells(w, e), c) \in Seq(Stored)
        /\ Len(Append(Cells(w, e), c)) = Len(Cells(w, e)) + 1
    BY <1>0, <2>1, AppendProperties
  <2> QED
    BY <2>1, <2>2, <2>3, Zenon
<1> DEFINE full == Len(Cells(r, w)) + Len(Append(Cells(w, e), c)) = S
<1>6. Commits(c, e') <=> c \in {NL, EOT} \/ full
  BY <1>2, <1>4, <1>5, Zenon DEF Commits
<1> HIDE DEF f, g
<1>7. CASE c \in {NL, EOT} \/ full
  <2>1. w' = g
    BY <1>3, <1>6, <1>7, Zenon DEF LineStores
  <2>2. /\ IsLine(U, S, Stored, f, r, g, g) /\ Nothing(Queue(U, S, f, g, g))
        /\ Joins(Queue(U, S, f, r, g), Queue(U, S, f, r, w), Queue(U, S, f, w, g))
    BY <1>2, LineCommit, Zenon
  <2>3. Cells(w, e)' = <<>>
    BY <1>4, <2>1, <2>2, Zenon DEF Nothing
  <2>4. Cells(r, w)' = Cells(r, w) \o Append(Cells(w, e), c)
    BY <1>2, <1>4, <2>1, <2>2, Zenon DEF Joins
  <2>5. LineInv'
    <3>1. \A k \in 1 .. Len(<<>>) : FALSE
      OBVIOUS
    <3>2. IsLine(U, S, Stored, buf', r', w', e')
      BY <1>3, <2>1, <2>2, Zenon
    <3> QED
      BY <2>3, <3>1, <3>2, Zenon DEF LineInv
  <2> QED
    BY <1>5, <1>7, <2>3, <2>4, <2>5, Zenon DEF LinePromise!Type
<1>8. CASE ~(c \in {NL, EOT} \/ full)
  <2>1. w' = w
    BY <1>6, <1>8, Zenon DEF LineStores
  <2>2. Cells(r, w)' = Cells(r, w) /\ Cells(w, e)' = Append(Cells(w, e), c)
    BY <1>2, <1>4, <2>1, Zenon
  <2>3. LineInv'
    <3>1. ASSUME NEW k \in 1 .. Len(Append(Cells(w, e), c))
          PROVE  Append(Cells(w, e), c)[k] # NL
      <4>1. k = Len(Cells(w, e)) + 1 \/ k \in 1 .. Len(Cells(w, e))
        BY <1>5
      <4>2. /\ Append(Cells(w, e), c)[Len(Cells(w, e)) + 1] = c
            /\ \A j \in 1 .. Len(Cells(w, e)) : Append(Cells(w, e), c)[j] = Cells(w, e)[j]
        BY <1>0, <1>5, AppendProperties
      <4> QED
        BY <1>8, <4>1, <4>2, Zenon DEF LineInv
    <3>2. IsLine(U, S, Stored, buf', r', w', e')
      BY <1>2, <1>3, <2>1, Zenon
    <3> QED
      BY <2>2, <3>1, <3>2, Zenon DEF LineInv
  <2> QED
    BY <1>5, <1>8, <2>2, <2>3, Zenon DEF LinePromise!Type
<1> QED
  BY <1>7, <1>8, Zenon

\* control-H takes the last character of the line back, if it has one.
LEMMA ErasesLast ==
  ASSUME LineInv, Erases
  PROVE  LineInv' /\ (LinePromise!Erase \/ UNCHANGED cons)
<1> DEFINE U == CONSUINT
           S == INPUT_BUF_SIZE
           g == (e + U - 1) % U
<1>1. CASE e = w
  <2>1. UNCHANGED cons
    BY <1>1, Zenon DEF Erases, cons
  <2> QED
    BY <2>1, Zenon DEF cons, LineInv, Cells, Dist
<1>2. CASE e # w
  <2>1. e' = g /\ UNCHANGED <<buf, r, w>>
    BY <1>2, Zenon DEF Erases, Dec
  <2>2. IsLine(U, S, Stored, buf, r, w, g) /\ Shortens(Queue(U, S, buf, w, g), Queue(U, S, buf, w, e))
    BY <1>2, LineErase, Zenon DEF LineInv
  <2> HIDE DEF g
  <2>3. Cells(r, w)' = Cells(r, w) /\ Cells(w, e)' = Queue(U, S, buf, w, g)
    BY <2>1, Zenon DEF Cells, Queue, Ring, Dist, Behind, Cell
  <2>4. Cells(w, e) = Queue(U, S, buf, w, e)
    BY CellsAre, Zenon
  <2>5. /\ Cells(w, e) # <<>>
        /\ Cells(w, e)' = SubSeq(Cells(w, e), 1, Len(Cells(w, e)) - 1)
    BY <2>2, <2>3, <2>4, Zenon DEF Shortens
  <2>6. ASSUME NEW k \in 1 .. Len(Cells(w, e)') PROVE Cells(w, e)'[k] # NL
    <3> DEFINE s == Cells(w, e)
    <3>1. s \in Seq(Stored) /\ s # <<>>
      BY <2>5, LineLengths, Zenon
    <3>2. Cells(w, e)' = SubSeq(s, 1, Len(s) - 1)
      BY <2>5, Zenon
    <3>3. \A j \in 1 .. Len(s) : s[j] # NL
      BY Zenon DEF LineInv
    <3> HIDE DEF s
    <3>4. /\ Len(SubSeq(s, 1, Len(s) - 1)) = Len(s) - 1
          /\ \A j \in 1 .. Len(s) - 1 : SubSeq(s, 1, Len(s) - 1)[j] = s[j]
      BY <3>1, ButLast, Zenon DEF ButLasts
    <3>5. k \in 1 .. Len(s) - 1 /\ k \in 1 .. Len(s)
      BY <3>1, <3>2, <3>4
    <3> QED
      BY <3>2, <3>3, <3>4, <3>5, Zenon
  <2>7. LineInv'
    BY <2>1, <2>2, <2>6, Zenon DEF LineInv
  <2> QED
    BY <2>3, <2>5, <2>7, Zenon DEF LinePromise!Erase
<1> QED
  BY <1>1, <1>2, Zenon

\* control-U throws the line away: no newline stops it before w.
LEMMA KillsLine ==
  ASSUME LineInv, Kills
  PROVE  LineInv' /\ LinePromise!KillLine
<1> DEFINE U == CONSUINT
           S == INPUT_BUF_SIZE
           n == Dist(w, e)
           back == {k \in 0 .. n : \A j \in 0 .. k - 1 : buf[Cell(e + CONSUINT - j - 1)] # NL}
           most == CHOOSE k \in back : \A j \in back : j <= k
<1>0. n = Behind(U, w, e) /\ Cells(w, e) = Queue(U, S, buf, w, e) /\ n \in Nat
  BY CellsAre, LineLengths, Zenon
<1>1. e' = (e + CONSUINT - most) % CONSUINT /\ UNCHANGED <<buf, r, w>>
  BY Zenon DEF Kills
<1>2. ASSUME NEW j \in 0 .. n - 1 PROVE buf[Cell(e + CONSUINT - j - 1)] # NL
  <2>1. j \in 0 .. Behind(U, w, e) - 1
    BY <1>0, Zenon
  <2>2. At(Queue(U, S, buf, w, e), Behind(U, w, e) - j, buf[(e + U - j - 1) % S])
    BY <2>1, LineBack, Zenon DEF LineInv
  <2> QED
    BY <1>0, <2>2, Zenon DEF LineInv, Cell, At
<1>3. n \in back /\ \A j \in back : j <= n /\ j \in Nat
  <2>1. n \in 0 .. n /\ \A j \in 0 .. n : j <= n /\ j \in Nat
    BY <1>0
  <2> QED
    BY <1>2, <2>1, Zenon
<1> HIDE DEF back, n
<1>4. most \in back /\ \A j \in back : j <= most
  BY <1>3, Zenon
<1> HIDE DEF most
<1>5. most = n
  <2>1. most <= n /\ n <= most /\ most \in Nat
    BY <1>3, <1>4, Zenon
  <2> QED
    BY <1>0, <2>1
<1>6. /\ (e + U - Behind(U, w, e)) % U = w
      /\ IsLine(U, S, Stored, buf, r, w, w) /\ Nothing(Queue(U, S, buf, w, w))
  BY LineKill, Zenon DEF LineInv
<1>7. e' = w
  BY <1>0, <1>1, <1>5, <1>6, Zenon
<1>8. Cells(w, e)' = Queue(U, S, buf, w, w) /\ Cells(r, w)' = Cells(r, w)
  BY <1>1, <1>7, Zenon DEF Cells, Queue, Ring, Dist, Behind, Cell
<1>9. Cells(w, e)' = <<>>
  BY <1>6, <1>8, Zenon DEF Nothing
<1>10. LineInv'
  <2>1. \A k \in 1 .. Len(<<>>) : FALSE
    OBVIOUS
  <2> QED
    BY <1>1, <1>6, <1>7, <1>9, <2>1, Zenon DEF LineInv
<1> QED
  BY <1>8, <1>9, <1>10, Zenon DEF LinePromise!KillLine

\* A character that is read was the first of the complete lines.
LEMMA ReadsFirst ==
  ASSUME LineInv, LineReads
  PROVE  LineInv' /\ LinePromise!Read
<1> DEFINE U == CONSUINT
           S == INPUT_BUF_SIZE
           g == (r + 1) % U
<1>1. r # w /\ r' = g /\ UNCHANGED <<buf, w, e>>
  BY Zenon DEF LineReads, Inc
<1>2. IsLine(U, S, Stored, buf, g, w, e) /\ QueueGets(U, S, Stored, buf, r, w)
  BY <1>1, LineRead, Zenon DEF LineInv
<1>3. /\ Queue(U, S, buf, r, w) # <<>>
      /\ Queue(U, S, buf, g, w) = Tail(Queue(U, S, buf, r, w))
  BY <1>2, Zenon DEF QueueGets
<1> HIDE DEF g
<1>4. /\ Cells(r, w) = Queue(U, S, buf, r, w) /\ Cells(r, w)' = Queue(U, S, buf, g, w)
      /\ Cells(w, e)' = Cells(w, e)
  <2>1. Cells(r, w)' = Queue(U, S, buf', r', w') /\ Cells(w, e)' = Cells(w, e)
    BY <1>1, Zenon DEF Cells, Queue, Ring, Dist, Behind, Cell
  <2> QED
    BY <1>1, <2>1, CellsAre, Zenon
<1>5. LineInv'
  BY <1>1, <1>2, <1>4, Zenon DEF LineInv
<1> QED
  BY <1>3, <1>4, <1>5, Zenon DEF LinePromise!Read

\* The console's ring buffer with its three wrapping indices implements a queue
\* of complete lines and one that is still edited, for any size of the buffer,
\* whatever is typed and whoever reads.
THEOREM ConsoleIsLineQueue == ConsSpec => IsLineQueue
<1>1. ConsInit => LinePromise!Init /\ LineInv
  <2> SUFFICES ASSUME ConsInit PROVE LinePromise!Init /\ LineInv
    BY Zenon
  <2>1. Wraps(CONSUINT, INPUT_BUF_SIZE) /\ 0 \in 0 .. CONSUINT - 1 /\ 0 + 0 <= INPUT_BUF_SIZE
    BY ConsoleAssumption DEF Wraps
  <2>2. BufferOf(INPUT_BUF_SIZE, Stored, buf) /\ r = 0 /\ w = 0 /\ e = 0
    BY InitCons, ConsoleAssumption, Zenon DEF ConsInv, ConsTypeOK, BufferOf, ConsInit
  <2>3. /\ IsQueue(CONSUINT, INPUT_BUF_SIZE, Stored, buf, 0, 0)
        /\ Queue(CONSUINT, INPUT_BUF_SIZE, buf, 0, 0) = <<>>
    BY <2>1, <2>2, QueueEmpty, Zenon
  <2>4. Cells(r, w) = <<>> /\ Cells(w, e) = <<>>
    BY <2>2, <2>3, CellsAre, Zenon
  <2>5. IsLine(CONSUINT, INPUT_BUF_SIZE, Stored, buf, 0, 0, 0)
    <3>1. Behind(CONSUINT, 0, 0) = 0
      <4>1. Apart(CONSUINT, INPUT_BUF_SIZE, 0, 0, Behind(CONSUINT, 0, 0))
        BY <2>1, Distance, Zenon
      <4> QED
        BY <4>1, Zenon DEF Apart
    <3> QED
      BY <2>1, <2>2, <3>1, Zenon DEF IsLine
  <2>6. \A k \in 1 .. Len(<<>>) : FALSE
    OBVIOUS
  <2> QED
    BY <2>2, <2>4, <2>5, <2>6, Zenon DEF LinePromise!Init, LineInv
<1>2. LineInv /\ [ConsNext]_consvars => LineInv' /\ [LinePromise!Next]_LinePromise!lvars
  <2> SUFFICES ASSUME LineInv, [ConsNext]_consvars
               PROVE  LineInv' /\ (LinePromise!Next \/ UNCHANGED <<Cells(r, w), Cells(w, e)>>)
    BY Zenon DEF LinePromise!lvars
  <2>1. ASSUME UNCHANGED cons PROVE LineInv' /\ UNCHANGED <<Cells(r, w), Cells(w, e)>>
    BY <2>1, Zenon DEF cons, LineInv, Cells, Dist
  <2>2. CASE Kills
    BY <2>2, KillsLine, Zenon DEF LinePromise!Next
  <2>3. CASE Erases
    BY <2>1, <2>3, ErasesLast, Zenon DEF LinePromise!Next
  <2>4. CASE LineReads
    BY <2>4, ReadsFirst, Zenon DEF LinePromise!Next
  <2>5. ASSUME NEW c \in LineChar, LineStores(c) PROVE LineInv' /\ LinePromise!Next
    BY <2>5, StoreTypes, Zenon DEF LinePromise!Next, LineChar
  <2> QED
    BY <2>1, <2>2, <2>3, <2>4, <2>5, LineSteps, Zenon
<1> QED
  BY <1>1, <1>2, PTL DEF ConsSpec, IsLineQueue, LinePromise!Spec
=============================================================================
