-------------------------------- MODULE Uart --------------------------------
(***************************************************************************)
(* The output side of kernel/uart.c: processes in uartputc(), the          *)
(* interrupt handler, which echoes what was typed and then sends what is   *)
(* buffered, a kernel printf() on another hart, and the 16550, whose       *)
(* transmit FIFO reads idle when it is empty.  uartputc_sync() does not    *)
(* take uart_tx_lock, so whoever found the UART idle may not be alone.     *)
(***************************************************************************)
EXTENDS Integers, FiniteSets

CONSTANTS Printer,            \* processes in consolewrite()
          UART_TX_BUF_SIZE,
          TXUINT,             \* values of uart_tx_w and uart_tx_r
          FIFO,               \* bytes the transmit FIFO holds
          MaxTyped, MaxPrints \* bounds: bytes echoed, bytes printed

ASSUME UartAssumption ==
  /\ Printer # {}
  /\ UART_TX_BUF_SIZE \in Nat \ {0} /\ FIFO \in Nat
  /\ TXUINT \in Nat /\ TXUINT % UART_TX_BUF_SIZE = 0 /\ TXUINT > UART_TX_BUF_SIZE
  /\ MaxTyped \in Nat /\ MaxPrints \in Nat

VARIABLES uart_tx_buf, uart_tx_w, uart_tx_r,
          thr,                \* bytes in the transmit FIFO
          rhr,                \* bytes that wait to be read
          uirq,               \* the UART's interrupt is pending
          wpc, hpc, kpc,      \* of the processes, the handler and printf()
          typed, prints

tx == <<uart_tx_buf, uart_tx_w, uart_tx_r>>
uartvars == <<tx, thr, rhr, uirq, wpc, hpc, kpc, typed, prints>>

UartInit ==
  /\ uart_tx_buf \in [0 .. UART_TX_BUF_SIZE - 1 -> {CHOOSE q \in Printer : TRUE}]
  /\ uart_tx_w = 0 /\ uart_tx_r = 0
  /\ thr = 0 /\ rhr = 0 /\ uirq = FALSE
  /\ wpc = [q \in Printer |-> "user"]
  /\ hpc = "idle" /\ kpc = "idle"
  /\ typed = 0 /\ prints = 0

Idle == thr = 0                       \* LSR_TX_IDLE
TxEmpty == uart_tx_w = uart_tx_r
TxFull == uart_tx_w = (uart_tx_r + UART_TX_BUF_SIZE) % TXUINT
TxLocked == hpc \in {"start", "thr"} \/ \E q \in Printer : wpc[q] \in {"start", "thr"}

-----------------------------------------------------------------------------
(* uartputc(), once for each byte of a consolewrite() *)

Putc(q) ==
  /\ wpc[q] = "user"
  /\ wpc' = [wpc EXCEPT ![q] = "putc"]
  /\ UNCHANGED <<tx, thr, rhr, uirq, hpc, kpc, typed, prints>>

PutcSleeps(q) ==
  /\ wpc[q] = "putc" /\ ~TxLocked /\ TxFull
  /\ wpc' = [wpc EXCEPT ![q] = "sleep"]
  /\ UNCHANGED <<tx, thr, rhr, uirq, hpc, kpc, typed, prints>>

\* Mutant of PutcStores: one byte too many fits.
PutcStoresMore(q) ==
  /\ wpc[q] = "putc" /\ ~TxLocked
  /\ uart_tx_w # (uart_tx_r + UART_TX_BUF_SIZE + 1) % TXUINT
  /\ uart_tx_buf' = [uart_tx_buf EXCEPT ![uart_tx_w % UART_TX_BUF_SIZE] = q]
  /\ uart_tx_w' = (uart_tx_w + 1) % TXUINT
  /\ wpc' = [wpc EXCEPT ![q] = "start"]
  /\ UNCHANGED <<uart_tx_r, thr, rhr, uirq, hpc, kpc, typed, prints>>

PutcStores(q) ==
  /\ wpc[q] = "putc" /\ ~TxLocked /\ ~TxFull
  /\ uart_tx_buf' = [uart_tx_buf EXCEPT ![uart_tx_w % UART_TX_BUF_SIZE] = q]
  /\ uart_tx_w' = (uart_tx_w + 1) % TXUINT
  /\ wpc' = [wpc EXCEPT ![q] = "start"]
  /\ UNCHANGED <<uart_tx_r, thr, rhr, uirq, hpc, kpc, typed, prints>>

-----------------------------------------------------------------------------
(* uartstart(), with uart_tx_lock held *)

\* Mutant of Takes: the UART is not asked again before the next byte.
TakesBlindly ==
  /\ ~TxEmpty
  /\ uart_tx_r' = (uart_tx_r + 1) % TXUINT
  /\ UNCHANGED <<uart_tx_buf, uart_tx_w, thr, rhr, uirq, kpc, typed, prints>>

\* The next byte is taken and those who wait for room are woken ...
Takes ==
  /\ ~TxEmpty /\ Idle
  /\ uart_tx_r' = (uart_tx_r + 1) % TXUINT
  /\ UNCHANGED <<uart_tx_buf, uart_tx_w, thr, rhr, uirq, kpc, typed, prints>>

\* ... and then goes to the UART.
Sends ==
  /\ thr' = thr + 1
  /\ UNCHANGED <<tx, rhr, uirq, kpc, typed, prints>>

\* wakeup(&uart_tx_r)
Woken == [q \in Printer |-> IF wpc[q] = "sleep" THEN "putc" ELSE wpc[q]]

\* uartputc() goes through uartstart() ...
PutcStarts(q) ==
  \/ /\ wpc[q] = "start" /\ Takes
     /\ wpc' = [Woken EXCEPT ![q] = "thr"]
     /\ UNCHANGED hpc
  \/ /\ wpc[q] = "thr" /\ Sends
     /\ wpc' = [wpc EXCEPT ![q] = "start"]
     /\ UNCHANGED hpc
  \/ /\ wpc[q] = "start" /\ (TxEmpty \/ ~Idle)
     /\ wpc' = [wpc EXCEPT ![q] = "user"]
     /\ UNCHANGED <<tx, thr, rhr, uirq, hpc, kpc, typed, prints>>

\* ... and so does uartintr().
IntrStarts ==
  \/ /\ hpc = "start" /\ Takes
     /\ wpc' = Woken
     /\ hpc' = "thr"
  \/ /\ hpc = "thr" /\ Sends
     /\ hpc' = "start"
     /\ UNCHANGED wpc
  \/ /\ hpc = "start" /\ (TxEmpty \/ ~Idle)
     /\ hpc' = "idle"
     /\ UNCHANGED <<tx, thr, rhr, uirq, wpc, kpc, typed, prints>>

-----------------------------------------------------------------------------
(* uartintr(), uartputc_sync() and the UART *)

UartIntr ==
  /\ uirq /\ hpc = "idle"
  /\ uirq' = FALSE
  /\ hpc' = "rx"
  /\ UNCHANGED <<tx, thr, rhr, wpc, kpc, typed, prints>>

\* uartgetc() and consoleintr(), which echoes the byte.
IntrReads ==
  /\ hpc = "rx" /\ rhr > 0
  /\ rhr' = rhr - 1
  /\ hpc' = "echo"
  /\ UNCHANGED <<tx, thr, uirq, wpc, kpc, typed, prints>>

\* Mutant of IntrLocks: the handler only reads.
IntrLocksNot ==
  /\ hpc = "rx" /\ rhr = 0
  /\ hpc' = "idle"
  /\ UNCHANGED <<tx, thr, rhr, uirq, wpc, kpc, typed, prints>>

IntrLocks ==
  /\ hpc = "rx" /\ rhr = 0 /\ ~TxLocked
  /\ hpc' = "start"
  /\ UNCHANGED <<tx, thr, rhr, uirq, wpc, kpc, typed, prints>>

\* uartputc_sync() in the handler.
IntrEchoes ==
  \/ /\ hpc = "echo" /\ Idle
     /\ hpc' = "sync"
     /\ UNCHANGED <<tx, thr, rhr, uirq, wpc, kpc, typed, prints>>
  \/ /\ hpc = "sync" /\ Sends
     /\ hpc' = "rx"
     /\ UNCHANGED wpc

\* printf(): uartputc_sync() by whoever has pr.lock.
Printf ==
  \/ /\ kpc = "idle" /\ prints < MaxPrints
     /\ kpc' = "print" /\ prints' = prints + 1
     /\ UNCHANGED <<tx, thr, rhr, uirq, wpc, hpc, typed>>
  \/ /\ kpc = "print" /\ Idle
     /\ kpc' = "sync"
     /\ UNCHANGED <<tx, thr, rhr, uirq, wpc, hpc, typed, prints>>
  \/ /\ kpc = "sync"
     /\ thr' = thr + 1
     /\ kpc' = "idle"
     /\ UNCHANGED <<tx, rhr, uirq, wpc, hpc, typed, prints>>

\* The UART sends a byte, and interrupts when none is left.
Transmit ==
  /\ thr > 0
  /\ thr' = thr - 1
  /\ uirq' = (uirq \/ thr = 1)
  /\ UNCHANGED <<tx, rhr, wpc, hpc, kpc, typed, prints>>

Receive ==
  /\ typed < MaxTyped
  /\ typed' = typed + 1
  /\ rhr' = rhr + 1
  /\ uirq' = TRUE
  /\ UNCHANGED <<tx, thr, wpc, hpc, kpc, prints>>

UartStep(q) == PutcSleeps(q) \/ PutcStores(q) \/ PutcStarts(q)
Handler == UartIntr \/ IntrReads \/ IntrLocks \/ IntrEchoes \/ IntrStarts

UartNext ==
  \/ \E q \in Printer : Putc(q) \/ UartStep(q)
  \/ Handler \/ Printf \/ Transmit \/ Receive

\* The UART sends what it has, interrupts are served, and code in the kernel
\* goes on; uart_tx_lock is got by whoever finds it free for long enough.
UartFairness ==
  /\ \A q \in Printer : WF_uartvars(UartStep(q))
  /\ WF_uartvars(Handler)
  /\ WF_uartvars(Transmit)

UartSpec == UartInit /\ [][UartNext]_uartvars /\ UartFairness

-----------------------------------------------------------------------------
(* Properties *)

UartTypeOK ==
  /\ uart_tx_buf \in [0 .. UART_TX_BUF_SIZE - 1 -> Printer]
  /\ uart_tx_w \in 0 .. TXUINT - 1 /\ uart_tx_r \in 0 .. TXUINT - 1
  /\ thr \in Nat /\ rhr \in 0 .. MaxTyped /\ uirq \in BOOLEAN
  /\ wpc \in [Printer -> {"user", "putc", "sleep", "start", "thr"}]
  /\ hpc \in {"idle", "rx", "echo", "sync", "start", "thr"}
  /\ kpc \in {"idle", "print", "sync"}

\* Bytes are not lost in the UART: those who find it idle at the same time, one
\* with uart_tx_lock, one echoing and one in printf(), fit into its FIFO
\* together.  Whoever sleeps in uartputc() faces a full buffer.
FifoFits ==
  /\ UartTypeOK
  /\ thr <= FIFO
  /\ \A q \in Printer : wpc[q] = "sleep" => TxFull

TxQueue ==
  [k \in 1 .. (uart_tx_w + TXUINT - uart_tx_r) % TXUINT |->
     uart_tx_buf[(uart_tx_r + k - 1) % UART_TX_BUF_SIZE]]

TxPromise == INSTANCE Fifo WITH
  Byte <- Printer, Capacity <- UART_TX_BUF_SIZE, queue <- TxQueue,
  ropen <- TRUE, wopen <- TRUE

\* What processes write is sent in order, nothing twice and nothing left out.
TxIsFifo == TxPromise!Spec

\* Buffered bytes are sent: no interrupt is lost between uartstart()'s look at
\* the UART and its return, whoever else has used the UART meanwhile.
TxDrains ==
  \A k \in 0 .. TXUINT - 1 :
    uart_tx_r = k /\ uart_tx_w # k ~> uart_tx_r # k
=============================================================================
