-------------------------------- MODULE Uart --------------------------------
(***************************************************************************)
(* Output on the console: kernel/uart.c, with consolewrite() and           *)
(* consputc() of kernel/console.c and the UART itself.                     *)
(*                                                                         *)
(* Writers put characters into the transmit ring under uart_tx_lock;       *)
(* uartstart(), called by them and by the interrupt handler, moves them to *)
(* the UART while it is idle.  printf() on another CPU and the echo of     *)
(* typed characters write to the UART without that lock                    *)
(* (uartputc_sync()), between anybody's look at LSR and the write to THR.  *)
(* The n-th character of a tracked writer p is <<p, n % SEQMOD>>; those of *)
(* the other writers are not told apart.                                   *)
(*                                                                         *)
(* A definition X_Y is a faulty variant of X; no specification uses it.    *)
(***************************************************************************)
EXTENDS Integers, Sequences, FiniteSets, SequencesExt

CONSTANTS Writers,           \* processes in consolewrite()
          Tracked,           \* bound: the writers whose characters are numbered
          UART_TX_BUF_SIZE,  \* slots of the transmit ring
          TXMOD,             \* ring indices modulo TXMOD (2^64)
          FIFO,              \* characters the UART can hold (16)
          SEQMOD,            \* bound: characters are numbered modulo SEQMOD
          MAXOTHER,          \* bound: characters printed by printf() or typed
          None               \* no value

(* The least the constants must satisfy.                                   *)
UartConstants ==
  /\ Tracked \subseteq Writers /\ None \notin Writers
  /\ UART_TX_BUF_SIZE \in Nat \ {0} /\ FIFO \in Nat \ {0} /\ MAXOTHER \in Nat
  /\ TXMOD % UART_TX_BUF_SIZE = 0 /\ TXMOD > UART_TX_BUF_SIZE
  /\ SEQMOD > UART_TX_BUF_SIZE + 2

VARIABLES
  uart_tx_lock,  \* None, a writer or "intr"
  uart_tx_buf, txr, txw,  \* the ring, uart_tx_r and uart_tx_w
  fifo,          \* the characters in the UART
  irq,           \* is the UART's interrupt pending?
  rx,            \* has a character been typed that nobody has read?
  at,            \* where the writers, "intr" and "print" are
  hand,          \* the character uartstart() has taken from the ring
  waiting,       \* the writers asleep on &uart_tx_r
  echo,          \* characters consoleintr() has still to echo
  others,        \* characters printed by printf() or typed so far
  next,          \* [Tracked -> number of the next character to put]
  sent           \* [Tracked -> number of the next character to leave the UART]

ring == <<uart_tx_buf, txr, txw>>
vars == <<uart_tx_lock, ring, fifo, irq, rx, at, hand, waiting, echo, others, next, sent>>

Threads == Writers \cup {"intr"}
Sync == <<None, 0>>         \* any character of uartputc_sync()
TX_IDLE == fifo = <<>>      \* LSR_TX_IDLE
Char(p) == <<p, IF p \in Tracked THEN next[p] ELSE 0>>

Full == txw = (txr + UART_TX_BUF_SIZE) % TXMOD
Goto(a, lab) == at' = [at EXCEPT ![a] = lab]

Init ==
  /\ uart_tx_lock = None /\ txr = 0 /\ txw = 0 /\ fifo = <<>> /\ irq = FALSE /\ rx = FALSE
  /\ uart_tx_buf = [i \in 0..UART_TX_BUF_SIZE - 1 |-> None]
  /\ at = [a \in Threads \cup {"print"} |-> "idle"]
  /\ hand = None /\ waiting = {} /\ echo = 0 /\ others = 0
  /\ next = [p \in Tracked |-> 0] /\ sent = [p \in Tracked |-> 0]

-----------------------------------------------------------------------------
(* consolewrite() has a character for uartputc().                          *)
Consolewrite(p) ==
  /\ at[p] = "idle"
  /\ Goto(p, "putc")
  /\ UNCHANGED <<uart_tx_lock, ring, fifo, irq, rx, hand, waiting, echo, others, next, sent>>

(* The writers still asleep after wakeup(&uart_tx_r).                      *)
Wakeup == {}

(* uartputc(): with the lock, the writer sleeps while the ring is full, or *)
(* puts its character and calls uartstart().                               *)
Uartputc(p) ==
  /\ at[p] = "putc" /\ uart_tx_lock = None /\ p \notin waiting
  /\ IF Full
     THEN waiting' = waiting \cup {p} /\ UNCHANGED <<uart_tx_lock, uart_tx_buf, txw, next, at>>
     ELSE /\ uart_tx_buf' = [uart_tx_buf EXCEPT ![txw % UART_TX_BUF_SIZE] = Char(p)]
          /\ txw' = (txw + 1) % TXMOD
          /\ next' = [q \in Tracked |-> (next[q] + (IF q = p THEN 1 ELSE 0)) % SEQMOD]
          /\ uart_tx_lock' = p
          /\ Goto(p, "start")
          /\ UNCHANGED waiting
  /\ UNCHANGED <<txr, fifo, irq, rx, hand, echo, others, sent>>

(* uartstart(): when the ring is not empty and the UART is idle, it takes  *)
(* a character and wakes the writers; else it returns, and its caller      *)
(* releases the lock.                                                      *)
Uartstart(a) ==
  /\ at[a] = "start"
  /\ IF txw = txr \/ ~TX_IDLE
     THEN /\ uart_tx_lock' = None
          /\ Goto(a, "idle")
          /\ UNCHANGED <<uart_tx_buf, txr, hand, waiting>>
     ELSE /\ hand' = uart_tx_buf[txr % UART_TX_BUF_SIZE]
          /\ uart_tx_buf' = [uart_tx_buf EXCEPT ![txr % UART_TX_BUF_SIZE] = None]
          /\ txr' = (txr + 1) % TXMOD
          /\ waiting' = Wakeup
          /\ Goto(a, "thr")
          /\ UNCHANGED uart_tx_lock
  /\ UNCHANGED <<txw, fifo, irq, rx, echo, others, next, sent>>

(* ... and writes it to the UART.                                          *)
WriteTHR(a) ==
  /\ at[a] = "thr"
  /\ fifo' = Append(fifo, hand)
  /\ hand' = None
  /\ Goto(a, "start")
  /\ UNCHANGED <<uart_tx_lock, ring, irq, rx, waiting, echo, others, next, sent>>

-----------------------------------------------------------------------------

(* uartputc_sync() by printf(), and by consputc() for the echo: it spins   *)
(* until the UART is idle, then writes.                                    *)
PutcSyncTest(a) ==
  /\ \/ a = "print" /\ at[a] = "idle" /\ others < MAXOTHER
     \/ a = "intr" /\ at[a] = "echo" /\ echo > 0
  /\ TX_IDLE
  /\ Goto(a, "sync")
  /\ others' = others + (IF a = "print" THEN 1 ELSE 0)
  /\ UNCHANGED <<uart_tx_lock, ring, fifo, irq, rx, hand, waiting, echo, next, sent>>

PutcSyncWrite_Again(a) ==
  /\ at[a] = "sync"
  /\ fifo' = Append(fifo, Sync)
  /\ Goto(a, IF a = "print" THEN "idle" ELSE "echo")
  /\ UNCHANGED <<uart_tx_lock, ring, irq, rx, hand, waiting, echo, others, next, sent>>

PutcSyncWrite(a) ==
  /\ at[a] = "sync"
  /\ fifo' = Append(fifo, Sync)
  /\ Goto(a, IF a = "print" THEN "idle" ELSE "echo")
  /\ echo' = IF a = "print" THEN echo ELSE echo - 1
  /\ UNCHANGED <<uart_tx_lock, ring, irq, rx, hand, waiting, others, next, sent>>

(* uartintr() after plic_claim(): consoleintr() echoes a character as one, *)
(* as the three of BACKSPACE, or not at all.                               *)
Uartintr ==
  /\ irq /\ at["intr"] = "idle"
  /\ irq' = FALSE
  /\ Goto("intr", "echo")
  /\ rx' = FALSE
  /\ echo' \in (IF rx THEN {0, 1, 3} ELSE {0})
  /\ UNCHANGED <<uart_tx_lock, ring, fifo, hand, waiting, others, next, sent>>

UartintrStart_Skipped ==
  /\ at["intr"] = "echo" /\ echo = 0 /\ uart_tx_lock = None
  /\ Goto("intr", "idle")
  /\ UNCHANGED <<uart_tx_lock, ring, fifo, irq, rx, hand, waiting, echo, others, next, sent>>

(* No more input: uartstart() with the lock.                               *)
UartintrStart ==
  /\ at["intr"] = "echo" /\ echo = 0 /\ uart_tx_lock = None
  /\ uart_tx_lock' = "intr"
  /\ Goto("intr", "start")
  /\ UNCHANGED <<ring, fifo, irq, rx, hand, waiting, echo, others, next, sent>>

-----------------------------------------------------------------------------
(* The UART sends a character, and interrupts when it has none left.       *)
Transmit ==
  /\ fifo # <<>>
  /\ fifo' = Tail(fifo)
  /\ irq' = (irq \/ Len(fifo) = 1)
  /\ sent' = [p \in Tracked |-> (sent[p] + (IF Head(fifo)[1] = p THEN 1 ELSE 0)) % SEQMOD]
  /\ UNCHANGED <<uart_tx_lock, ring, rx, at, hand, waiting, echo, others, next>>

(* A character is typed.  The handler is faster than the typing.           *)
Receive ==
  /\ ~rx /\ at["intr"] = "idle" /\ others < MAXOTHER
  /\ rx' = TRUE /\ irq' = TRUE /\ others' = others + 1
  /\ UNCHANGED <<uart_tx_lock, ring, fifo, at, hand, waiting, echo, next, sent>>

LockHolder == \E a \in Threads : Uartstart(a) \/ WriteTHR(a)
Syncing == \E a \in {"intr", "print"} : PutcSyncWrite(a)

Next ==
  \/ LockHolder \/ Syncing
  \/ \E p \in Writers : Consolewrite(p) \/ Uartputc(p)
  \/ \E a \in {"intr", "print"} : PutcSyncTest(a)
  \/ Uartintr \/ UartintrStart \/ Transmit \/ Receive

Spec == Init /\ [][Next]_vars

(* The UART transmits; a holder of the lock and the interrupt handler go   *)
(* on; who spins for the lock, or for an idle UART, gets through if there  *)
(* are chances again and again.                                            *)
Fairness ==
  /\ WF_vars(LockHolder) /\ WF_vars(Syncing) /\ WF_vars(Transmit) /\ WF_vars(Uartintr)
  /\ SF_vars(UartintrStart) /\ SF_vars(PutcSyncTest("intr"))

FairSpec == Spec /\ Fairness

-----------------------------------------------------------------------------
TypeOK ==
  /\ uart_tx_lock \in Threads \cup {None}
  /\ txr \in 0..TXMOD - 1 /\ txw \in 0..TXMOD - 1
  /\ (txw - txr) % TXMOD <= UART_TX_BUF_SIZE
  /\ waiting \subseteq Writers
  /\ echo \in 0..3

(* The characters between the writers and the line: in the UART, in the    *)
(* hand of uartstart(), in the ring.                                       *)
Pipeline ==
  fifo \o (IF hand = None THEN <<>> ELSE <<hand>>)
       \o [i \in 1..((txw - txr) % TXMOD) |-> uart_tx_buf[(txr + i - 1) % UART_TX_BUF_SIZE]]

(* What a process writes leaves the UART once and in order: its characters *)
(* on the way are the ones between the last sent and the last put, also    *)
(* when the ring's indices wrap.                                           *)
OutputInOrder ==
  \A p \in Tracked :
    LET mine == SelectSeq(Pipeline, LAMBDA c : c[1] = p) IN
    mine = [i \in 1..((next[p] - sent[p]) % SEQMOD) |-> <<p, (sent[p] + i - 1) % SEQMOD>>]

(* The writes that skip the lock do not overrun the UART: it never holds   *)
(* more characters than there are CPUs that can be between LSR and THR.    *)
FifoFits == Len(fifo) <= FIFO

(* Output does not stall: when the ring has characters and the UART is     *)
(* idle, an interrupt is pending, or someone is about to run uartstart().  *)
NoStall ==
  txr # txw /\ TX_IDLE =>
    irq \/ at["intr"] \in {"echo", "sync"} \/ \E a \in Threads : at[a] \in {"start", "thr"}

(* A writer sleeps only while the ring is full.                            *)
NoLostWakeup == waiting # {} => Full

(* A character put in the ring leaves the UART: a writer's output does not *)
(* stay on the way for ever without another character being sent, if the   *)
(* typing and printing that pass it by come to an end.                     *)
QueuedIsSent ==
  \A p \in Tracked : []<>(sent[p] = next[p]) \/ []<><<sent'[p] # sent[p]>>_vars

(* The output in every state: nothing is lost or reordered, the UART is    *)
(* not overrun, and neither the output nor a writer waits for nothing.     *)
OutputSound == TypeOK /\ OutputInOrder /\ FifoFits /\ NoStall /\ NoLostWakeup
=============================================================================
