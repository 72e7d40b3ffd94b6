----------------------------- MODULE MCConsole ------------------------------
(***************************************************************************)
(* The two halves of the console, input (Console) and output (Uart).  They *)
(* share no variable, so a behaviour runs one of them.                     *)
(***************************************************************************)
EXTENDS Console

CONSTANTS Writers, Tracked, UART_TX_BUF_SIZE, TXMOD, FIFO, SEQMOD, MAXOTHER

VARIABLES uart_tx_lock, uart_tx_buf, txr, txw, fifo, irq, rx, at, hand, waiting, echo,
          others, next, sent,
          half  \* the half that runs

U == INSTANCE Uart

uartVars == <<uart_tx_lock, uart_tx_buf, txr, txw, fifo, irq, rx, at, hand, waiting, echo,
              others, next, sent>>

ASSUME UartAssumption == U!UartConstants

MCInit == Init /\ U!Init /\ half \in {"input", "output"}

MCNext ==
  \/ half = "input" /\ Next /\ UNCHANGED <<uartVars, half>>
  \/ half = "output" /\ U!Next /\ UNCHANGED <<vars, half>>

MCSpec == MCInit /\ [][MCNext]_<<vars, uartVars, half>> /\ U!Fairness

(* What processes write leaves the UART once and in order, nothing         *)
(* overruns it, and neither the output nor a writer waits for nothing.     *)
OutputSound == U!OutputSound

(* What was put into the transmit ring is sent.                            *)
QueuedIsSent == U!QueuedIsSent

=============================================================================
