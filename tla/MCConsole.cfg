SPECIFICATION MCSpec
CONSTANTS
  Readers = {p1, p2}
  Letters = {a}
  Newline = Newline
  CtrlD = CtrlD
  CtrlU = CtrlU
  CtrlH = CtrlH
  INPUT_BUF = 2
  UINTMOD = 4
  MAXN = 2
  None = None
  Writers = {p1, p2}
  Tracked = {p1}
  UART_TX_BUF_SIZE = 2
  TXMOD = 4
  FIFO = 3
  SEQMOD = 5
  MAXOTHER = 2
INVARIANTS ReadersWake OutputSound
PROPERTIES InputIsLines QueuedIsSent
