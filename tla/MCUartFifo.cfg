CONSTANTS
  Char = {a, b}
  NoChar = NoChar
  UART_BUF_SIZE = 4
SPECIFICATION Spec
INVARIANTS TypeOK FullFlagInv
PROPERTY RefinesRxQueue
CHECK_DEADLOCK TRUE
