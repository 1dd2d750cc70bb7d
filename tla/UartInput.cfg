SPECIFICATION Spec
CONSTANTS
  UART_BUF_SIZE = 3
  Printable = {a, b}
  Ending = {cr}
  Backspace = bs
  Other = other
  None = None
  MaxInput = 6
INVARIANT LineAsMeant
PROPERTIES ImplementsFifo Drained
CHECK_DEADLOCK FALSE
