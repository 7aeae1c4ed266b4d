SPECIFICATION PollingSpec
CONSTANTS
  a = a
  NoByte = NoByte
  Byte <- MCByte
  UART_BUFFER_SIZE = 3
  INDEX_RANGE = 4
  Strings <- MCStrings
  MaxPrints = 1
PROPERTY PollingReturns
