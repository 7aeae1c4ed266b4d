SPECIFICATION Spec
CONSTANTS
  a = a
  b = b
  c = c
  NoByte = NoByte
  Byte <- MCByte
  UART_BUFFER_SIZE = 4
  INDEX_RANGE = 5
  Strings <- MCStrings
  MaxPrints = 3
INVARIANTS
  TypeOK
  IsrNeverHangs
  TxbufFreeAtStart
  NoStalledQueue
  WireInOrder
  IInv
PROPERTIES
  LineSpec
  PrintReturns
