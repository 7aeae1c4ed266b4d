SPECIFICATION Spec
CONSTANTS
  COUNT = 3
  AddrSizes <- MCAddrSizes
  DataSizes <- MCDataSizes
  MaxCalls = 2
INVARIANTS
  TypeOK
  WriteDelivered
  ReadFilled
  BusAfterCall
PROPERTIES
  TxbufFree
  TransferReturns
CHECK_DEADLOCK FALSE
