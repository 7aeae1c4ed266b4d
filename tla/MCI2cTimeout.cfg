SPECIFICATION Spec
CONSTANTS
  COUNT = 3
  AddrSizes <- MCAddrSizes
  DataSizes <- MCDataSizes
  MaxCalls = 1
INVARIANT
  TimeoutReported
CHECK_DEADLOCK FALSE
