SPECIFICATION Spec
CONSTANTS
  PIN_CNT_PER_PORT = 2
  Handlers = {h}
  NULL = NULL
  UsedIos = {1, 2, 3}
  MaxEdges = 2
INVARIANTS
  TypeOK
  NoPhantomCall
  EdgeKept
PROPERTIES
  EdgeServed
  CallReturns
