SPECIFICATION Spec
INVARIANTS
  LeftModeSet
