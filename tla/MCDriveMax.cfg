SPECIFICATION Spec
INVARIANTS
  MaxIsFastest
