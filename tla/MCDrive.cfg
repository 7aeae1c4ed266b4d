SPECIFICATION Spec
INVARIANTS
  TypeOK
  SupplyLimit
  CommandTakesEffect
  NoLastingBrake
PROPERTIES
  DutyBeforeOutput
  PowerAfterDirection
  RepeatIsSilent
