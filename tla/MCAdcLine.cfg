SPECIFICATION Spec
CONSTANTS
  adc_pins <- MCPins
  Channel <- MCChannel
  Voltages <- MCVoltages
  VOLTAGE_THRESHOLD = 650
INVARIANTS
  TypeOK
  BlockAtRest
  NeverStalled
  IInv
PROPERTIES
  SamplingGoesOn
  LineSpec
