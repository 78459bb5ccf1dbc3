SPECIFICATION Spec
CONSTANTS
  Ports <- ThreePorts
  Workers = {w1, w2}
  MaxCycles = 2
  MaxDeaths = 1
  MaxFaults = 1

PROPERTY CyclesEnd
CHECK_DEADLOCK FALSE
