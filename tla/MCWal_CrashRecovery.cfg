CONSTANTS
  MaxAppends = 3
  MaxFaults = 1
  WritesRaise = FALSE
  MaxLegacy = 0
SPECIFICATION Spec
INVARIANT CrashRecovery
