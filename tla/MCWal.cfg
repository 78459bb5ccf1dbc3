CONSTANTS
  MaxAppends = 4
  MaxFaults = 2
  WritesRaise = TRUE
  MaxLegacy = 1
SPECIFICATION Spec
INVARIANTS
  TypeOK
  ReplayOrdered
  AckedDurable
  DiscardedAbsent
