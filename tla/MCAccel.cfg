SPECIFICATION MCSpec
CONSTANTS
  Threads = {t1, t2}
  Kinds <- AllKinds
  MaxCalls = 2
  Contents = {1, 2}
  MaxChanges = 2
  MaxFaults = 1
INVARIANTS BatchFromOneFront AutomatonIsCurrent LabelTrueUnlessCoreBroke HealthAgreesWithService
SYMMETRY ThreadSymmetry
CHECK_DEADLOCK FALSE
