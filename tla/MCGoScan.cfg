SPECIFICATION ScanSpec
CONSTANTS
  Ports = {1, 2, 3}
  maxWorkers = 2
  MaxRequests = 2
  Threads = {1, 2}
  Entries = {"run_go_scan", "run_go_scan_persistent"}
  Strict = {TRUE, FALSE}
  MaxCalls = 3
  MaxFaults = 2
INVARIANTS NoMixup AcceptedIsSwept
PROPERTIES SweepIsKept SweepEnds CallsEnd
CHECK_DEADLOCK FALSE
