SPECIFICATION RunnersSpec
CONSTANTS
  TargetHosts = {"first"}
  OtherHosts = {"www"}
  SweepPorts = {21, 80}
  WalkPorts = {80, 8080}
  ScopedPorts = {80, 443}
  PortsGiven = {{8080}}
  MaxCampaigns = 1
INVARIANT StepsStayInScope
CHECK_DEADLOCK FALSE
