SPECIFICATION Spec
CONSTANTS
  Names = {"www", "mail", "a..www", "other"}
  Unencodable = {"a..www"}
  Addresses = {"in_1", "in_2", "out_1"}
  PortNumbers = {80, 8443, 8080}
  InScope = {"www", "mail", "a..www", "in_1", "in_2"}
  ScopePorts = {80, 8443}
  Seeds <- SomeSeeds
  WebPorts <- TwoWebPorts
  GivenPorts <- OneGiven
  DefaultPort = 80
  Ct = TRUE
  Deep = TRUE
  Depth = 2
  MaxHosts = 3
  MaxRequests = 6
INVARIANT NeverRaised
CHECK_DEADLOCK FALSE
