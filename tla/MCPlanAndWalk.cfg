SPECIFICATION MCSpec
CONSTANTS
  Names = {"www", "mail", "a..www", "other"}
  Unencodable = {"a..www"}
  Addresses = {"in_1", "in_2", "out_1"}
  PortNumbers = {80, 8443, 8080}
  InScope = {"www", "mail", "a..www", "in_1", "in_2"}
  ScopePorts = {80, 8443}
  Seeds <- SomeSeeds
  WebPorts <- TwoWebPorts
  GivenPorts <- OneGiven
  DefaultPort = 80
  Ct = TRUE
  Deep = TRUE
  Depth = 2
  MaxHosts = 3
  MaxRequests = 6
  Intel <- AllIntel
  Documents <- AllDocuments
  MaxConcurrency = 2
  MaxPlans = 2
INVARIANTS EachStepOnce DependenciesFirst OrderedUnlessStuck RequestsStayInScope RequestsBounded
PROPERTIES ScheduleEnds WalkEnds
CHECK_DEADLOCK FALSE
