INIT FunctionsInit
NEXT FunctionsNext
CONSTANTS
  Procs = {p1, p2, p3}
  MaxRecords = 3
  MaxCrashes = 2
  MaxPort = 5
  commonPorts <- Common
  Arguments <- SomeArguments
  Lines <- SomeLines
  MaxLines = 5
  Targets <- SomeTargets
  Addresses = {1, 2}
  Networks <- Net
  Nodes = {1, 2, 3, 4}
  Links <- SomeLinks
  Cost <- FourCosts
  Queries <- EndToEnd
  Scale = 12
  Chars <- Alphabet
  Made <- SomeNames
  FoldAscii <- Ascii
  Lower <- LowerCase
  Width <- Bytes
  Patterns <- SomePatterns
  MaxPatterns = 3
  Texts <- SomeTexts
  LeaderLogs <- SomeLogs
  TargetHosts = {"first", "second"}
  OtherHosts = {"www"}
  SweepPorts = {21, 80}
  WalkPorts = {80, 8080}
  ScopedPorts = {80, 443}
  PortsGiven = {{8080}}
  MaxCampaigns = 2
SYMMETRY ProcSymmetry
INVARIANTS SweepsWhatIsNamed ReadsTheSubset AllowsOnlyWhatIsWritten BetweennessIsShareOfPaths EnginesAgree RouteIsLeast OutputsAreSuffixes MatchersAgree LogMatching ProbesAreOfTheTarget OneKey Recoverable
CHECK_DEADLOCK FALSE
