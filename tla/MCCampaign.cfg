SPECIFICATION Spec
CONSTANTS
  Intel <- SomeIntel
  Documents <- None
  MaxConcurrency = 2
  MaxPlans = 1
  Registered = {"stealth", "discovery", "asset", "recon", "collector"}
  MaxFaults = 2
INVARIANTS StepsInOrder EndedIsOver AuditAgrees TearCostsOneEvent
PROPERTY CampaignEnds
CHECK_DEADLOCK FALSE
