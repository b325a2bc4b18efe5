SPECIFICATION Spec
CONSTANTS
  Configs <- SmallConfigs
  Requests <- SomeRequests
  Inferences <- SomeInferences
  Backends = {"postgres", "memory"}
  Nothing = Nothing
  MaxEdits = 1
CONSTRAINT Unanswered
INVARIANTS TypeOK LocalAgrees SimulationAgrees JunkClearanceInert
