\* two builds, and one change of the configuration, killed build or refused request
SPECIFICATION PipelineSpec
CONSTANTS
  Nims = {"lipsync"}
  FirstMode = "BUNDLED"
  MaxBuilds = 2
  MaxUpsets = 1
CHECK_DEADLOCK FALSE
INVARIANTS NothingOlderRemains
PROPERTIES BuildsSettle
