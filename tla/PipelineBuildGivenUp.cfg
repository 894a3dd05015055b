\* one build that nothing interferes with but a status request
SPECIFICATION PipelineSpec
CONSTANTS
  Nims = {"lipsync"}
  FirstMode = "BUNDLED"
  MaxBuilds = 1
  MaxUpsets = 0
CHECK_DEADLOCK FALSE
PROPERTIES OnlyDeadBuildsAreGivenUp
