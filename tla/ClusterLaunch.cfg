SPECIFICATION Spec
CONSTANTS
  Slots = 1
  MaxApps = 3
  MaxDeaths = 1
  Workers = 1
INVARIANT LaunchedWorkersJoin
PROPERTIES  LaunchEnds
CHECK_DEADLOCK FALSE
