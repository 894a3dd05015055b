SPECIFICATION Spec
CONSTANTS
  Jobs = {j1}
  Groups = {g1}
  Names = {n1}
  Count = 1
  MaxRuns = 2
  MaxApps = 2
  MaxRestarts = 2
  MaxDeaths = 1
INVARIANTS
  
  SuccessMeansRebuilt
  SuccessMeansRedeployed
PROPERTIES
  RunsEnd
CHECK_DEADLOCK FALSE
