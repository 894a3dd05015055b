\* any join may give up; a service has one optional NIM or the other
SPECIFICATION Spec
CONSTANTS
  Deployments = {{"s2s"}, {"asd"}}
  MaxTranslated = 1
  MaxResponses = 2
  EarlyEnd = TRUE
INVARIANT OkMeansComplete
PROPERTIES OkMeansStagesSucceeded AtMostOneMore CallIsAnswered ThreadsAreReleased
