CONSTANTS
  NumNodes <- MCNumNodes
  FailingCalls <- MCNoFailures
  StuckNodes = TRUE
  NodesMayRegress = FALSE
SPECIFICATION Spec
PROPERTY EventuallyTerminates
