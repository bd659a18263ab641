CONSTANTS
  NumNodes <- MCNumNodes
  FailingCalls <- MCNoFailures
  StuckNodes = FALSE
  NodesMayRegress = FALSE
SPECIFICATION Spec
PROPERTY DeletesOnlyOwnCluster
