CONSTANTS
  NumNodes <- MCNumNodes
  FailingCalls <- MCAllFailures
  StuckNodes = TRUE
  NodesMayRegress = TRUE
SPECIFICATION Spec
INVARIANT TypeOK
INVARIANT NoOrphanOnReturn
INVARIANT ZeroExitMeansLdapEnabled
