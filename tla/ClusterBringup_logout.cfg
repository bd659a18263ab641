CONSTANTS
  NumNodes <- MCNumNodes
  FailingCalls <- MCTryFailures
  StuckNodes = FALSE
  NodesMayRegress = FALSE
SPECIFICATION Spec
INVARIANT LogoutOnEveryExit
