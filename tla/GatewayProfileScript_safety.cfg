CONSTANTS
  Hash256 = Hash256
  HashLength <- Hash256
  FailingCalls <- MCTryFailures
  ServerNormalises = TRUE
SPECIFICATION Spec
INVARIANT TypeOK
INVARIANT NoProfileLeft
