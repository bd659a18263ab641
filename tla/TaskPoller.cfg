CONSTANTS
  c1 = c1
  c2 = c2
  Callbacks <- MCCallbacks
  Timeout <- MCTimeout
SPECIFICATION LiveSpec
INVARIANT TypeOK
INVARIANT CallbacksExactlyOnce
PROPERTY ImplementsTaskResult
PROPERTY EventuallyResolved
