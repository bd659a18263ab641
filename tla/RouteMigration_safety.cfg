CONSTANTS
  Files <- MCFiles
  Unroutable <- MCUnroutable
  AddMayRaise = TRUE
SPECIFICATION Spec
INVARIANT TypeOK
INVARIANT MaskConvertorMatchesPrefix
INVARIANT ExitZeroMeansFileDone
INVARIANT ServerAgreesWithLog
