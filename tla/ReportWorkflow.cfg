CONSTANTS
  MaxGen <- MCMaxGen
  Timeout <- MCTimeout
SPECIFICATION Spec
INVARIANT TypeOK
PROPERTY ExportFollowsSuccess
