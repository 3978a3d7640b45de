SPECIFICATION Spec
CONSTANTS
  Templates <- MCTemplates
  Lists <- MCLists
  MaxLost = 1
  MaxRuns = 2
  MaxEdits = 1
INVARIANTS
  TypeOK
  AuthFilesNeverCoexist
  FailureIsPrefix
  SuccessOwnsItsFiles
CHECK_DEADLOCK FALSE
