SPECIFICATION Spec
CONSTANTS
  AppStatuses <- Success
  SidecarStatuses <- Failure
  Signals <- MCSignals
  MaxSignals = 0
INVARIANTS
  FailOpenPreservesSuccess
CHECK_DEADLOCK FALSE
