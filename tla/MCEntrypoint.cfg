SPECIFICATION FairSpec
CONSTANTS
  AppStatuses <- MCAppStatuses
  SidecarStatuses <- MCSidecarStatuses
  Signals <- MCSignals
  MaxSignals = 2
INVARIANTS
  TypeOK
  ZeroMeansSuccess
  QuietRunReportsPolicy
  OneSignalWaitsForReaders
  
PROPERTIES
  CleanupSparesReaders
  BatchTerminates
  IsContainer
  StopRequestHonoured
CHECK_DEADLOCK FALSE
