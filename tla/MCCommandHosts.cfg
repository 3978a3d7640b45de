SPECIFICATION Spec
CONSTANTS
  ValidIds <- MCValidIds
  InvalidIds <- MCInvalidIds
  Payloads <- MCPayloads
  AwsMetaBytes = 60
  Bodies <- MCBodies
  HeaderSets <- MCHeaderSets
  Environments <- MCEnvironments
INVARIANTS
  DispatchedExactly
  ProvenanceIsTheHosts
  CodeTellsTheReason
CHECK_DEADLOCK FALSE
