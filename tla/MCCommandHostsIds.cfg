SPECIFICATION Spec
CONSTANTS
  ValidIds <- MCValidIds
  InvalidIds <- MCInvalidIds
  Payloads <- MCPayloads
  AwsMetaBytes = 60
  Bodies <- MCBodies
  HeaderSets <- MCHeaderSets
  Environments <- MCEnvironments
INVARIANTS
  UnboundedIdentifierRejected
CHECK_DEADLOCK FALSE
