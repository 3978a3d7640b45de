SPECIFICATION FairSpec
CONSTANTS
  r1 = r1
  r2 = r2
  ValidIds <- MCValidIds
  InvalidIds <- MCInvalidIds
  Payloads <- MCPayloads
  AwsMetaBytes = 60
  Starts <- MCStarts
  Requests <- MCRequests
  Invocation <- MCInvocation
  HeadersOf <- MCHeadersOf
  Signals = {"INT", "TERM"}
  MaxSignals = 2
  MaxEdits = 1
INVARIANTS
  TypeOK
  ArgumentsAreReviewed
  PolicyGoverns
  AzurePortMeansAzure
  GracefulExitLosesNothing
PROPERTIES
  ActsAsWorkload
CHECK_DEADLOCK FALSE
