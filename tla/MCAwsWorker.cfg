SPECIFICATION FairSpec
CONSTANTS
  e1 = e1
  e2 = e2
  h = h
  i1 = i1
  i2 = i2
  j = j
  ValidIds <- MCValidIds
  InvalidIds <- MCInvalidIds
  Payloads <- MCPayloads
  AwsMetaBytes = 60
  Events <- MCEvents
  Instances <- MCInstances
  FunctionOf <- MCFunctionOf
  Serves <- MCServes
  EventPayload <- MCEventPayload
  InvocationId <- MCInvocationId
  Copies <- MCCopies
  MaxAttempts = 2
INVARIANTS
  TypeOK
  RetriesAgree
  DeadLettersAreFaults
  NoCallWithoutPolicy
  HealthSpeaksForTheCore
PROPERTIES
  EventuallySettled
  SettledIsFinal
CHECK_DEADLOCK FALSE
