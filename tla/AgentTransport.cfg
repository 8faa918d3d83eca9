SPECIFICATION FairSpec
CONSTANTS
  NoOutput = NoOutput
  Requests = {r1}
  Consumers = {w1, w2}
  Outputs = {x}
  Transports = {"redis_stream", "memory"}
  MaxAttempts = 3
  MaxCrashes = 3
  MaxStalls = 1
  MaxAckErrors = 1
  MaxFaults = 3
INVARIANTS
  TypeOK
  RunsBounded
  OneCopyInFlight
PROPERTIES
  ImplementsChannel
  EventuallyDrained
CHECK_DEADLOCK FALSE
