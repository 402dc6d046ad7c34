\* Three connections, two at a time, with profiles that cannot be written.
\* A gateway whose connections are served or whose accept failed may stop.
CONSTANTS
  Threads = {t1, t2}
  Requests <- MCRequests
  ArtifactsFail = TRUE
  MaxConnections = 3
  MaxTokens = 1
SPECIFICATION Spec
CHECK_DEADLOCK FALSE
INVARIANTS
  TypeOK
  OneInference
  ResponseIsComplete
PROPERTIES
  PermitIsGivenBack
  EveryRequestEnds
