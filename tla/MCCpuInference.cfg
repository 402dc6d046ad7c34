CONSTANTS
  Layers = 2
  Nothing = Nothing
  Garbled = Garbled
  NoModel = NoModel
  NoCacheYet = NoCacheYet
  Greedy = "greedy"
  Built = {"cpu", "mps", "mpsgraph"}
  EosTokens = {0}
  MinimumBucket = 2
  MaxCalls = 3
  NextToken <- MCNextToken
  Requests <- MCRequests
SPECIFICATION Spec
CHECK_DEADLOCK FALSE
INVARIANTS
  SampledStateIsOfThisText
  FailsOnlyOnFault
  ReportDescribesText
  WarmedIsCompiled
PROPERTIES
  ImplementsService
