CONSTANTS
  MaxWord = 1048575
  Invalid = Invalid
  DefaultMinTokens = 8
  DefaultMaxTokens = 4096
  NoSize = NoSize
  NoFile = NoFile
  Garbled = Garbled
  EosTokens = {1}
  MaxReplacements = 2
  File <- MCFiles
  NextToken <- MCNextToken
  Replacements <- MCReplacements
  Requests <- MCRequests
SPECIFICATION Spec
INVARIANTS
  SampledStateIsOfThisPrompt
  PositionsKeepOrder
  ImageTokenCoversItsCell
  AcceptedIsServed
  WeightsAreTheirTensors
