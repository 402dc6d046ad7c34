CONSTANTS
  MaxWord = 1048575
  Invalid = Invalid
  DefaultMinTokens = 8
  DefaultMaxTokens = 4096
  NoSize = NoSize
  NoFile = NoFile
  Garbled = Garbled
  EosTokens = {1}
  MaxReplacements = 0
  File <- MCFiles
  NextToken <- MCNextToken
  Replacements <- MCReplacements
  Requests <- MCStrips
SPECIFICATION Spec
INVARIANT TokensWithinLimits
