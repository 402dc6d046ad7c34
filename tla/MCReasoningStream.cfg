\* Every text of up to five pieces and ten characters, in every division into chunks.
\* The stream ends with finish, so a finished parser takes no step.
CONSTANTS
  Character <- MCCharacter
  Newline <- MCNewline
  ThinkStart <- MCThinkStart
  ThinkEnd <- MCThinkEnd
  Texts <- MCTexts
  MaxPieces = 5
  MaxLength = 10
SPECIFICATION Spec
CHECK_DEADLOCK FALSE
INVARIANTS
  HoldsBackOnlyTag
  StreamEqualsBatch
PROPERTIES
  EveryPushReturns
