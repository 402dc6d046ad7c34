\* The same texts, shorter: a start tag that arrives in two chunks.
CONSTANTS
  Character <- MCCharacter
  Newline <- MCNewline
  ThinkStart <- MCThinkStart
  ThinkEnd <- MCThinkEnd
  Texts <- MCTexts
  MaxPieces = 3
  MaxLength = 9
SPECIFICATION Spec
CHECK_DEADLOCK FALSE
INVARIANTS
  StartTagIsNotOutput
