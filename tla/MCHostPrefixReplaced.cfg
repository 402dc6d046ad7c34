\* The model file is replaced between two requests.
CONSTANTS
  Token = {0, 1}
  BlockTokens = 2
  Hash <- MCHash
  Requests = {r1}
  Free = Free
  Prompts <- MCRivalPrompts
  Settings <- MCReplacedFile
  Unset = Unset
  MaxServed = 2
SPECIFICATION Spec
CHECK_DEADLOCK FALSE
INVARIANT
  PrefillIgnoresCache
