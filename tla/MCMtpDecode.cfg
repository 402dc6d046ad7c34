\* Eight tokens at most, three drafts a round, a capacity that leaves no spare
\* row; windows of one draft so that the budget moves within a request.
CONSTANTS
  Token = {0, 1, 2}
  NoToken = NoToken
  EosTokens = {2}
  Models = {5, 6, 8, 14}
  Argmax <- MCArgmax
  Prompt <- MCPrompt
  MaxNewTokens = 8
  Capacity = 9
  ConfidenceGate = TRUE
  DraftTokens = 3
  WindowFloor = 1
  WindowPerBudget = 1
SPECIFICATION Spec
CHECK_DEADLOCK FALSE
INVARIANTS
  TypeOK
  SampledRowIsCurrent
  PendingIsLastCommitted
  NoCapacityError
  UsedRowsAreCommitted
  StatsTelescope
PROPERTY
  ImplementsGreedyDecode
