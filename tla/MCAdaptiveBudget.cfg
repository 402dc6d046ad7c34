\* The window sizes of the code, the default mtp_draft_tokens.
CONSTANTS
  DraftTokens = 3
  WindowFloor = 16
  WindowPerBudget = 8
SPECIFICATION Spec
INVARIANTS
  TypeOK
  WindowBounded
  RaisedInTime
  LoweredInTime
