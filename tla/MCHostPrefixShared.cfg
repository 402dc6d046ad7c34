\* Two threads, three requests of four prompts, and two models whose caches have
\* three blocks and reuse no fewer than four tokens.
\* Threads stop when all requests are served.
CONSTANTS
  Token = {0, 1}
  BlockTokens = 2
  Hash <- MCHash
  Requests = {r1, r2}
  Free = Free
  Prompts <- MCPrompts
  Settings <- MCTwoModels
  Unset = Unset
  MaxServed = 3
SPECIFICATION Spec
CHECK_DEADLOCK FALSE
INVARIANTS
  TypeOK
  HitsStayResident
  PrefillIgnoresCache
  IndexMatchesPayloads
  RepeatIsFullHit
PROPERTY
  EveryRequestReturns
