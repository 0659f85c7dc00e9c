SPECIFICATION FairSpec
CONSTANTS
  Workers = {w1}
  Sessions = {s1}
  Requests = {r1, r2, r3}
  MaxTurns = 6
  MaxIter = 2
  MaxGiveUps = 1
  MaxClears = 1
  MaxCrashes = 0
  NoRequest = NoRequest
  Nowhere = Nowhere
  NoTurn = NoTurn
  Apology = Apology
INVARIANTS
  PromptHasUserMessage
  AnswerIsOwn
PROPERTY
  EveryChatEnds
