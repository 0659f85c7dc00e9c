SPECIFICATION Spec
CONSTANTS
  Workers = {w1}
  Sessions = {s1, s2}
  Requests = {r1, r2, r3}
  MaxTurns = 5
  MaxIter = 3
  MaxGiveUps = 0
  MaxClears = 1
  MaxCrashes = 1
  NoRequest = NoRequest
  Nowhere = Nowhere
  NoTurn = NoTurn
  Apology = Apology
SYMMETRY Symmetry
INVARIANTS
  TypeOK
  PromptHasUserMessage
  AnswerIsOwn
  ObservationFollowsAction
  ConversationContinuity
  ErasedStaysErased
