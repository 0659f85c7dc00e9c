SPECIFICATION Spec
CONSTANTS
  Workers = {w1, w2}
  Sessions = {s1}
  Requests = {r1, r2, r3}
  MaxTurns = 4
  MaxIter = 2
  MaxGiveUps = 0
  MaxClears = 0
  MaxCrashes = 0
  NoRequest = NoRequest
  Nowhere = Nowhere
  NoTurn = NoTurn
  Apology = Apology
INVARIANT
  ConversationContinuity
