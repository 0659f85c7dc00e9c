SPECIFICATION Spec
CONSTANTS
  Pods = {p1}
  Workers = {w1, w2}
  Requests = {r1, r2}
  FailureThreshold = 2
  MaxOutages = 1
  MaxCrashes = 1
  None = None
INVARIANTS
  TypeOK
  WorkIsGated
PROPERTIES
  StuckForGood
  KeepsCallContract
  InServiceInTheEnd
