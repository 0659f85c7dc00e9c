SPECIFICATION Spec
CONSTANTS
  Requests = {r1, r2, r3}
  TTL = 1
  Slack = 1
  PoolLimit = 1
  MaxTime = 5
  MaxRotations = 1
  NoKeys = NoKeys
SYMMETRY Symmetry
INVARIANTS
  TypeOK
  KeysAreRecent
  RefusedHadNoEffect
