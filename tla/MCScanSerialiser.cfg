SPECIFICATION Spec
CONSTANTS
  a = a
  b = b
  folder = folder
  share = share
  group = group
  service = service
  Servers = {a}
  Resources = {share}
  Kind <- MCKind
  Baselines <- OneShare
  Scans = {s1}
  ServerLists <- OneServer
  HistoryLimit = 3
  JsonModeAccepted = FALSE
  MaxDrifts = 1
  MaxFaults = 1
INVARIANT
  ErrorsAreExternal
