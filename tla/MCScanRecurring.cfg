SPECIFICATION Spec
CONSTANTS
  a = a
  b = b
  folder = folder
  share = share
  group = group
  service = service
  Servers = {a}
  Resources = {share}
  Kind <- MCKind
  Baselines <- OneShare
  Scans = {s1, s2, s3}
  ServerLists <- OneServer
  HistoryLimit = 3
  JsonModeAccepted = TRUE
  MaxDrifts = 3
  MaxFaults = 0
INVARIANT
  RecurringSinceLastScan
