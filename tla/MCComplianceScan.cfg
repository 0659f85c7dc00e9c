SPECIFICATION Spec
CONSTANTS
  a = a
  b = b
  folder = folder
  share = share
  group = group
  service = service
  Servers = {a, b}
  Resources = {share, group, folder}
  Kind <- MCKind
  Baselines <- Images
  Scans = {s1, s2}
  ServerLists <- TwoServers
  HistoryLimit = 2
  JsonModeAccepted = TRUE
  MaxDrifts = 1
  MaxFaults = 1
SYMMETRY Symmetry
INVARIANTS
  TypeOK
  TracesHaveReports
  HistoryAgreesWithReport
  HistoryIsComplete
  RecurringHasPrecedent
  KnownFindingsAreNotNew
  CompliantMeansClean
  ErrorsAreExternal
