SPECIFICATION Spec
CONSTANTS
  redwood = redwood
  webmethods = webmethods
  StaticOrder <- TwoTools
  Designs = {d1, d2}
  MinUsage = 1
  MaxRulings = 1
  MaxFaults = 1
  MaxCrashes = 1
  NoTool = NoTool
SYMMETRY Symmetry
INVARIANTS
  TypeOK
  RejectedIsNotRecommended
  RankingIsByUsage
  CatalogueHasArtefacts
  UsageAddsUp
