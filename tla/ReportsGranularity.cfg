SPECIFICATION Spec
CONSTANTS
  Lines <- MCLines
  Messages <- MCMessages
  TrpIds <- MCTrpIds
  Trps <- MCTrps
  Reports <- MCReportsOther
  SpeedOfLight = 1
  FallbackUeHeight = 0
INVARIANTS
  GranularityHeeded
