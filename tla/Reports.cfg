SPECIFICATION Spec
CONSTANTS
  Lines <- MCLines
  Messages <- MCMessages
  TrpIds <- MCTrpIds
  Trps <- MCTrps
  Reports <- MCReports
  SpeedOfLight = 1
  FallbackUeHeight = 0
INVARIANTS
  TypeOK
  PartsAsSent
  ToaOfItsTrp
  TruePositionSolves
