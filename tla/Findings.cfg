SPECIFICATION FindingsSpec
CONSTANTS
  Host <- MCHost
  Fresh = {"SCAN-1", "SCAN-2"}
  CutId <- MCCutId
  Files <- MCFiles
  Scopes <- MCScopes
  MaxFindings = 2
  Ages <- MCAges
  Agreements <- MCAgreements
  BaseScores <- MCBaseScores
INVARIANTS IdsShared ReportsClassify
PROPERTIES NothingLost EvidenceRaises WorseNeverLower
