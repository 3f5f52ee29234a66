SPECIFICATION WorkspaceSpec
CONSTANTS
  MaxWrites = 5
  Process = {p1, p2}
  Record = {r1, r2}
  MaxJobs = 3
  RuleKind = {"domain_suffix", "url_prefix"}
  RuleValue = {"wide"}
  MaxRules = 2
  MaxSaves = 2
INVARIANTS LossBounded SavedIsKept UnreadableOnlyIfDisturbed DoctorFindsLasting LoadsFirstRules
SYMMETRY Symmetric
CHECK_DEADLOCK FALSE
