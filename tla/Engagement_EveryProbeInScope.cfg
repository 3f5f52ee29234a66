SPECIFICATION Spec
CONSTANTS
  Process = {p1}
  Url <- MCUrl
  Command <- MCCommand
  Scopes <- MCScopes
  Grants <- MCGrants
  Folded <- MCFolded
  Never = Never
  MaxEdits = 2
  MaxTime = 1
INVARIANT EveryProbeInScope
CHECK_DEADLOCK FALSE
