SPECIFICATION Spec
CONSTANTS
  Page <- MCPage
  Allowed <- MCAllowed
  Web <- MCWeb
  Site <- MCSite
  Malformed = "malformed"
  Start = "a"
  MaxDepth = 2
  MaxPages = 4
INVARIANTS ResultsExact DepthIsDistance CompleteUnlessMalformed
PROPERTIES Terminates ImplementsExploration
CHECK_DEADLOCK FALSE
