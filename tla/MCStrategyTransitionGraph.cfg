CONSTANTS
  Expr <- MCExpr
  Rewrites <- MCRewrites
  Roots <- MCRoots
  Start = "a"
  FirstIndex = "a"
  Depths <- MCDepths
SPECIFICATION ClientSpec
CHECK_DEADLOCK FALSE
INVARIANTS
  NothingDangling
  SuccessorsExact
  CountAccurate
  PathsKnown
PROPERTIES
  AnswersAreFinal
  EveryRequestAnswered
  Enumerates
  Ends
