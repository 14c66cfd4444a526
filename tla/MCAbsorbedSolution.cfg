CONSTANTS
  Expr <- MCExpr
  Rewrites <- MCRewrites
  Roots <- AbsorbedSolution
  Start = "a"
  FirstIndex = "a"
  Depths <- MCDepths
SPECIFICATION ClientSpec
CHECK_DEADLOCK FALSE
INVARIANT AbsorberServes
