CONSTANTS
  Expr <- MCExpr
  Rewrites <- MCRewrites
  Roots <- StaleDependency
  Start = "a"
  FirstIndex = "a"
  Depths <- MCDepths
SPECIFICATION ClientSpec
INVARIANT CountAccurate
