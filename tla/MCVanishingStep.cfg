CONSTANTS
  Expr <- MCExpr
  Rewrites <- MCRewrites
  Roots <- NestedIteration
  Start = "a"
  FirstIndex = "a"
  Depths <- MCDepths
SPECIFICATION ClientSpec
INVARIANT EveryArcIsARewrite
