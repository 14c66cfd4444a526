CONSTANTS
  Expr <- MCExpr
  Rewrites <- MCRewrites
  Roots <- Iteration
  Start = "a"
  FirstIndex = "x"
  Depths <- FromTheStart
SPECIFICATION ClientSpec
CHECK_DEADLOCK FALSE
PROPERTY Enumerates
