CONSTANTS
  Expr <- MCExpr
  Rewrites <- MCRewrites
  Roots <- Iteration
  Start = "a"
  FirstIndex = "a"
  Depths <- NormalFormsWithin
SPECIFICATION ClientSpec
CHECK_DEADLOCK FALSE
PROPERTY Enumerates
