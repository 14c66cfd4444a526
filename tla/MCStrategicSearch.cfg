CONSTANTS
  Expr <- MCExpr
  Rewrites <- MCRewrites
  Fragments <- MCFragments
  Tests <- MCTests
  Patterns <- MCPatterns
  Rebuild <- MCRebuild
  Strategies <- MCStrategies
  Meanings <- MCMeanings
  Roots <- MCRoots
  Start <- MCStart
  Endless <- MCEndless
  Values <- MCValues
  Filters = {"f", "g"}
  MaxContexts = 3
  MaxUsers = 2
SPECIFICATION MCSpec
INVARIANTS
  ClientsServed
  FreeExact
  CacheCurrent
  SharedOnce
  ListsExact
  ContextsLive
PROPERTIES
  Enumerates
  FairFindsAll
  Ends
