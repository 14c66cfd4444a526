CONSTANTS
  Systems <- MCSystems
  Automata <- MCAutomata
  Propositions = {"p", "q"}
  Formulas <- MCFormulas
  Words <- MCWords
SPECIFICATION MCSpec
CHECK_DEADLOCK FALSE
INVARIANTS
  TypeOK
  StackMarksExact
  StacksAreARun
  Dfs2MeetsAllocatedStates
  PropositionCacheFaithful
  Dfs2SeenIsDead
  AlternatingUnfolds
  SameLanguage
  ComponentsExact
  ModelRight
PROPERTIES
  ImplementsEmptiness
  Translated
