CONSTANTS
  Systems <- OneSystem
  Automata <- OneAutomaton
  Propositions = {"p", "q"}
  Formulas <- SplitFormulas
  Words <- MCWords
SPECIFICATION MCSpec
CHECK_DEADLOCK FALSE
INVARIANT ComponentsOrdered
