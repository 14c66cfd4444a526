-------------------------- MODULE LtlTranslation ----------------------------
(***************************************************************************)
(* The construction of an automaton for a formula, stage by stage, for the *)
(* model checker (BuchiAutomaton2) or for the satisfiability solver        *)
(* (GenBuchiAutomaton::satSolve), which then looks for a model.            *)
(*                                                                         *)
(* The two do the same up to the analysis of components; who asks is left  *)
(* open until then.                                                        *)
(*                                                                         *)
(* Each action is one call of the constructors, of simplify or of          *)
(* satSolve; the program makes them one after the other.  Open are only    *)
(* the choices that depend on how sets and maps are ordered: the order of  *)
(* the initial states, and which of several shortest paths a breadth-first *)
(* search meets first.                                                     *)
(***************************************************************************)
EXTENDS BuchiAutomaton2

CONSTANTS
  Formulas,  \* the formulas to translate
  Words      \* the words on which automata are compared with formulas

VARIABLES
  formula,   \* the formula
  graph,     \* LogicFormula, with the index of the top node
  pc,        \* what has been built
  vwaa,      \* VeryWeakAlternatingAutomaton
  gba,       \* GenBuchiAutomaton
  info,      \* stateInfo and componentInfo
  buchi,     \* BuchiAutomaton2
  search     \* satSolve: fairState, currentState, fairness, leadIn and cycle

translationVars == <<formula, graph, pc, vwaa, gba, info, buchi, search>>

None == <<>>

TranslationInit ==
  /\ formula \in Formulas
  /\ pc = "formula"
  /\ graph = Build(<<>>, formula)
  /\ vwaa = None /\ gba = None /\ info = None /\ buchi = None /\ search = None

(***************************************************************************)
(* The automata                                                            *)
(***************************************************************************)

MakeAlternating ==
  /\ pc = "formula"
  /\ pc' = "alternating"
  /\ vwaa' = VeryWeakAlternatingAutomaton(graph.nodes, graph.top)
  /\ UNCHANGED <<formula, graph, gba, info, buchi, search>>

MakeGeneralized ==
  /\ pc = "alternating"
  /\ pc' = "generalized"
  /\ gba' = Generated(vwaa)
  /\ UNCHANGED <<formula, graph, vwaa, info, buchi, search>>

(* One turn of maximallyCollapseStates, which both purposes call first and *)
(* simplify again at its end.                                              *)
CollapseStates ==
  /\ pc \in {"generalized", "optimized"}
  /\ CanCollapse(gba)
  /\ gba' = Collapsed(gba)
  /\ UNCHANGED <<formula, graph, pc, vwaa, info, buchi, search>>

AnalyseComponents ==
  /\ pc = "generalized"
  /\ ~CanCollapse(gba)
  /\ pc' = "analysed"
  /\ \E order \in SetToSeqs(gba.initial) : info' = SccAnalysis(gba, order)
  /\ UNCHANGED <<formula, graph, vwaa, gba, buchi, search>>

Optimize ==
  /\ pc = "analysed"
  /\ pc' = "optimized"
  /\ gba' = Optimized(gba, info)
  /\ UNCHANGED <<formula, graph, vwaa, info, buchi, search>>

Degeneralize ==
  /\ pc = "optimized"
  /\ ~CanCollapse(gba)
  /\ buchi' = Degeneralized(gba)
  /\ pc' = IF WorthCollapsing(buchi') THEN "buchi" ELSE "done"
  /\ UNCHANGED <<formula, graph, vwaa, gba, info, search>>

(* One turn of the loop of the constructor, which ends when a turn has not *)
(* saved a state.                                                          *)
CollapseBuchiStates ==
  /\ pc = "buchi"
  /\ buchi' = BuchiCollapsed(buchi)
  /\ pc' = IF Cardinality(buchi'.states) < Cardinality(buchi.states) THEN "buchi" ELSE "done"
  /\ UNCHANGED <<formula, graph, vwaa, gba, info, search>>

(***************************************************************************)
(* A model of the formula: satSolve, after the analysis.                   *)
(***************************************************************************)

(* Mutant: a component that reaches a fair one will do.                    *)
IsLive(s) == info.status[info.component[s]] # "dead"

IsFair(s) == info.status[info.component[s]] = "fair"

(* The transitions of s as steps of a search: the guards are whole again.  *)
Arcs(s) ==
  {[to |-> t.to, fair |-> t.fair,
    guard |-> {u.v : u \in {x \in gba.trans[s] : x.to = t.to /\ x.fair = t.fair}}] : t \in gba.trans[s]}

Inside(s) == {a \in Arcs(s) : info.component[a.to] = info.component[s]}

(* Breadth-first search: the shortest paths along some arcs, from states   *)
(* of a set, that end in a goal arc.  A path is [from, to, arcs].          *)
RECURSIVE ShortestPaths(_, _, _, _)
ShortestPaths(paths, seen, arcs, goals) ==
  LET longer == {[p EXCEPT !.to = a.to, !.arcs = Append(@, a)] : <<p, a>> \in
                   {x \in paths \X UNION {arcs[s] : s \in DOMAIN arcs} : x[2] \in arcs[x[1].to]}}
      found == {p \in longer : p.arcs[Len(p.arcs)] \in goals}
      next == {p \in longer : p.to \notin seen}
  IN  IF found # {} \/ next = {} THEN found
      ELSE ShortestPaths(next, seen \cup {p.to : p \in next}, arcs, goals)

PathsFrom(starts, arcs, goals) ==
  ShortestPaths({[from |-> s, to |-> s, arcs |-> <<>>] : s \in starts}, starts, arcs, goals)

Guards(arcs) == [i \in DOMAIN arcs |-> arcs[i].guard]

(* bfsToFairComponent: first an initial state in a fair component.         *)
FindFair ==
  LET arcs == [s \in gba.states |-> Arcs(s)]
      fairInitial == {s \in gba.initial : IsFair(s)}
      paths == IF fairInitial # {} THEN {[from |-> s, to |-> s, arcs |-> <<>>] : s \in fairInitial}
               ELSE PathsFrom(gba.initial, arcs, {a \in UNION {arcs[s] : s \in gba.states} : IsFair(a.to)})
  IN  /\ pc = "analysed"
      /\ \E s \in gba.states : IsFair(s)
      /\ pc' = "fair"
      /\ \E p \in paths :
           search' = [target |-> p.to, current |-> p.to,
                      fairness |-> info.redundant[info.component[p.to]],
                      leadIn |-> Guards(p.arcs), cycle |-> <<>>]
      /\ UNCHANGED <<formula, graph, vwaa, gba, info, buchi>>

NoModel ==
  /\ pc = "analysed"
  /\ ~\E s \in gba.states : IsFair(s)
  /\ pc' = "done"
  /\ UNCHANGED <<formula, graph, vwaa, gba, info, buchi, search>>

(* bfsToMoreFairness                                                       *)
PathsToMoreFairness ==
  LET arcs == [s \in gba.states |-> Inside(s)]
  IN  PathsFrom({search.current}, arcs,
                {a \in UNION {arcs[s] : s \in gba.states} : ~(a.fair \subseteq search.fairness)})

(* bfsToTarget                                                             *)
PathsToTarget ==
  LET arcs == [s \in gba.states |-> Inside(s)]
  IN  PathsFrom({search.current}, arcs,
                {a \in UNION {arcs[s] : s \in gba.states} : a.to = search.target})

(* The loop of satSolve, while some condition is missing.                  *)
MoreFairness ==
  /\ pc = "fair"
  /\ search.fairness # gba.fairness
  /\ \E p \in PathsToMoreFairness :
       search' = [search EXCEPT !.current = p.to, !.cycle = @ \o Guards(p.arcs),
                                !.fairness = @ \cup p.arcs[Len(p.arcs)].fair]
  /\ UNCHANGED <<formula, graph, pc, vwaa, gba, info, buchi>>

IsClosed == search.current = search.target /\ search.cycle # <<>>

CloseCycle ==
  /\ pc = "fair"
  /\ search.fairness = gba.fairness
  /\ pc' = "model"
  /\ \/ IsClosed /\ UNCHANGED search
     \/ /\ ~IsClosed
        /\ \E p \in PathsToTarget :
             search' = [search EXCEPT !.current = p.to, !.cycle = @ \o Guards(p.arcs)]
  /\ UNCHANGED <<formula, graph, vwaa, gba, info, buchi>>

(* Mutant: the implication the other way round.                            *)
CanRollBack == search.leadIn # <<>> /\ Last(search.leadIn) \subseteq Last(search.cycle)

CanRoll == search.leadIn # <<>> /\ Last(search.cycle) \subseteq Last(search.leadIn)

(* The lead-in is rolled into the cycle.                                   *)
RollCycle ==
  /\ pc = "model"
  /\ CanRoll
  /\ search' = [search EXCEPT !.leadIn = Front(@), !.cycle = <<Last(@)>> \o Front(@)]
  /\ UNCHANGED <<formula, graph, pc, vwaa, gba, info, buchi>>

ReturnModel ==
  /\ pc = "model"
  /\ ~CanRoll
  /\ pc' = "done"
  /\ UNCHANGED <<formula, graph, vwaa, gba, info, buchi, search>>

TranslationNext ==
  \/ MakeAlternating \/ MakeGeneralized \/ CollapseStates \/ AnalyseComponents
  \/ Optimize \/ Degeneralize \/ CollapseBuchiStates
  \/ FindFair \/ NoModel \/ MoreFairness \/ CloseCycle \/ RollCycle \/ ReturnModel

(* A search of satSolve that does not meet its goal: the assertion on its  *)
(* queue fails, and there is no further step.                              *)
QueueIsEmpty ==
  /\ pc = "fair"
  /\ IF search.fairness # gba.fairness THEN PathsToMoreFairness = {}
     ELSE ~IsClosed /\ PathsToTarget = {}

TranslationOver == pc = "done" \/ QueueIsEmpty

(* The program goes on while it can: this is weak fairness of              *)
(* TranslationNext, with ENABLED written out, as every step changes        *)
(* something.                                                              *)
Progress == []<><<TranslationNext>>_translationVars \/ <>[]TranslationOver

TranslationSpec == TranslationInit /\ [][TranslationNext]_translationVars /\ Progress

(***************************************************************************)
(* Properties                                                              *)
(*                                                                         *)
(* sccAnalysis searches from every initial state, also from one that was   *)
(* reached from an earlier one, and then tears it out of its component     *)
(* (ComponentsOrdered).  What follows from the components is stated for    *)
(* the automata that this does not happen to.                              *)
(***************************************************************************)

SearchedTwice == info # None /\ info.searchedTwice

(* A node of the formula holds of a word now exactly if by some transition *)
(* of its state the conjunction holds next, and the automaton starts where *)
(* the formula holds (dnf and computeTransitionSet).                       *)
AlternatingUnfolds ==
  pc = "alternating" =>
    \A w \in Words : /\ Unfolds(vwaa, graph.nodes, w)
                     /\ StartsRight(vwaa, graph.nodes, graph.top, w)

(* Each automaton on the way accepts exactly the words that satisfy the    *)
(* formula: what fairness conditions are met, which transitions are        *)
(* dropped, which states are collapsed, removed and copied (genBuchi-      *)
(* Automaton.cc, collapseStates.cc, sccOptimizations.cc,                   *)
(* buchiAutomaton2.cc).                                                    *)
SameLanguage ==
  ~SearchedTwice =>
    \A w \in Words :
      /\ pc \in {"generalized", "optimized"} => GenAccepts(gba, w) = Holds(w, formula)
      /\ pc = "buchi" \/ (pc = "done" /\ buchi # None)
           => BuchiAccepts(buchi, w) = Holds(w, formula)

(* States are in one component exactly if each can be reached from the     *)
(* other, and transitions lead to components with lower numbers            *)
(* (strongConnected, which keeps the numbers of states that have left the  *)
(* stack).                                                                 *)
ComponentsExact ==
  pc = "analysed" /\ ~SearchedTwice =>
    LET reach == [s \in gba.states |-> ReachableFrom(gba, {s})]
    IN  \A s, t \in gba.states :
          /\ info.component[s] = info.component[t] <=> (t \in reach[s] /\ s \in reach[t])
          /\ t \in reach[s] => info.component[t] <= info.component[s]

(* "components can only reach lower numbered components"                   *)
(* (sccAnalysis.cc:31, asserted at :172), without the exception.           *)
ComponentsOrdered ==
  pc = "analysed" =>
    \A s \in gba.states : \A t \in gba.trans[s] : info.component[t.to] <= info.component[s]

Readings(guards) ==
  {w \in [DOMAIN guards -> Valuations] : \A i \in DOMAIN guards : w[i] \in guards[i]}

(* The answer of satSolve: no model only if no word satisfies the formula, *)
(* and a model whose every reading does, although the cycle was made of    *)
(* paths that each add some fairness, closed, and rolled back over the     *)
(* lead-in.                                                                *)
ModelRight ==
  pc = "done" /\ buchi = None /\ ~SearchedTwice =>
    IF search = None THEN \A w \in Words : ~Holds(w, formula)
    ELSE \A letters \in Readings(search.leadIn \o search.cycle) :
           Holds([letters |-> letters, back |-> Len(search.leadIn) + 1], formula)

(* The loops come to an end: collapsing, adding fairness, rolling; and no  *)
(* search inside a component runs out of states before it meets its goal   *)
(* (the assertions on toVisit in satSolve.cc).                             *)
Translated == <>(pc = "done" \/ SearchedTwice)
=============================================================================
