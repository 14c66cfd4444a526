--------------------------- MODULE StrategicSearch ---------------------------
(***************************************************************************)
(* The searches for the solutions of a strategy, FairStrategicSearch       *)
(* (srewrite) and DepthFirstStrategicSearch (dsrewrite): the caller asks   *)
(* for solutions, and processes of the tree of StrategicTasks are run one  *)
(* by one until one reports a solution to the root task.  The fair search  *)
(* goes around the circular list of processes; the other one always runs   *)
(* the first, and new processes come before the one that created them.  On *)
(* a branch that never ends it only adds to its list: such strategies are  *)
(* left to the fair search.                                                *)
(*                                                                         *)
(* NextBeforeRun, NewestNext and NothingFoundKept are mutants of the       *)
(* operator that follows them.                                             *)
(***************************************************************************)
EXTENDS StrategicTasks

CONSTANTS
  Meanings(_, _), \* expression, term -> its possible sets of solutions
  Roots,          \* the strategies searched for
  Start,          \* root -> the initial term
  Endless         \* those of Roots whose search never ends

ASSUME RootsAssumption == Roots \subseteq DOMAIN Expr

VARIABLES
  search,         \* "fair" or "depth"
  root,           \* the strategy, chosen at the start
  tree,           \* the executions and the variable contexts
  queue,          \* the processes, in the order they will be run
  pc,             \* "idle", or "search" in findNextSolution
  found,          \* the solutions that were returned
  done,           \* a call returned no solution
  outcomes        \* what the strategy means: its possible sets of solutions

vars == <<search, root, tree, queue, pc, found, done, outcomes>>

RootTask ==
  Extended(Task("root", NONE, EMPTY_CONTEXT, <<>>), [solution |-> <<>>, exhausted |-> FALSE])
FirstTree(strategy) ==
  NewDecomposition([heap |-> [id \in {ROOT} |-> RootTask], ahead |-> <<>>, bindings |-> NoBindings],
                   ROOT, Alone, Start[strategy], <<strategy>>)

Init ==
  /\ search \in {"fair", "depth"}
  /\ root \in Roots
  /\ root \in Endless => search = "fair"
  /\ tree = [FirstTree(root) EXCEPT !.ahead = <<>>]
  /\ queue = FirstTree(root).ahead
  /\ pc = "idle"
  /\ found = <<>> /\ done = FALSE
  /\ outcomes = Meanings(root, Start[root])

----------------------------------------------------------------------------
FindNextSolution ==
  /\ pc = "idle"
  /\ pc' = "search"
  /\ tree' = [tree EXCEPT !.heap[ROOT].solution = <<>>]
  /\ UNCHANGED <<search, root, queue, found, done, outcomes>>

Current == Head(queue)
Kind == tree.heap[Current].kind
IsOver == IF search = "fair" THEN tree.heap[ROOT].exhausted ELSE queue = <<>>

(* The list after a run that left g: the processes created are before the  *)
(* current one, which is there unless it requested its deletion, and those *)
(* that were deleted are not.                                              *)
Alive(g, processes) == Dropped(processes, ToSet(processes) \ DOMAIN g.heap)
NextBeforeRun(g) ==
  IF Len(queue) = 1 THEN Alive(g, g.ahead \o <<Current>>)
  ELSE <<queue[2]>> \o Alive(g, SubSeq(queue, 3, Len(queue)) \o g.ahead \o <<Current>>)
NewestNext(g) == Alive(g, <<Current>> \o g.ahead \o Tail(queue))
GoesOn(g) == Alive(g, Tail(queue) \o g.ahead \o <<Current>>)
StaysFirst(g) == Alive(g, g.ahead \o <<Current>> \o Tail(queue))

(* The end of a run: a solution is returned.                               *)
Ran(left) == \E g \in {left} :
  LET solution == g.heap[ROOT].solution
  IN  /\ tree' = [g EXCEPT !.ahead = <<>>]
      /\ queue' = IF search = "fair" THEN GoesOn(g) ELSE StaysFirst(g)
      /\ found' = found \o solution
      /\ pc' = IF solution = <<>> THEN "search" ELSE "idle"
      /\ UNCHANGED <<search, root, done, outcomes>>

Runs(kinds) == pc = "search" /\ ~IsOver /\ Kind \in kinds

Decomposition == Runs({"decomposition"}) /\ Ran(RunDecomposition(tree, Current))
Rewrite ==
  /\ Runs({"application", "match"})
  /\ \E value \in NextFound(tree, Current) : Ran(RunRewrite(tree, Current, value))
Call ==
  /\ Runs({"call"})
  /\ \E values \in NextFound(tree, Current) : Ran(RunCall(tree, Current, values))
Matchrew ==
  /\ Runs({"matchrew"})
  /\ \E match \in NextFound(tree, Current) : Ran(RunMatchrew(tree, Current, match))
NothingFoundKept ==
  /\ Runs({"application", "match", "call", "matchrew"})
  /\ NextFound(tree, Current) = {}
  /\ Ran(IF Kind = "application" THEN tree ELSE Die(tree, Current))
NothingFound ==
  /\ Runs({"application", "match", "call", "matchrew"})
  /\ NextFound(tree, Current) = {}
  /\ Ran(Die(tree, Current))
Remaining == Runs({"remaining"}) /\ Ran(RunRemaining(tree, Current))

NoMoreSolutions ==
  /\ pc = "search" /\ IsOver
  /\ pc' = "idle"
  /\ done' = TRUE
  /\ UNCHANGED <<search, root, tree, queue, found, outcomes>>

Next == FindNextSolution \/ Decomposition \/ Rewrite \/ Call \/ Matchrew \/ NothingFound
        \/ Remaining \/ NoMoreSolutions

(* The caller keeps asking, and a run ends.  Every state has a step, and   *)
(* every step changes something: this is WF_vars(Next), without ENABLED.   *)
Progress == []<><<TRUE>>_vars
Spec == Init /\ [][Next]_vars /\ Progress

----------------------------------------------------------------------------
Tasks == {id \in DOMAIN tree.heap : IsTask(tree.heap[id])}
Processes == DOMAIN tree.heap \ Tasks

(* Type invariant, with the assertion of StrategicSearch that a step gives *)
(* one solution at most.                                                   *)
TypeOK ==
  /\ pc \in {"idle", "search"} /\ done \in BOOLEAN
  /\ ROOT \in Tasks /\ tree.ahead = <<>>
  /\ Len(tree.heap[ROOT].solution) <= 1
  /\ \A id \in Tasks : tree.heap[id].vars \in Contexts(tree.bindings) \cup {EMPTY_CONTEXT}

(* Between two runs the lists are exact, whatever a run deleted: each      *)
(* execution is in the list of its owner, once, and in no other; each      *)
(* process is in the list of processes, once; and a task that has no more  *)
(* slaves is gone, as nothing would ever end it (strategicExecution.cc).   *)
ListsExact ==
  /\ TypeOK
  /\ \A id \in DOMAIN tree.heap \ {ROOT} : Owner(tree, id) \in Tasks
  /\ \A t \in Tasks : Range(Slaves(tree, t)) = {id \in DOMAIN tree.heap : Owner(tree, id) = t}
  /\ \A t \in Tasks : IsInjective(Slaves(tree, t))
  /\ \A t \in Tasks \ {ROOT} : Slaves(tree, t) # <<>>
  /\ Range(queue) = Processes /\ IsInjective(queue)
  /\ tree.heap[ROOT].exhausted <=> Slaves(tree, ROOT) = <<>>

(* The contexts that live tasks use are open, none that a call or matchrew *)
(* opened is used by another one, and the cached substitution is that of   *)
(* the context it says (variableBindingsManager.cc).                       *)
Opens(id) == tree.heap[id].kind \in {"call", "subterm"} /\ tree.heap[id].vars # EMPTY_CONTEXT
ContextsLive ==
  /\ \A id \in Tasks :
       tree.heap[id].vars # EMPTY_CONTEXT => Open(tree.bindings, tree.heap[id].vars)
  /\ \A s, t \in {id \in Tasks : Opens(id)} : tree.heap[s].vars = tree.heap[t].vars => s = t
  /\ tree.bindings.current # EMPTY_CONTEXT =>
       tree.bindings.substitution = ValuesOf(tree.bindings, tree.bindings.current)

(* Both searches enumerate the results of the strategy: no solution twice, *)
(* none that is not one, and the end only when all were given.             *)
Enumeration == INSTANCE SolutionEnumeration
Enumerates == Enumeration!Spec

(* The fair search finds every solution, also beside a branch that never   *)
(* ends (fairStrategicSearch.cc).                                          *)
FairFindsAll == search = "fair" => <>(Range(found) \in outcomes)

(* Seen sets end the iterations and the calls that come back to a term, so *)
(* that the caller is told in both searches.                               *)
Ends == root \notin Endless => <>done
=============================================================================
