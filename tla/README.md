# TLA+ models of Maude's model checker, strategy engine and object system

This directory models parts of `maudesmc`, the Maude interpreter extended with a model checker for systems controlled
by strategies: the machines with long-lived state on top of term rewriting. It holds TLA+ modules translated from the C++ under `src/src`, the TLC configurations that check them on
small instances, and theorems about them that TLAPS checks for every instance. Line numbers refer to the files of this
repository.

- [1. The system](#1-the-system)
- [2. Plan](#2-plan)
- [3. The nested depth-first search](#3-the-nested-depth-first-search)
- [4. The strategy-controlled state graph and its search](#4-the-strategy-controlled-state-graph-and-its-search)
- [5. Strategic searches and variable bindings](#5-strategic-searches-and-variable-bindings)
- [6. The object system](#6-the-object-system)
- [7. From LTL to automata](#7-from-ltl-to-automata)
- [8. What is checked](#8-what-is-checked)
- [9. What is proved](#9-what-is-proved)
- [10. Where the code and its documentation disagree](#10-where-the-code-and-its-documentation-disagree)
- [11. What is not modelled](#11-what-is-not-modelled)
- [12. Running it](#12-running-it)

## 1. The system

Maude rewrites terms. Most of `src/src` (matching, unification, normal forms, parsing, reflection) is algorithms over
terms; on top of it there are a few machines with long-lived state, whose steps interleave and whose correctness is an
ordering argument. These are the subject of this project.

| Component | State | Operations | What makes it correct |
|---|---|---|---|
| **LTL emptiness check**, `Temporal/modelChecker2`, `Higher/modelCheckerSymbol` | product states with four bit sets per system state, the C++ call stack, two result lists | `findCounterexample` and its mutually recursive searches | an answer, "none" only if no behaviour is accepted, otherwise a lead-in and a cycle that are accepted |
| **LTL to Büchi translation**, `Temporal`; **SAT solver**, `satSolve` | a table of subformulas, alternating, generalised and plain automata, components | constructors, `simplify`, `satSolve` | every automaton accepts the words of the formula; a model satisfies it |
| **Strategy-controlled state graph**, `Higher/strategyTransitionGraph`, `strategyTaskInfo` | states, substates, dependencies between them, a table of visited points per task, queues of processes, hand-kept reference counts | `getNextState(state, index)`; `commitState` and `onCheckpoint` called back by the processes | successors are those of the strategy, answers are final, every request is answered, nothing freed is used |
| **Search on a strategy graph**, `Higher/strategySequenceSearch` | parent, depth and verdict of each state | `findNextInterestingState`, `exploreState` | shows the terms from which the strategy ends or goes on, each once; rebuilds paths |
| **Strategy expressions and processes**, `StrategyLanguage` | a circular queue of processes `(term, stack)` | `run`, `decompose` of each strategy constructor | results are those of the strategy, each branch runs fairly |
| **Strategic execution tree and searches** (`strategicExecution`, `*Task`, `*Process`, `*StrategicSearch`) | a tree of tasks, each with a list of members; seen sets | `succeeded`, `finished`, `executionSucceeded`, `executionsExhausted` | each task is told of its end once, no process is used after it is deleted, no result is lost |
| **Variable bindings**, `variableBindingsManager` | contexts in reusable cells, with counts; a cached substitution | `openContext`, `closeContext`, `protect`, `instantiate` | a context keeps its values while it has users |
| **Object system** (`ObjectSystem`): event loop, timers, processes, sockets, external rewriting | files watched, timed callbacks, requests for exits, sockets with pending requests, replies to read | `eventLoop`, the messages of each manager, `doRead`, `doCallback`, `doChildExit`, ... | every event is delivered once, to a context that lives; the loop returns when it should |
| **Uncontrolled state graph and search** | states with their rewrite positions, parents | `getNextState`, `findNextMatch` | breadth-first, each state once |
| **Memory** (`Core/memoryCell`, `hashConsSet`) | arenas, a lazily swept free list, roots | `allocate`, `collectGarbage` | nothing reachable is reclaimed |
| **Theories, core rewriting, narrowing, built-ins, SMT, reflection, modules, parser, driver** | terms and tables of terms | pure or nearly pure functions | see section 11 |

How the modelled ones interact. The symbol for `modelCheck` has the negated formula translated to an automaton and runs
`ModelChecker2` on it and on a system, which is the plain state graph or a `StrategyTransitionGraph`. The check asks the
system for the successors of a state one index at a time; so does the command `search ... using`, which is the other
client of the strategy graph. The graph answers by running processes, which call it back: `commitState` when a rewrite is
done, `onCheckpoint` where an execution may loop without rewriting. The commands `srewrite` and `dsrewrite` run the same
processes without a graph, in a tree of tasks. Arguments of strategies are kept in the table of variable contexts.
The command `erewrite` alternates traversals of a configuration, whose objects send messages to the managers, with the
event loop, which calls the managers back.

All of this but the object system is sequential: the hard behaviours are not races of threads but re-entrant calls
between parts that share state, the order in which a client asks, and the order in which queued processes happen to run.
The object system has one thread too, but the world around it is concurrent: the clock, children that exit with their
signals, other ends of sockets, and the user.

Behaviours that are hard here, listed with their lines under `hazards` in `PROJECT.json`: marks kept around a deep
recursion; one set of visited pairs shared by many searches; an estimate of a count that decides whether an array is
indexed; substates absorbed by others while something still points to them; cyclic dependencies; reference counts;
imports from lists that still grow; a solution index shared by nested loops; states created by two explorations at once;
lists of tasks that are changed by the calls made while they are walked; reused cells; a signal between a test and a wait;
events collected before the callbacks that make them stale; requests that outlive their objects; components searched from
several initial states; optimisations of automata that are each sound on their own.

## 2. Plan

In order of importance. A to F and the bindings of I are done.

| | Modules | Subject | To prove or refine |
|---|---|---|---|
| A (done) | `BuchiProduct`, `ProductEmptiness`, `ModelChecker2` | nested depth-first search | marks, caches, nesting, stacks, the post-order argument, the safety part of the refinement of `ProductEmptiness` (proved); that it ends (TLC) |
| B (done) | `StrategySemantics`, `StrategyTransitionGraph` | strategy graph, root task | exactness, finality, liveness (TLC) |
| C (done) | `VariableBindings`, `StrategicTasks`, `StrategicSearch`, `StrategyResults`, `SolutionEnumeration` | tree of tasks and processes, `srewrite` and `dsrewrite` | exactness of the lists and of the contexts (proved); refinement of `SolutionEnumeration`, liveness (TLC) |
| C2 | extension of B by C | inner tasks, `descend`, the `matchrew` of the graph with its subgraphs | as B |
| D (done) | `StrategySequenceSearch`, on B | the clients of the graph: the model checker, and the search with its depth and validity | refinement of `SolutionEnumeration` (TLC) |
| E (done) | `LinearTimeLogic`, `LogicFormula`, `TransitionSets`, `AlternatingAutomaton`, `GenBuchiAutomaton`, `BuchiAutomaton2`, `LtlTranslation` | the chain of automata | language against the semantics of LTL (TLC); insertion of transitions (proved) |
| F (done but for the delivery of messages to objects) | `PseudoThread`, `RewritingContext`, `TimeManager`, `SocketManager`, `ProcessManager`, `ObjectSystem`, `ExternalRequests` | event loop, managers, external rewriting | refinement of `ExternalRequests` and all invariants (proved); liveness (TLC) |
| G | `MemoryCell` | lazy mark and sweep | nothing reachable is reused (proof) |
| H | `AcuTree` | red-black insertion and deletion | order and balance over bounded inputs |
| I (bindings done) | `VariableBindingsManager`, then `MetaOpCache` | reused cells, bounded caches | a context keeps its values (proved) |
| J | `RewriteSequenceSearch` | uncontrolled graph and search | each state once, shortest depth (proof) |
| K | `ModuleCache` | users of cached modules | planned last |

RECURSIVE operators stay in modules used by runs only: nothing can be proved in a module that reaches one.

## 3. The nested depth-first search

`ModelChecker2` models class `ModelChecker2` (`Temporal/modelChecker2.cc`) completely. Its four functions call each other
recursively; two of them are inlined into their callers (`FORCE_INLINE`). The C++ stack is kept as two sequences of frames:

| TLA+ | Code |
|---|---|
| `dfs1` | activations of `dfs1PropertyTransitions`, a frame being `[sys, from, t, i, at]`: system state, automaton state it came from, position `t` of the transition iterator, position `i` of the successor iterator of the inlined `dfs1SystemTransitions`, and where it stands: `edges`, `succs` or `nested` (in the second search) |
| `dfs2` | activations of `dfs2SystemTransitions` with the inlined `dfs2PropertyTransitions` |
| `allocated`, `dfs1Seen`, `onDfs1Stack`, `dfs2Seen`, `testedProps`, `trueProps` | `intersectionStates` and the bit sets of each `StateSet` |
| `path`, `cycle`, `cycleState` | the results |
| `phase = "unwind"` | the calls returning `true`: `Unwind2`, `Unwind1` assemble the counterexample, one return a step |

A guard of a transition is a BDD; it is modelled by the set of its branches, since a branch tells what is tested (and
remembered) and the value. Every valuation selects one branch and only one (`GuardsAssumption`). `Satisfies` and `Remember` follow `satisfiesPropositionalFormula`, reading the caches and not
the labels. `NextStates` is `ModelCheckerSymbol`'s automaton, which answers a deadlocked state as its own successor.

`BuchiProduct` says what acceptance is, with sets and closures and no search: cycles of the synchronous product, and runs
over a lasso word. `ProductEmptiness` is the abstract specification: eventually one answer, `none` only without an
accepting cycle, `found` only with a lasso that is a behaviour of the system and that the automaton accepts.
`ImplementsEmptiness` is the refinement, under weak fairness of the next step: the code is a terminating sequential
function with no wait in it, so it runs on until it returns.

## 4. The strategy-controlled state graph and its search

`StrategyTransitionGraph` models `Higher/strategyTransitionGraph.cc` for the root task, with the processes of
`StrategyLanguage` that work in it, for idle, fail, rule application, concatenation, union, `*`, `+` and tail calls
without arguments.

| TLA+ | Code |
|---|---|
| `graph.heap` | all `Substate` and `State` objects by address, with `alive` telling deleted ones |
| `graph.seen`, `graph.key` | `seen`, and the term and stack each state was created for |
| `graph.seenMap` | the table of the root's `TaskInfo` |
| `graph.at`, `graph.nr`, `graph.solution` | `currentSubstate`, `nrNextStates`, `solutionIndex` |
| `dependencyStack`, `asked`, `index` | the local of `getNextState` and its parameters |
| `Ask(s)` | the call, up to its loop, with the import of known transitions |
| `RunProcess` | one iteration of the inner loop: a whole `run`, with every callback it makes, and the self loop |
| `Retreat` | one iteration of the loop that goes back to a dependent |
| `FollowDependency`, `NextTurn`, `NoMoreStates` | the rest of the outer loop: the next dependency or a cycle to break, the import along the stack, `return NONE` |

Operators such as `CommitState`, `Checkpoint`, `MakeSelfLoop` and `SolveCyclicDependency` map a graph to a graph and stand for
the function of that name, all of it. The circular queue is a sequence that starts at `nextProcess`: a process created
by the running one is inserted just before it, which is the end. Reference counts are the code's own, and `Free` deletes
and cascades as the destructor does.

`StrategySemantics` gives the meaning the graph is compared with. A point is a term and a stack of strategy expressions;
`Closure` unfolds the top of the stack in every possible way without rewriting, `Moves` are the rewrites then possible,
`MayStop` says whether the empty stack is among them. The graph never uses it.

Assumptions of the model, and why they are fair:

- A stack is a sequence of nodes of the parsed strategy. `StrategyStackManager::push` gives equal numbers to stacks of the
  same nodes, and takes two calls without arguments to one strategy as the same (`callStrategy.cc:210`); a call is
  therefore the node named as its strategy.
- Calls are in tail position. Others create a task (section 11).
- `Rewrites` lists the results of `findNextRewrite` in the order they are found: rewriting itself is data.
- A client asks for the first successor that is not known yet. A request below it returns at once and changes nothing; a
  request beyond it is not made by any client in the repository (all of them go through the indices in order).

Fairness: weak fairness of the steps of `getNextState`, none of the client. The function is sequential and runs until it
returns; a client may stop asking at any time.

### The search

`StrategySequenceSearch` models class `StrategySequenceSearch` (`Higher/strategySequenceSearch.cc`) completely but for the
pattern, and is where `StrategyTransitionGraph`, which it EXTENDS, is given its clients (`ClientSpec`). A graph has one of two,
as its variable `makeSelfLoops` says, which is a parameter of the constructor in the code: the model checker has self loops
made and asks in any order (`ModelCheckerAsks`), and then there is no search; the search asks of a graph without: where
the C++ calls `getNextState`, the model takes the steps of a request (`Request`, `ServeRequest`) and goes on when it is
answered. So the search and the construction of the graph interleave as in the code.

| TLA+ | Code |
|---|---|
| `stateInfo` | `stateInfo`: parent, depth and flag of each state |
| `frames`, `SuccessorInDepth`, `ReturnFlag` | the recursive calls of `exploreState`, with the flag each has gathered so far |
| `place` | where `findNextInterestingState` goes on once `exploreState` returns; it is also where it resumes after a solution was shown |
| `explore`, `nextArc`, `nrStates` | `explore`, `nextArc`, and the local count by which new states are noticed |
| `seenSolutions`, `found`, `done` | the terms shown, by number and as the caller sees them; `NONE` was returned |
| `FirstIndex` | the term that has number 0 in the table of terms (section 10) |

A state that is shown always matches. `Promised` says what may be shown, by `StrategySemantics` alone: the terms of the
points that the strategy reaches and from which it stops somewhere or goes on forever, or where it may stop if normal forms
are searched for. A bound of n steps promises the same of every kind of search, as the comment at `:138` has it; for
normal forms the code does otherwise (section 10). Within a bound of two steps or more, it is deliberately weaker: nothing beyond the bound is shown, but not all that is nearer need be, because the depth
of a state is that of the path by which it was first found. A bound of 0 is no bound, as in the code. Fairness: the
search runs on (`WF` of `SearchNext`), since its caller, the command, keeps asking until there are no more solutions; of the
model checker only `getNextState` runs on, and `Ends` is said of searches only.

## 5. Strategic searches and variable bindings

`StrategicTasks` models the executions of `StrategyLanguage`, tasks and processes, for every kind of strategy expression:
idle, fail, rule application (also with strategies for its conditions), concatenation, union, `*`, `+`, the conditional and
what is defined by it (`or-else`, `not`, `test`, `try`, `!`), `one`, tests, `matchrew`, and calls, with and without
arguments, in tail position or not. `StrategicSearch` runs them as `FairStrategicSearch` and `DepthFirstStrategicSearch` do.

| TLA+ | Code |
|---|---|
| `tree.heap` | all `StrategicExecution` objects by number: `BranchTask`, `CallTask`, `OneTask`, `RewriteTask`, `SubtermTask` and its `ChildTask`s; `DecompositionProcess`, `ApplicationProcess`, `MatchProcess`, `CallProcess`, `SubtermProcess` and the `RemainingProcess` of `SubtermTask` |
| `slaves` of a task | its list of executions, in order |
| `queue` | the circular list of processes, from the one to be run next |
| `tree.ahead` | what a run has inserted in that list so far, before the process that runs |
| `tree.bindings` | the `VariableBindingsManager` |
| `found`, `done`, `pc` | solutions returned, `NONE` returned, whether a call of `findNextSolution` is active |
| `Finished`, `Succeeded` | `StrategicExecution::finished` and `succeeded`, with every callback (`executionSucceeded`, `executionsExhausted`) and deletion they cause |
| `Decompose` | the virtual `decompose` |
| `RunDecomposition`, `RunRewrite`, `RunCall`, `RunMatchrew`, `RunRemaining` | the virtual `run` |
| actions `Decomposition`, `Rewrite`, `Call`, `Matchrew`, `NothingFound`, `Remaining` | one turn of the loop of `findNextSolution`: one whole `run` |

What calls itself in the code is written as a recursive function of a number of turns, so that it can be reasoned about:
`FinishNext` is one call of `finished`, which may lead to that of the owner, and `Ended` all of them; `DeleteNext` deletes one
execution and puts its slaves before what is left, and `Deleted` goes on until nothing is. The number of executions bounds
both. `Choose` and `NewSubtermTask` go through the arguments of a union and the children of a `matchrew` likewise.
`StrategyAssumption` says of the strategies what the parser and the checks of definitions guarantee (the parts of an
expression are expressions, unions and `matchrew`s have some, the right hand sides of definitions are expressions), and
`RootsAssumption` that what is searched for is an expression. Rules, matches and terms are arbitrary. What a
strategy means, `Meanings`, is a constant of `StrategicSearch`, to which the run gives the `Outcomes` of `StrategyResults`.

A run is one step, because nothing can come in between; what makes it hard is that it calls back and forth, and deletes,
inside of it. The order in which matches and rewrites are found is left open. `StrategyResults` is the reference: the set
of results of an expression, as a closure over points, with no task, list, seen set or context. Because `one` keeps any
result, an expression has several possible sets of results (`Outcomes`). `SolutionEnumeration` is the abstract
specification, shared with section 4: solutions are given one at a time, each once, all from one outcome, and the end
is told only when an outcome is complete.

`VariableBindings` models the table of contexts as operations on a record: contexts are numbered from 1 and
`EMPTY_CONTEXT` is 0 (-1 in the code). A context of a tail call is shared with an equal one of the same group (its filter).
`VariableBindingsManager` is the table on its own, used by any clients that close what they opened or protected; the variable
`clients` is what they hold, and is not in the code. Its variables, initial states and steps have names of their own
(`tableVars`, `TableInit`, `TableNext`), so that it can be checked beside the searches (section 8).

Left out, and why it does not matter to the properties: stacks of strategies are hash-consed in the code and are
sequences here; a rule with the wrong number of condition strategies is rejected before; tests and patterns read the
values of outer variables from the table, as `buildInitialSubstitution` does, without instantiating; aborts by the user
leave the loop early. The depth-first search is not run on strategies with an endless branch, on which it may run forever. A
`CallTask` that is deleted because its owner dies is deleted by the owner's destructor and keeps its context in use for
ever (`callTask.cc:117` closes it only when told of its end): contexts may be lost, which `ContextsLive` allows.

Fairness. `Progress == []<><<TRUE>>_vars`: the caller asks again and a run ends. It is weak fairness of `Next` without
ENABLED: every state has a step and every step changes something.

## 6. The object system

| Module | Code |
|---|---|
| `PseudoThread` | the event loop: `pseudoThread.cc`, `pseudoThread-ppoll.cc`, `pseudoThreadSignal.cc` |
| `RewritingContext` | what `ObjectSystemRewritingContext` keeps for the managers: replies to read, external objects |
| `TimeManager`, `SocketManager`, `ProcessManager` | `TimeManagerSymbol`, `SocketManagerSymbol`, `ProcessManagerSymbol`: their messages and callbacks; and the kernel's side, as far as the code can tell |
| `ObjectSystem` | `externalRewrite` and `interleave`, all of the above together, and the rest of the world |
| `ExternalRequests` | the abstract specification |

The thread is cut where something else may happen in between. `pc` is the place: `rewrite` (a traversal of the
configuration, in which objects send messages), `waitpid` (inside `waitForExit`, between the request for an exit and the look
at the child), `wait` (between two calls of the loop), and the places of `eventLoop`: `loop`, `callbacks`, `decide`, `block`,
`poll`, `fds`, `children`, `unblock`, `again`, `return`. Its locals are in `loop`. Between any two of these steps the clock
may tick (`Tick`), a child may exit (`ChildEvent`), the network or the other end of a socket may do something
(`NetworkEvent`) and the user may interrupt (`UserInterrupt`); a user may also stop the rewriting, continue it, or give
another command, which destroys the context and has the managers clean up (`LimitReached`, `Continue`, `NewContext`).

Signals. `sigchld` says whether the handler is installed, the signal blocked, and one pending; a signal that arrives while it
is not blocked sets `exitedFlag` at once. Signals are not counted, as in POSIX. When a file is ready and a signal pending,
`ppoll` may report either.

Sockets. `chan` is the kernel's socket: whether something can be read, what the other end does (open, finished writing,
gone), whether an error was detected, and how much can be written; `activeSockets` is the manager's. A text is one unit
longer than the buffer takes, so that a partial write is always possible. Descriptors are the lowest that are free. An
exit of a child is always possible, so `signalProcess` adds nothing to it. Errors of the kernel that persist until the
socket is closed are `broken`; asking for one with `getsockopt` clears it. The order in which a destroyed context cleans up
its objects is left out: each clean-up touches its own object only.

`ExternalRequests` knows requests, each about an object: made while rewriting, answered while waiting, once, or given up
with the object or the context; rewriting ends by itself only if none is pending and every answer was read. In the
refinement (`Pending`) a timer that runs has asked for a `timeOut`, a child waited for an `exit`, and a socket what its state
waits for: to `read` (or to accept), to `write` or to `connect`. A periodic time-out is `Recurrent`. A client that is still
connecting is not an object of its context yet, is not cleaned up with it, and its request pends on: it is `Lingering`.

Fairness. Weak fairness of the program (`Program`, all steps of the thread) and of the clock. None of children, peers,
network or user: nothing makes them act. External rewriting ends when nothing is pending (`done`), so that deadlock is not
checked.

## 7. From LTL to automata

| Module | Code |
|---|---|
| `LinearTimeLogic` | none: the meaning of a formula over ultimately periodic words, the reference |
| `LogicFormula` | `logicFormula.cc`: the table of shared subformulas |
| `TransitionSets` | `transitionSet.cc`, `rawTransitionSet.cc` |
| `AlternatingAutomaton` | `veryWeakAlternatingAutomaton.cc` |
| `GenBuchiAutomaton` | `genBuchiAutomaton.cc`, `collapseStates.cc`, `sccAnalysis.cc`, `sccOptimizations.cc` |
| `BuchiAutomaton2` | `buchiAutomaton2.cc` |
| `LtlTranslation` | the constructors one after the other, and `satSolve.cc` |

`LtlTranslation` has one action per stage (`TranslationInit`, `TranslationNext`): the constructors, each turn of the loops that collapse states, the analysis
of components, the optimisation by components, the degeneralisation; and for the solver the search for a fair component,
each path that adds fairness, the path that closes the cycle, and rolling the lead-in into it. Each stage is compared with
`LinearTimeLogic` on words (`GenAccepts`, `BuchiAccepts`).

Abstractions. A BDD over propositions is the set of the valuations it is true of, and a map from targets to BDDs the set
of pairs of a target and a valuation; so that guards are compared by meaning, as BDDs are. Maps are walked through in the
order of numbers of formulas and BDDs, which depends on how a formula was built: insertion into a transition set does not
depend on it (section 9), and where a result does depend on it the model leaves it open: the order of the initial states in
the analysis, and which of several shortest paths a breadth-first search finds. States and fairness conditions keep their
names and are not renumbered. What `satSolve` answers is given by guards, and the symbol prints a prime implicant of each:
`ModelRight` asks that every reading of the guards is a model. Formulas are in negation normal form, as the symbols build
them. `and` and `or` have two arguments. `veryWeakAlternatingAutomaton.cc:98` says that nothing is done for false, yet
an until whose transitions are empty is appended to `finalStates` twice, which is harmless, as it is for a set here.

Fairness. `Progress` is weak fairness of `TranslationNext` with ENABLED written out: the program goes on unless it is done or
a search of `satSolve` has run out of states (`QueueIsEmpty`, where the assertion on its queue would fail). `Translated`
says that the latter does not happen. The constructors return, so deadlock is not checked.

## 8. What is checked

| Run | Instance | Result |
|---|---|---|
| `model_checking` | some 440 formulas over two propositions, with every order of the initial states; 1,458 systems (three states, each with one of nine successor lists, two labellings) against four automata | twelve properties hold; 123 thousand states |
| `strategy_graph` | ten strategies over three terms and three rules, with every order of requests; thirteen searched over four terms, four kinds of search, bounds 0 to 3 | eight hold; 21 thousand states |
| `strategic_search` | 37 strategies, fair and (for those that end) depth first, matches in any order; a table of three contexts with two values, two groups of tail calls and two users of each | nine hold; 54 thousand states |
| `events` | two timers, two children, clock up to 3, four messages, two contexts, one interrupt | seven hold; 265 thousand states |
| `sockets` | two descriptors, a child, three messages, two contexts, two events of the network | four hold; 387 thousand states |
| `vanishing_step`, `stale_dependency`, `absorbed_solution`, `initial_twice`, `bounded_normal_form` | one strategy each | each finds the disagreement of section 10 |
| `split_components` | one formula | the same |
| `output_before_exit` | two children, four descriptors, four messages, one event of the network | the same |

Three of the passing runs check two things side by side. In `strategic_search` a behaviour is that of a search or that of
a table of contexts (`subject`); what the search needs of its fairness and its end is not asked of the table, which has safety
properties only. In `model_checking` the translation of a formula is followed by a search for an accepted behaviour, in this
order, as in the code. The automata that are searched are small ones written by hand, as the proofs about the search are for
any automaton: each formula is followed by the least search, and each search follows the translation of false. In
`strategy_graph` the graph has one client or the other.

A type invariant is part of `TypeOK`, `NothingDangling`, `ListsExact` and `ObjectsExact`, one for each of the larger
modules.

**`model_checking`**, the search. `TypeOK`; `StackMarksExact`: the marks of the first stack are its active pairs; `StacksAreARun`: the
two stacks spell a run of the product over the true labels; `Dfs2MeetsAllocatedStates`: the assertion of
`dfs2SystemTransitions`; `PropositionCacheFaithful`; `Dfs2SeenIsDead`: outside the second search the pairs it visited are
closed under successors and none is on the first stack, which is why one shared set suffices;
`ImplementsEmptiness`. Three system states make deadlocks, self loops, joins, two disjoint cycles, a cycle entered at
either of two points, and both orders of a branch, in every combination. The automata are the shapes formulas give:
`[]<>p` (deterministic), `<>[]~p` (a nondeterministic choice, a trap), one with two initial states, two accepting states
and a guard over two propositions, so that the tables are shared by two top-level searches, and that of false, without
any initial state. The search ends, so deadlock is not checked.

**`model_checking`**, the translation. `AlternatingUnfolds`: a subformula holds of a word exactly if some transition of its state leads to
subformulas that hold of the rest; `SameLanguage`: every generalised and plain automaton accepts exactly the words of the
formula, before and after each optimisation; `ComponentsExact`; `ModelRight`; `Translated` (liveness). The formulas are
all combinations by five operators of eight with eleven small ones, which have nested untils and releases, fairness and
persistence, and six larger ones, mostly with two or more fairness conditions. The words are all
those of up to two letters, and those with two letters repeated after a first one, 100 in all. The operands have
a temporal depth of two at most, and a cycle of two letters after a first one is enough for a promise to be met, broken and made again. `SameLanguage`, `ComponentsExact` and `ModelRight` make an
exception for automata with an initial state that is searched twice (section 10).

**`strategy_graph`**, asked by the model checker. `NothingDangling`: what is referred to is not deleted; `SuccessorsExact`: when `NONE` has
been answered for a state, its arcs are the rewrites of its point, each to a state that has the moves of the reached point,
and it has a way to stop exactly if the strategy may stop; `CountAccurate`: when the loop is left the requested successor
exists; `AnswersAreFinal`: a successor keeps its index and none is added after `NONE`; `EveryRequestAnswered`. The
strategies are `r *`, `r +`, `(q | r) *`, `idle *`, `(r | idle) *`, `fail | q`, a recursive call, two that
reach one point by two ways, early and late (shared substates, absorption), and a pair of mutually recursive calls (a cycle
of dependencies). The term graph has a cycle, a rule with two results and a rule that changes nothing. `NONE` is
returned by every state in some behaviour, so that `SuccessorsExact` is evaluated with every set of exhausted states.
The client interleaves requests to all the known states, which is where imports from half-explored substates, and
absorption of a state asked for earlier, come from.

**`strategy_graph`**, searched. `Enumerates`: the search refines `SolutionEnumeration` with the outcomes `Promised`; `PathsKnown`:
each state has a parent with a transition to it and is one step deeper, and no state is missed by either exploration; `Ends`.
The strategies have cycles, ways of different lengths to a term, steps after which they fail, absorbed substates and
mutually recursive calls; most are reached by both explorations, in either order. The properties of the graph are checked under
this client too, without self loops. Normal forms are searched for without a bound, and the initial term has the number 0;
`bounded_normal_form` and `initial_twice` are about the rest. The search ends, so deadlock is not checked.

**`strategic_search`**. `ListsExact`: between two runs lists of slaves and of processes are exact and no task is left without
slaves; `ContextsLive`: contexts in use are open, not shared by accident, and the cached substitution is current;
`Enumerates`: the refinement of `SolutionEnumeration`; `FairFindsAll`: the fair search finds every solution also if
another branch never ends; `Ends`. Thirteen small strategies have each kind of expression, seen sets that matter, an
iteration that comes back to a term, conditions with several solutions, tail calls with arguments, `matchrew` with up to
three subterms and nested in a call; the others are sequences and unions of two of them. `ListsExact` and `ContextsLive`
are also proved, for any strategies.

**`strategic_search`**, the table. `ClientsServed`: a context has as many users as clients, and the values they bound;
`FreeExact`: each cell without users is in the queue of free cells, once; `CacheCurrent`: the cached substitution is that of a
context in use; `SharedOnce`. Three cells and two users are enough for a cell to be freed, reused and shared while
another one is cached. All are also proved, for any bounds.

**`events`**. `RequestsExact`: the map of callbacks holds exactly those a timer may cancel, in order, and exits are asked for
exactly for the children waited for; `NoStaleContext`: no pending event leads to a destroyed context; `ExitNotLost`: while a
child waited for is a zombie, something will make the loop look; `ObjectsExact`: external objects are those the
managers have, and descriptors are open exactly as long as their sockets; `KeepsPromise`: the refinement of `ExternalRequests`;
`TimersGoOff` and `ExitsReported` (liveness). Two timers make callbacks that change each other's; two ticks let a
periodic one fall behind; two children make one exit be found when looking for another. All but the liveness is also proved.

**`sockets`**. `WatchedExact`: a file is watched for exactly what its socket waits for; `KeepsPromise`; `SocketsAnswered`: a
read is answered once the other end is done, and a write goes on when there is room. Two descriptors are a client and
another one, a server and a client it accepted, or the two of a child; two events let data, an end of file, room or an error
come one before the other. `NoStaleContext` has two contexts here too: only a client that is still connecting outlives
its own (section 10). Liveness is stated by `[]<>`: nothing that can be answered stays so for ever.

**`output_before_exit`**. `OutputBeforeExit`: the exit of a child is not reported while its output is to be read and a read is
pending. It takes two children, the first of which only has the loop look at all requests.

The strategies of `vanishing_step`, `stale_dependency` and `absorbed_solution` are not among those of the passing run, nor are
searches for normal forms within a bound and initial terms with another number than 0. The automata with an initial
state that is searched twice are in it, with an exception in the three properties they would violate.

Every property of a passing run has a mutant in `PROJECT.json`: an operator of the model with one plausible slip (a lost
reference, a missing test, a correction left out), which TLC must find to violate the property. Those operators are placed
just before the one they vary and are not used otherwise.

## 9. What is proved

**`ModelChecker2Proofs`**, for every set of systems and automata that meet the assumptions of `ModelChecker2`
(`SystemsAssumption`: states are numbers, 0 among them, and lists of successors are of states; `AutomataAssumption`;
`GuardsAssumption`: a BDD has one branch for every valuation):

| Theorem | Statement |
|---|---|
| `TypeCorrect` | `Spec => []TypeOK` |
| `RecursionWellNested` | `Spec => []WellNested`: waiting activations stand at their call, the second search runs while the innermost activation of the first waits for it, and only then |
| `CachesFaithful` | `Spec => []PropositionCacheFaithful` |
| `MarksExact` | `Spec => []StackMarksExact` |
| `StacksSpellRun` | `Spec => []StacksAreARun`: the calls follow edges of the product over the true labels |

`TypeOK` is not inductive: the step that returns to a caller indexes its caller's frame, so one must know where the caller
stands. `Nested` adds it: both stacks are sequences in which every frame but the last is at its call (`Calls`), with lemmas
on what popping, pushing and replacing the top preserve (`CallsPop`, `CallsAppend`, `CallsSetTop`). `NestedStep` has one step
per action. The caches are independent of the stacks except for the typing of the frame whose guard is evaluated;
the branch that the cached valuation selects is the one the labels select because the cached valuation equals the label,
which is the invariant itself. `MarksExact` needs, besides nesting, that a pair is marked only when it was not seen, and
that marked pairs are seen, so that no pair is on the stack twice and removing the mark of the top removes no other's. `StacksSpellRun` sees the two stacks as
chains: a root set, and a relation between a frame and the next (`Chain`, with lemmas for replacing, pushing and popping the
top). A replaced frame keeps its pair of states, so it stays linked to its caller; a pushed one is linked because the
successor comes from the successor list and because, by the faithfulness of the caches, a guard the search takes is one that
the labels satisfy (`SatisfiedMoves`). The root of the second chain depends on the top of the first, which stands still
while the second search runs: this is where `Nested` is needed.

**`NestedSearchProofs`**, under the same assumptions:

| Theorem | Statement |
|---|---|
| `SecondSearchMeetsAllocated` | `Spec => []Dfs2MeetsAllocatedStates`: the assertion of `dfs2SystemTransitions` |
| `SeenIsDead` | `Spec => []Dfs2SeenIsDead`: one set of visited pairs may serve all second searches |

This is the post-order argument. `FirstSearch` says what the first search has done: every frame has visited what the
transitions and successors before its own lead to (`Worked1`, kept along the chain of frames), and so a pair it has come back
from has all its successors visited, and the states of these allocated (`LeftExplored`). `SecondSearch` says that only the
root of a second search is both visited by it and on the first stack (`OnlyRootOnStack`), that a visited pair is still open
or has all its successors among the dead, which are visited and not on the first stack (`VisitedIsOpenOrDead`), and that an
accepting pair the first search has come back from lies on no cycle. The last is said by a certificate, a closed set that has
the successors of the pair and not the pair (`OnNoCycle`), because when a second search ends without a cycle the visited
pairs are such a set, and because nothing that happens later can invalidate it. The two invariants need each other: a
second search meets only what the first has visited because it starts when its root is fully explored.

In the same module, with `FinitenessAssumption` (the sets of states are finite, without which the search need not end):

| Theorem | Statement |
|---|---|
| `AnswersAreRight` | `Spec => Emptiness!Init /\ [][Emptiness!Next]_(Emptiness!vars)`: `ImplementsEmptiness` without its fairness |

`none` is right because `FirstSearch` then makes the visited pairs closed under successors and
`SecondSearch` gives each accepting one a certificate. `Reach`, by which `BuchiProduct` says what a cycle is, is computed by a
recursive function over the subsets of the finite set of pairs; it is shown to be the least closed set (`ReachIsLeast`)
by well-founded induction on what is not in the set yet, which is all that is used of it. `found` is right
by `WayBack`: while the calls return, what `path` and `cycle` hold is spelled by walks of the product which
the activations left to return lead to, and the cycle, once it is closed, has an accepting pair.
`WalksMakeLasso` turns the two walks into a run over the lasso word.

**`VariableBindingsProofs`**, for any values, filters and bounds of `VariableBindingsManager`:

| Theorem | Statement |
|---|---|
| `Typing` | `TableSpec => []TableTypeOK` |
| `ClientsAreServed` | `TableSpec => []ClientsServed` |
| `FreeCellsExact` | `TableSpec => []FreeExact` |
| `CacheIsCurrent` | `TableSpec => []CacheCurrent` |
| `EqualContextsShared` | `TableSpec => []SharedOnce` |

The invariant `Good(b, k)` is a conjunction of these, stated for any table `b` and any clients `k`, and of `Blank`: those
without a client hold no values. `openContext` always opens a cell, and if an equal context is there to share closes it again and
protects the other one; with `Good` a statement about tables, its proof (`OpenForGood`) composes `OpenGood`,
`CloseGood` and `ProtectGood`, in states that the specification does not stop at. `Once` holds in between too, because the
cell that is only compared has no filter yet: it is entered among those that can be shared when no equal one was found.

**`TransitionSetsProofs`**: `InsertRepresents`, `RepresentedOnce` and `OrderIrrelevant`. A set built by `TransitionSet::insert`
holds exactly the transitions inserted that none of the others subsumes, because subsumption is transitive and asymmetric;
so it depends on what was inserted and not on the order. This is why the model may insert in one order where the code
follows the numbers of formulas and BDDs.

**`ObjectSystemProofs`**, for any number of timers, children, descriptors, contexts, messages and events of the network,
and any bound of the clock (`ThreadAssumption`, `TimerAssumption`, `SocketAssumption`, `ObjectAssumption`, which say that
bounds are numbers, that descriptors are finitely many, and that process numbers and periods are positive):

| Theorem | Statement |
|---|---|
| `RequestsAreExact` | `Spec => []RequestsExact` |
| `ContextsAreAlive` | `Spec => []NoStaleContext` |
| `ExitsAreNotLost` | `Spec => []ExitNotLost` |
| `FilesAreWatched` | `Spec => []WatchedExact` |
| `ObjectsAreExact` | `Spec => []ObjectsExact` |

`Inv` has seven parts, each with a lemma for the steps that touch it and one for those that do not. `TimersOK`: the map
of callbacks is ordered and has one entry for each running timer and no other. `ChildrenOK`: the list of exits asked for
has no duplicates and is the children waited for, and the one that `waitForExit` is looking at, of
which `RequestsExact` does not say, and its steps need, that it is a child not waited for yet. `ExitsOK` makes `ExitNotLost` inductive: a child that was looked at
before it exited, while the signal is blocked, has left one pending. `SocketsOK` says what combinations of bits a socket
can be in (it waits for one thing, but for a stream, which may read and write at once), without which clearing a bit would
not be known to leave the file watched for the rest. `FilesOK`: the list of files has each watched one once. `ObjectsOK`:
external objects are the managers' entries. The lists are changed by inserting in order, removing and filtering.

**`ListProofs`** holds the lemmas about lists that this module and the next one share: what inserting, removing,
filtering (`Dropped`), joining and taking the first element do to the set of elements and to injectivity. The recursive
function under `Dropped` is handled by induction on sets of positions (`StepByStep`), as a least
counterexample of a well-founded order, since induction over an operator is out of reach.

**`PromiseProofs`**, under the same assumptions:

| Theorem | Statement |
|---|---|
| `PromiseKept` | `Spec => KeepsPromise`: `ObjectSystem` refines `ExternalRequests` |

Each step is mapped to the step of `ExternalRequests` that it is, or to a stutter: a message asks for or takes back
requests of one object (`Message`), a callback answers one (`Answer`) or ends an object (`Close`), and a change of context
leaves the lingering ones. Besides `Inv`, which makes the pending requests those the loop knows of, the proof needs
`TurnOK`, about one turn of the loop: its status says that nothing is pending only if no file is watched, no exit and no
callback is asked for, and while its status does not say that an event was handled there is no unread reply. Otherwise the
loop could return as if nothing were to be waited for, with an answer made in the same turn, and rewriting would end
before it was read. `PendingOf` splits the requests into timers, children and sockets, so that a step of one manager is
compared with its own part only.

**`StrategicSearchProofs`**, for any strategies, rules, matches and terms, and any possible results (`StrategyAssumption`,
`RootsAssumption`):

| Theorem | Statement |
|---|---|
| `ListsExactAlways` | `Spec => []ListsExact`: the lists of slaves and of processes, and no task without slaves, between any two runs |
| `ContextsLiveAlways` | `Spec => []ContextsLive`: the contexts of the tasks are open and not mixed up, the cached substitution is right |

The difficulty is within a run, which calls back, ends tasks and deletes, while both properties are false. `Growing(g, P,
U, K, H)` is what holds there: the executions are a tree, the lists of slaves are exact but for `U`, which have
unlinked themselves and will be deleted; each task has slaves but for `K`, which are about to end; contexts have one user each but
for the calls in `H`, which were told of their end and have closed theirs; and the processes are those in the list before
the run, `P`, and those it inserted, `ahead`. That the executions are a tree is said by sets (`Owned`: a set without the
root has a member whose owner is outside), which is all that is needed of it: who inherits its context has one
that is open (`AllOpen`), a tree without processes is the root alone (`ProcessLeft`), and what is deleted is closed under
ownership.

- Creation (`NewExecutionGrows` up to `NewSubtermTaskGrows`) and callbacks (`SucceededGrows`, `ExhaustedGrows`) keep
  `Growing`, each with its `U`, `K` and `H`. `succeeded` has the order that is easy to get wrong: it unlinks, calls back, and
  only then looks, at links that the callback left as they were, whether the execution was the only one.
  `SucceededSettled` goes through its three ends: the owner dies, had this slave only, or goes on.
- `EndedLemma`: calls of `finished` follow owners, each unlinks its execution before it asks whether there are others,
  and ends before the executions do, since each one adds to those that will be deleted (`Leaving`), never the root.
- `DeletedLemma`: what is deleted is what was listed and its slaves (`Deleting`), each once, and the contexts of the
  `matchrew`s among them; what is left is again `Growing`, with `U`, `K` and `H` empty.

`Settled(g, P)` is `Growing` with these empty, and what the root was told: at most one solution, and that it is exhausted
exactly if it has no slaves. There is one lemma for each kind of run (`DecompositionSettled`, `RewriteSettled`,
`RunCallSettled`, `RunMatchrewSettled`, `RemainingSettled`, and `ReadyDies` for a process that finds nothing), and
`QueueLemma` says that the list of processes after it has those that are left, once. The invariant `Inv` is `Settled` with
the list of processes and an empty `solution` while a call of `findNextSolution` is active. That the fair search never runs
out of processes before its root is exhausted is part of the proof (`RunStarts`).

Only model-checked:

- liveness, which needs fairness: that the nested search ends (the rest of `ImplementsEmptiness` is proved), `TimersGoOff`,
  `ExitsReported`, `SocketsAnswered`, `EveryRequestAnswered`, `Ends`, `FairFindsAll` and `Translated`;
- that `srewrite`, `dsrewrite` and the search on a graph enumerate the results of a strategy (the refinements of
  `SolutionEnumeration`): what a strategy means is defined with RECURSIVE operators, about which TLAPS proves nothing;
- everything else about the strategy graph, the search on it and the chain of automata (but for the insertion of
  transitions): these modules follow the recursion of the code and of LTL with RECURSIVE operators. `SuccessorsExact`,
  `CountAccurate` and `SameLanguage` hold on the instances of their runs and not on all (section 10).

## 10. Where the code and its documentation disagree

With a run that shows it:

1. `vanishing_step`. `commitState` is called when "A rewrite (or other atomic operation) has been done"
   (`strategyTransitionGraph.hh:112`). If the reached point is known as a substate and not as a state, it becomes a
   dependency (`strategyTransitionGraph.cc:371`): the rewrite is not a transition, and the arcs of the substate become
   arcs of the state that was rewritten. `(r *) *` from a, with r swapping a and b, is enough. The initial state has an arc r to
   the state of b, as it should. The rewrite of b reaches a at a point known as a substate, whose arc r leads to that
   same state of b: it is imported, so that b gets an arc r to itself, and the step from b to a is lost.
2. `stale_dependency`. "At this point nrNextStates is accurate" (`:216`) fails after the current substate, entered as a
   dependency, is absorbed: its dependent still points to the absorbed one, and `nextStates` is indexed past its end (`:224`).
3. `split_components`. Components "can only reach lower numbered components" (`sccAnalysis.cc:31`, asserted at `:172`), but
   the search starts anew from every initial state, also from one that was reached from an earlier one (`:43`). That state is
   taken out of its component, components that were fair together no longer are, and the automaton loses words.
4. `absorbed_solution`. Absorption is an "(Optional optimization ...)" (`strategyTransitionGraph.cc:595`), but its test
   (`:578`) does not look at `hasSolution`. Without self loops a state where the strategy may stop can be absorbed by one from
   which it fails, and the search then shows neither. The other way round, the absorber may get the mark of a solution that
   is not its own: with `(l ; once) | (l ; (idle | (idle ; idle ; once)))` the process of the absorbed state reports that it may
   stop there, the state is absorbed in the same turn, and the mark is put on the current state, which is the absorber by then
   (`:145`). That strategy is therefore kept out of `strategy_graph`.
5. `bounded_normal_form`. "Only valid states whose depth is within bounds are visited (if we are looking for solutions, the
   children of explore may need to be generated ...)" (`strategySequenceSearch.cc:138`), but the condition (`:142`) skips states at
   the bound exactly if normal forms are searched for: under `r *` from a, a search for normal forms within one step
   shows a and not b. The search without strategies does look at them.
6. `initial_twice`. The initial state is a "Special case", not to be given again (`strategySequenceSearch.cc:104`, `:112`), but
   what is marked as shown is the number of the state, 0 (`:116`), where the index of its term is meant (`:264`). If the initial
   term has subterms, which are inserted before it, it is shown once more when a rewrite leads back to it. (And the
   subterm with index 0 is never shown: with `FirstIndex = "c"`, TLC finds that too.)
7. `output_before_exit`. `pseudoThread-ppoll.cc:93` says that "we don't process its exit until we have processed its file
   descriptors", and SIGCHLD is blocked for it. But the exit of one child has all requests looked at
   (`pseudoThreadSignal.cc:116`, `:127`), also that of a child that wrote and exited after the files were polled. The two need
   not be there at once: the exit of a first child, found by `waitForExit` itself, leaves `exitedFlag` set, and the next
   turn of the loop then looks for the exit of a later one.

Seen in the code while modelling, of less consequence, and not given a run of their own:

- `solveCyclicDependency` means to "collect all dependencies outwards the cycle" (`strategyTransitionGraph.cc:785`, `:793`) but goes through
  `dependencyStack`, on which the current substate, a member of the cycle, has not been pushed. Its third round frees
  the substate that had the dependency and not the one it depended on (`:814`), after which `referenceCount` is not "The number of
  elements that refer to this substate" (`.hh:212`). `NothingDangling` holds nonetheless on the instances of
  `strategy_graph`, which include a cycle.
- `executionSucceeded` asserts that no solution is pending, "multiple solutions from a single step"
  (`strategicSearch.cc:69`); `getNextState` lets several processes report one before it resets the index
  (`strategyTransitionGraph.cc:123`). Without assertions nothing follows from it.
- In the search, a state is as deep as the path by which it was first found (`strategySequenceSearch.cc:156`), often by the
  depth-first exploration, so a bounded search may miss states within its bound (`Promised`).
- A socket "still nominally usable" after an error while it waited to accept (`socketAsync.cc:263`) has lost `LISTENING`
  and declines every message but `closeSocket`. A client socket that is still connecting is not an external object of its context yet and is
  not cleaned up with it: its `objectContext` (`socketManagerSymbol.hh:112`) then points to a destroyed one. `NoStaleContext`
  makes an exception for it.
- Sockets are nonblocking so that a read may "fail to get characters in certain edge cases such as a bad packet"
  (`socketStuff.cc:136`), but such a read closes the socket (`socketAsync.cc:79`), and a pending write goes
  without an answer (as it does at the second end of file, `:60`).

## 11. What is not modelled

In the strategy graph: non-tail calls, tests and branching strategies, conditional rules, `matchrew` and opaque strategies,
which create tasks with a `TaskInfo` of their own; `descend`, the optimisation that only runs for inner tasks; subgraphs.
The same expressions are modelled in the searches of section 5, without the graph. In the searches: choice by weights,
sampling, opaque strategies, and the bounds of a rewrite's depth.

In the object system: how messages are delivered to objects within a traversal (a traversal is modelled by the messages it
sends); streams, files, directories and random numbers, which answer at once; `pseudoThread-pselect.cc`, which is not
compiled where `ppoll` exists; conversions of dates; malformed messages, which are declined without any change.

Of `LogicFormula`, the operations on implied and contradicting formulas, which nothing calls.

Other components are listed in `PROJECT.json` with their reasons. In short: the theories, the rewriting core, narrowing, the
parser, reflection, built-ins and the module system are computations on unbounded terms, with little control to check;
SMT and the libraries under it are external; memory, persistent containers and the uncontrolled search are planned.

In what is modelled: dags, stacks of strategies and propositions are members of small sets; tracing and aborting are left
out of the searches (an abort only leaves loops early, on the user's demand).

## 12. Running it

```
tlc -workers 2 -config MCModelChecking.cfg MCModelChecking.tla
tlc -workers 2 -config MCStrategyTransitionGraph.cfg MCStrategyTransitionGraph.tla
tlc -workers 2 -config MCStrategicSearch.cfg MCStrategicSearch.tla
tlc -workers 2 -config MCEvents.cfg MCObjectSystem.tla
tlc -workers 2 -config MCSockets.cfg MCObjectSystem.tla

tlc -config MCVanishingStep.cfg MCStrategyTransitionGraph.tla      # the counterexamples
tlc -config MCStaleDependency.cfg MCStrategyTransitionGraph.tla
tlc -config MCAbsorbedSolution.cfg MCStrategyTransitionGraph.tla
tlc -config MCBoundedNormalForm.cfg MCStrategyTransitionGraph.tla
tlc -config MCInitialTwice.cfg MCStrategyTransitionGraph.tla
tlc -config MCSplitComponents.cfg MCModelChecking.tla
tlc -config MCOutputBeforeExit.cfg MCObjectSystem.tla

tlapm ModelChecker2Proofs.tla
tlapm NestedSearchProofs.tla
tlapm ListProofs.tla
tlapm ObjectSystemProofs.tla
tlapm PromiseProofs.tla
tlapm VariableBindingsProofs.tla
tlapm StrategicSearchProofs.tla
tlapm TransitionSetsProofs.tla
```
