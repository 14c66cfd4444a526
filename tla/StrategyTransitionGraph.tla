---------------------- MODULE StrategyTransitionGraph ----------------------
(***************************************************************************)
(* The on-the-fly state graph of a system controlled by a strategy, class  *)
(* StrategyTransitionGraph (src/src/Higher/strategyTransitionGraph.cc),    *)
(* with the processes of src/src/StrategyLanguage that it runs: those of   *)
(* the root task, for the strategies idle, fail, rule application,         *)
(* concatenation, union, iteration and tail call without arguments.        *)
(*                                                                         *)
(* A client asks for the successors of the known states one at a time, in  *)
(* any order.  A state runs its queue of processes until they commit a     *)
(* successor.  A point <<term, stack>> where a process may loop is looked  *)
(* up first: if it was visited, its substate becomes a dependency and its  *)
(* successors are imported.  Each turn of a loop of getNextState is one    *)
(* step; a step includes the whole run of one process.                     *)
(*                                                                         *)
(* LinkUncounted, BlankWithQueue, BlankWithSuccessors,                     *)
(* ImportFirstUncorrected and CycleLeft are mutants of the operator that   *)
(* follows them: the README says what they are for.                        *)
(***************************************************************************)
EXTENDS StrategySemantics, FiniteSets, SequencesExt

CONSTANTS
  Roots,          \* makeSelfLoops -> the expressions that may control the system
  Start           \* the initial term

VARIABLES
  makeSelfLoops,  \* of the constructor: FALSE for searches
  strategy,       \* the root expression
  graph,          \* [heap, seen, key, seenMap, at, nr, solution], see below
  asked, index,   \* the request being served: getNextState(asked, index)
  dependencyStack,
  pc,             \* the loop of getNextState being executed
  exhausted       \* the states for which NONE was answered

(* heap: the substates by address.  seen: state number -> address.  key:   *)
(* state number -> the point it was created for.  seenMap: the table of    *)
(* the TaskInfo of the root, point -> address.  at, nr and solution stand  *)
(* for currentSubstate, nrNextStates and solutionIndex.                    *)
given == <<makeSelfLoops, strategy>>
vars == <<given, graph, asked, index, dependencyStack, pc, exhausted>>

None == "none"
NoState == 0      \* stateNr of a substate that is not a state

----------------------------------------------------------------------------
(* Processes and substates.                                                *)
Decompose(dag, stack) == [kind |-> "decompose", dag |-> dag, pending |-> stack, rule |-> None, i |-> 0]
Apply(dag, stack, rule) == [kind |-> "apply", dag |-> dag, pending |-> stack, rule |-> rule, i |-> 1]

(* procs is the circular queue, from nextProcess on; a process created by  *)
(* the running one is inserted just before it, that is, at the end.        *)
Substate(procs, nr, refs) ==
  [next |-> <<>>, arcs |-> {}, hasSolution |-> FALSE, procs |-> procs, deps |-> <<>>,
   refs |-> refs, nr |-> nr, alive |-> TRUE]

Finished(sub) == sub.procs = <<>> /\ sub.deps = <<>>
Referenced(h, a) == [h EXCEPT ![a].refs = @ + 1]

(* free: the last reference deletes the substate, and its destructor frees *)
(* the dependencies.                                                       *)
RECURSIVE Free(_, _)
Free(h, a) ==
  LET g == [h EXCEPT ![a].refs = @ - 1, ![a].alive = @ /\ h[a].refs # 1]
  IN  IF h[a].refs # 1 THEN g
      ELSE FoldLeft(LAMBDA acc, dep : Free(acc, dep.on), g, h[a].deps)

(* importDependency: the successors of the dependee not imported yet are   *)
(* copied, unless all their arcs are known, and the dependency is dropped  *)
(* once it cannot give more.                                               *)
ArcsTo(sub, t) == {arc \in sub.arcs : arc[1] = t}
ImportSuccessor(from, to, t) ==
  [to EXCEPT !.arcs = @ \cup ArcsTo(from, t),
             !.next = IF ArcsTo(from, t) \subseteq to.arcs THEN @ ELSE Append(@, t)]

ImportDependency(h, a, k) ==
  LET dep == h[a].deps[k]
      from == h[dep.on]
      to == FoldLeft(LAMBDA acc, t : ImportSuccessor(from, acc, t), h[a],
                     SubSeq(from.next, dep.done + 1, Len(from.next)))
      left == IF Finished(from) THEN RemoveAt(to.deps, k)
              ELSE [to.deps EXCEPT ![k].done = Len(from.next)]
      g == [h EXCEPT ![a] = [to EXCEPT !.deps = left,
                                       !.hasSolution = @ \/ from.hasSolution]]
  IN  IF Finished(from) THEN Free(g, dep.on) ELSE g

(* importDependencies, from the k-th on.                                   *)
RECURSIVE ImportFrom(_, _, _)
ImportFrom(h, a, k) ==
  IF k > Len(h[a].deps) THEN h
  ELSE LET g == ImportDependency(h, a, k)
       IN  ImportFrom(g, a, IF Len(g[a].deps) = Len(h[a].deps) THEN k + 1 ELSE k)

NrSuccessors(h, a) == Len(h[a].next)

----------------------------------------------------------------------------
(* The operations that a running process calls, from a graph to a graph.   *)
Current(g) == g.heap[g.at]
Gain(g, h) == [g EXCEPT !.heap = h, !.nr = @ + NrSuccessors(h, g.at) - NrSuccessors(g.heap, g.at)]

AddDependency(h, a, on) ==
  LET longer == [h EXCEPT ![a].deps = Append(@, [on |-> on, done |-> 0])]
  IN  ImportDependency(Referenced(longer, on), a, Len(longer[a].deps))
DependOn(g, on) == Gain(g, AddDependency(g.heap, g.at, on))

LinkUncounted(g, point, a) ==
  [g EXCEPT !.seenMap = [p \in DOMAIN @ \cup {point} |-> IF p = point THEN a ELSE @[p]]]
Link(g, point, a) ==
  [g EXCEPT !.heap = Referenced(@, a),
            !.seenMap = [p \in DOMAIN @ \cup {point} |-> IF p = point THEN a ELSE @[p]]]
Unlink(g, point) ==
  IF point \in DOMAIN g.seenMap THEN [g EXCEPT !.heap = Free(@, g.seenMap[point])] ELSE g

Allocate(g, sub) == [g EXCEPT !.heap = Append(@, sub)]
NewState(g, point, procs) ==
  LET address == Len(g.heap) + 1
      created == Allocate(g, Substate(procs, Len(g.seen) + 1, 1))
  IN  Link([created EXCEPT !.seen = Append(@, address), !.key = Append(@, point)], point, address)

AddSuccessor(g, t, label) ==
  [g EXCEPT !.heap[g.at].next = Append(@, t), !.heap[g.at].arcs = @ \cup {<<t, label>>},
            !.nr = @ + 1]

(* commitState: a rewrite has been done.                                   *)
CommitState(g, point, rule) ==
  IF point \notin DOMAIN g.seenMap
  THEN AddSuccessor(NewState(g, point, <<Decompose(point[1], point[2])>>), Len(g.seen) + 1, rule)
  ELSE LET found == g.seenMap[point]
       IN  IF g.heap[found].nr = NoState THEN DependOn(g, found)
           ELSE AddSuccessor(g, g.heap[found].nr, rule)

(* absorbState: a state takes the place of the current one.  Both are      *)
(* given by their numbers, as the absorber may have been absorbed itself.  *)
AbsorbState(g, absorber, absorbed) ==
  LET to == g.seen[absorber]
      from == g.seen[absorbed]
      emptied == [g.heap EXCEPT ![from].procs = <<>>]
      freed == IF g.heap[from].refs = 1 THEN Free(emptied, from)
               ELSE AddDependency([emptied EXCEPT ![from].refs = @ - 1], from, to)
  IN  [g EXCEPT !.heap = Referenced(freed, to), !.seen[absorbed] = to,
                !.at = to, !.nr = @ + NrSuccessors(freed, to)]

(* Nothing follows from a blank substate but what follows from the point   *)
(* that its only process, out of the queue by now, has reached.            *)
BlankWithQueue(sub) == sub.next = <<>> /\ sub.deps = <<>>
BlankWithSuccessors(sub) == sub.deps = <<>> /\ sub.procs = <<>>
Blank(sub) == sub.next = <<>> /\ sub.deps = <<>> /\ sub.procs = <<>>

(* onCheckpoint: "then" is the process, which goes on if the point is new  *)
(* and the substate can stand for it.                                      *)
Checkpoint(g, then) ==
  LET point == <<then.dag, then.pending>>
      blank == Blank(Current(g))
      fresh == Allocate(g, Substate(<<then>>, NoState, 0))
      new == Len(g.heap) + 1
  IN  IF point \in DOMAIN g.seenMap
      THEN LET found == g.seenMap[point]
           IN  IF found = g.at THEN g
               ELSE IF blank /\ g.heap[found].nr # NoState /\ Current(g).nr # NoState
               THEN AbsorbState(g, g.heap[found].nr, Current(g).nr)
               ELSE DependOn(g, found)
      ELSE IF blank THEN Link([g EXCEPT !.heap[g.at].procs = <<then>>], point, g.at)
      ELSE DependOn(Link(fresh, point, new), new)

(* makeSelfLoop: a solution is a state that loops on itself, this one if   *)
(* it is a dead state and a new one otherwise.                             *)
MakeSelfLoop(g, dag) ==
  LET point == <<dag, <<>>>>
      dead == Current(g).nr # NoState /\ Finished(Current(g)) /\ Current(g).next = <<>>
      loop == Len(g.seen) + 1
      a == Len(g.heap) + 1
      created == NewState(Unlink(g, point), point, <<>>)
      looping == [created EXCEPT !.heap[a].hasSolution = TRUE, !.heap[a].next = <<loop>>,
                                 !.heap[a].arcs = {<<loop, "solution">>}]
  IN  IF ~makeSelfLoops THEN g
      ELSE IF dead THEN AddSuccessor(g, Current(g).nr, "solution")
      ELSE AddSuccessor(looping, loop, "solution")

----------------------------------------------------------------------------
(* The run of the process at the head of the queue.                        *)
Enqueue(g, procs) == [g EXCEPT !.heap[g.at].procs = @ \o procs]

(* ApplicationProcess::run: one rewrite a run, then another run to end.    *)
RunApplication(g, p) ==
  LET results == Rewrites[p.rule][p.dag]
  IN  IF p.i \in DOMAIN results
      THEN CommitState(Enqueue(g, <<[p EXCEPT !.i = @ + 1]>>), <<results[p.i], p.pending>>, p.rule)
      ELSE g

(* decompose of each strategy: "process" has it popped from its stack, and *)
(* is queued again, with its clones before it, unless it dies.             *)
Pushing(process, strategies) == [process EXCEPT !.pending = strategies \o @]
DecomposeTrivial(g, process, e) == IF Op(e) = "idle" THEN Enqueue(g, <<process>>) ELSE g
DecomposeApplication(g, process, e) ==
  Enqueue(g, <<Apply(process.dag, process.pending, Args(e)[1])>>)
DecomposeConcatenation(g, process, e) == Enqueue(g, <<Pushing(process, Args(e))>>)
DecomposeUnion(g, process, e) ==
  Enqueue(g, [k \in DOMAIN Args(e) |-> Pushing(process, <<Args(e)[k]>>)])
DecomposeIteration(g, process, e) ==
  IF Op(e) = "plus" THEN Checkpoint(g, Pushing(process, Args(e)))
  ELSE Checkpoint(Enqueue(g, <<process>>), Pushing(process, <<Args(e)[1], e>>))
DecomposeCall(g, process, e) == Checkpoint(g, Pushing(process, Args(e)))

(* DecompositionProcess::run.  A call is in tail position.                 *)
RunDecomposition(g, p) ==
  LET e == Head(p.pending)
      popped == [p EXCEPT !.pending = Tail(@)]
  IN  IF p.pending = <<>> THEN [g EXCEPT !.solution = p.dag]
      ELSE CASE Op(e) \in {"idle", "fail"} -> DecomposeTrivial(g, popped, e)
             [] Op(e) = "rule" -> DecomposeApplication(g, popped, e)
             [] Op(e) = "seq" -> DecomposeConcatenation(g, popped, e)
             [] Op(e) = "alt" -> DecomposeUnion(g, popped, e)
             [] Op(e) \in {"plus", "star"} -> DecomposeIteration(g, popped, e)
             [] Op(e) = "call" /\ popped.pending = <<>> -> DecomposeCall(g, popped, e)

(* One turn of the inner loop of getNextState, after which the substate    *)
(* that is current is marked if a solution was reached.                    *)
RunHead(g) ==
  LET p == Head(Current(g).procs)
      taken == [g EXCEPT !.heap[g.at].procs = Tail(@)]
      done == IF p.kind = "apply" THEN RunApplication(taken, p) ELSE RunDecomposition(taken, p)
  IN  IF done.solution = None \/ Current(done).hasSolution THEN done
      ELSE MakeSelfLoop([done EXCEPT !.heap[done.at].hasSolution = TRUE], done.key[asked][1])

----------------------------------------------------------------------------
(* getNextState.                                                           *)
Init ==
  /\ makeSelfLoops \in DOMAIN Roots /\ strategy \in Roots[makeSelfLoops]
  /\ LET empty == [heap |-> <<>>, seen |-> <<>>, key |-> <<>>, seenMap |-> <<>>,
                   at |-> 1, nr |-> 0, solution |-> None]
         stack == <<strategy>>
     IN  graph = NewState(empty, <<Start, stack>>, <<Decompose(Start, stack)>>)
  /\ asked = 1 /\ index = 0 /\ dependencyStack = <<>> /\ pc = "idle" /\ exhausted = {}

(* The test of the outer loop. *)
Continue(g) == IF g.nr > index' THEN "answered" ELSE "run"

(* A request for a known successor changes nothing: only the first unknown *)
(* one is asked for.  The known transitions of the dependencies come first.*)
Ask(s) ==
  LET a == graph.seen[s]
      h == ImportFrom(graph.heap, a, 1)
  IN  /\ pc # "run"
      /\ asked' = s /\ index' = NrSuccessors(graph.heap, a)
      /\ graph' = [graph EXCEPT !.heap = h, !.at = a, !.nr = NrSuccessors(h, a), !.solution = None]
      /\ dependencyStack' = <<>>
      /\ pc' = Continue(graph')
      /\ UNCHANGED <<given, exhausted>>

Processing == Current(graph).procs # <<>> /\ graph.nr <= index
Retreating == ~Processing /\ Finished(Current(graph)) /\ dependencyStack # <<>>
Wanting == ~Processing /\ ~Retreating /\ Current(graph).procs = <<>> /\ graph.nr <= index

(* The inner loop.                                                         *)
RunProcess ==
  /\ pc = "run" /\ Processing
  /\ graph' = RunHead(graph)
  /\ UNCHANGED <<given, asked, index, dependencyStack, pc, exhausted>>

(* importFirstDependency: nrNextStates had counted all the successors of   *)
(* the dependee, and is corrected by those that were known.                *)
ImportFirstUncorrected(g, a) == [g EXCEPT !.heap = ImportDependency(@, a, 1)]
ImportFirst(g, a) ==
  LET dep == g.heap[a].deps[1]
      h == ImportDependency(g.heap, a, 1)
      expected == NrSuccessors(g.heap, dep.on) - dep.done
      actual == NrSuccessors(h, a) - NrSuccessors(g.heap, a)
  IN  [g EXCEPT !.heap = h, !.nr = @ - (expected - actual)]

(* The substate is done: back to the one that depends on it.  That one has *)
(* no processes, so that the inner loop is not entered again.              *)
Retreat ==
  /\ pc = "run" /\ Retreating
  /\ graph' = ImportFirst([graph EXCEPT !.at = Last(dependencyStack)], Last(dependencyStack))
  /\ dependencyStack' = Front(dependencyStack)
  /\ UNCHANGED <<given, asked, index, pc, exhausted>>

(* NONE is returned.                                                       *)
NoMoreStates ==
  /\ pc = "run" /\ Wanting /\ Current(graph).deps = <<>>
  /\ exhausted' = exhausted \cup {asked} /\ pc' = "exhausted"
  /\ UNCHANGED <<given, graph, asked, index, dependencyStack>>

(* solveCyclicDependency: the substates of the cycle share their other     *)
(* dependencies, and lose their first one.                                 *)
OtherDependencies(h, cycle) == UNION {ToSet(Tail(h[a].deps)) : a \in ToSet(cycle)}
WithoutFirst(h, a) == [h EXCEPT ![a].deps = Tail(@)]
ShareDependencies(h, cycle) ==
  LET Missing(a) == SetToSeq(OtherDependencies(h, cycle) \ ToSet(h[a].deps))
      Depend(acc, a) ==
        FoldLeft(LAMBDA g, dep : Referenced([g EXCEPT ![a].deps = Append(@, dep)], dep.on),
                 acc, Missing(a))
  IN  FoldLeft(Depend, h, cycle)
CycleLeft(h, cycle) == h
SolveCyclicDependency(h, cycle) ==
  FoldLeft(LAMBDA g, a : Free(WithoutFirst(g, a), a), ShareDependencies(h, cycle), cycle)

(* The end of the outer loop: if there seem to be enough successors, they  *)
(* are imported along the stack, down to the asked state; a dependency     *)
(* that is finished leaves the stack.                                      *)
CollectOne(acc, a) ==
  LET finished == Finished(acc.graph.heap[Head(acc.graph.heap[a].deps).on])
      g == ImportFirst(acc.graph, a)
  IN  IF finished THEN [graph |-> [g EXCEPT !.at = a], stack |-> Front(acc.stack)]
      ELSE [graph |-> g, stack |-> acc.stack]

Collect(g, stack) ==
  LET all == FoldLeft(CollectOne, [graph |-> g, stack |-> stack],
                      IF g.nr > index THEN Reverse(stack) ELSE <<>>)
  IN  /\ graph' = [all.graph EXCEPT !.solution = None]
      /\ dependencyStack' = all.stack
      /\ UNCHANGED <<given, asked, index, exhausted>>
      /\ pc' = Continue(graph')

(* The first dependency is pursued, after breaking the cycle it closes.    *)
FollowDependency ==
  LET next == Head(Current(graph).deps).on
      loop == SelectInSeq(dependencyStack, LAMBDA a : a = next)
      cycle == SubSeq(dependencyStack, loop, Len(dependencyStack))
      solved == IF loop = 0 THEN graph.heap ELSE SolveCyclicDependency(graph.heap, cycle)
      h == ImportFrom(solved, next, 1)
      followed == [graph EXCEPT !.heap = h, !.at = next,
                                !.nr = @ + NrSuccessors(h, next) - NrSuccessors(solved, next)]
  IN  /\ pc = "run" /\ Wanting /\ Current(graph).deps # <<>>
      /\ Collect(followed, IF loop = 0 THEN Append(dependencyStack, graph.at)
                           ELSE SubSeq(dependencyStack, 1, loop - 1))

NextTurn ==
  /\ pc = "run" /\ ~Processing /\ ~Retreating /\ ~Wanting
  /\ Collect(graph, dependencyStack)

Serve == RunProcess \/ Retreat \/ NoMoreStates \/ FollowDependency \/ NextTurn
Next == (\E s \in DOMAIN graph.seen : Ask(s)) \/ Serve

(* getNextState runs to its end; the client may ask no more.               *)
Spec == Init /\ [][Next]_vars /\ WF_vars(Serve)

----------------------------------------------------------------------------
Points == Seq(DOMAIN Expr)
Addresses == DOMAIN graph.heap
States == DOMAIN graph.seen
Sub(s) == graph.heap[graph.seen[s]]
Live == {a \in Addresses : graph.heap[a].alive}

(* Addresses, states and queues are what they should be. *)
TypeOK ==
  /\ strategy \in Roots[makeSelfLoops] /\ asked \in States /\ index \in Nat /\ exhausted \subseteq States
  /\ pc \in {"idle", "run", "answered", "exhausted"}
  /\ graph.at \in Addresses /\ graph.nr \in Nat
  /\ dependencyStack \in Seq(Addresses)
  /\ \A p \in DOMAIN graph.seenMap : p[2] \in Points /\ graph.seenMap[p] \in Addresses
  /\ \A a \in Addresses :
       LET sub == graph.heap[a]
       IN  /\ sub.refs \in Nat /\ sub.nr \in States \cup {NoState}
           /\ \A k \in DOMAIN sub.next : sub.next[k] \in States
           /\ ToSet(sub.next) = {arc[1] : arc \in sub.arcs}
           /\ \A k \in DOMAIN sub.deps : sub.deps[k].on \in Addresses

(* Nothing that has been deleted is referred to by the array of states, by *)
(* the table, by a substate in use or by the request being served.         *)
NothingDangling ==
  /\ TypeOK
  /\ ToSet(graph.seen) \cup {graph.seenMap[p] : p \in DOMAIN graph.seenMap} \subseteq Live
  /\ {graph.at} \cup ToSet(dependencyStack) \subseteq Live
  /\ \A a \in Live : {dep.on : dep \in ToSet(graph.heap[a].deps)} \subseteq Live

(* commitState is called when "A rewrite (or other atomic operation) has   *)
(* been done": an arc with a rule leads to a state whose term is a result  *)
(* of that rule on the term of the state it comes from.                    *)
EveryArcIsARewrite ==
  \A s \in States : \A arc \in Sub(s).arcs :
    arc[2] # "solution" =>
      graph.key[arc[1]][1] \in ToSet(Rewrites[arc[2]][graph.key[s][1]])

(* A state that has no more successors has exactly those of the strategy:  *)
(* the rewrites of its point, each to a state that allows what the reached *)
(* point allows, and a way to stop if the strategy may stop there.         *)
Class(point) == <<point[1], Moves(point), MayStop(point)>>
Labelled(s) == {<<arc[2], Class(graph.key[arc[1]])>> : arc \in {r \in Sub(s).arcs : r[2] # "solution"}}
Stops(s) == IF makeSelfLoops THEN \E arc \in Sub(s).arcs : arc[2] = "solution" ELSE Sub(s).hasSolution
SuccessorsExact ==
  pc = "exhausted" => \A s \in exhausted :
    /\ Labelled(s) = {<<m[1], Class(m[2])>> : m \in Moves(graph.key[s])}
    /\ Stops(s) <=> MayStop(graph.key[s])

(* "At this point nrNextStates is accurate, because it has been corrected  *)
(* by importFirstDependency": the requested successor exists when the loop *)
(* is left, and getNextState returns nextStates[index].                    *)
CountAccurate == pc = "answered" => graph.nr = Len(Sub(asked).next) /\ index < Len(Sub(asked).next)

(* What was answered is never withdrawn: successors keep their numbers, and*)
(* after NONE no successor ever appears, whatever is explored later.       *)
AnswersAreFinal ==
  [][\A s \in States :
       /\ IsPrefix(Sub(s).next, Sub(s)'.next)
       /\ s \in exhausted => Sub(s)'.next = Sub(s).next]_vars

(* Every request is answered, although dependencies may be cyclic. *)
EveryRequestAnswered == []<>(pc # "run")
=============================================================================
