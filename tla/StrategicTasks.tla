--------------------------- MODULE StrategicTasks ---------------------------
(***************************************************************************)
(* The tree of a strategic search (src/src/StrategyLanguage): tasks, which *)
(* own executions (their slaves, tasks and processes), and processes,      *)
(* which are run one at a time and work for their owner.  A run is a       *)
(* function on a record g                                                  *)
(*                                                                         *)
(*   heap      the executions: number -> record; the root task is 0        *)
(*   ahead     the processes created by the run, in the order they were    *)
(*             inserted in the list before the one that runs               *)
(*   bindings  the variable contexts, see VariableBindings                 *)
(*                                                                         *)
(* A record has a kind and an owner.  Tasks have their slaves in order,    *)
(* the pairs <<term, stack>> seen, the context of their variables and the  *)
(* stack pending after them.  A stack is a sequence of expressions, the    *)
(* first one to be executed first (StrategyStackManager shares them).  A   *)
(* process that searches keeps in todo what it has not found yet, and      *)
(* finds it in any order.  DIE is the deletion of the execution.           *)
(*                                                                         *)
(* CloseInherited, ExhaustFirst and ShortOdometer are mutants of the       *)
(* operator that follows them.                                             *)
(***************************************************************************)
EXTENDS VariableBindings, Lists

CONSTANTS
  Expr,           \* expression -> [op, ...]
  Rewrites,       \* rule -> triples <<argument, term, result>>
  Fragments,      \* rule -> pairs <<result, value>>, the matches of the right hand side of a
                  \* condition fragment; a value is the term the next one starts from
  Tests,          \* pattern of a test -> pairs <<argument, term>> that match
  Patterns,       \* pattern of a matchrew -> matches [argument, term, values, subterms]
  Rebuild,        \* the same -> for each component of the result, where it is from
  Strategies      \* strategy -> [simple, definitions: [rhs, matches: pairs <<argument, values>>]]

(* What the parser of strategy expressions and the checks of strategy      *)
(* definitions guarantee.                                                  *)
Stacks == Seq(DOMAIN Expr)
IsExpression(e) ==
  CASE e.op \in {"idle", "fail", "test"} -> TRUE
    [] e.op = "seq" -> e.args \in Stacks
    [] e.op = "alt" -> e.args \in Stacks /\ e.args # <<>>
    [] e.op \in {"star", "one"} -> e.child \in DOMAIN Expr
    [] e.op = "plus" -> e.child \in DOMAIN Expr /\ e.star \in DOMAIN Expr
    [] e.op = "rule" -> e.strategies \in Stacks
    [] e.op = "branch" ->
         /\ e.initial \in DOMAIN Expr
         /\ e.onSuccess \in {"FAIL", "IDLE", "PASS_THRU", "NEW_STRATEGY", "ITERATE"}
         /\ e.onSuccess = "NEW_STRATEGY" => e.success \in DOMAIN Expr
         /\ e.onFailure = "NEW_STRATEGY" => e.failure \in DOMAIN Expr
    [] e.op = "call" -> e.strategy \in DOMAIN Strategies
    [] e.op = "matchrew" -> e.strategies \in Stacks /\ e.strategies # <<>>
    [] OTHER -> FALSE

ASSUME StrategyAssumption ==
  /\ \A e \in DOMAIN Expr : IsExpression(Expr[e])
  /\ \A s \in DOMAIN Strategies :
       /\ Strategies[s].definitions \in Seq(Range(Strategies[s].definitions))
       /\ \A d \in Range(Strategies[s].definitions) : d.rhs \in DOMAIN Expr

ROOT == 0
NONE == -1
Alone == 0        \* the sibling that stands for the end of the list, slaveList itself

Owner(g, id) == g.heap[id].owner
Slaves(g, id) == g.heap[id].slaves
IsTask(e) == "slaves" \in DOMAIN e

----------------------------------------------------------------------------
(* Executions are created before a sibling, as slaves of the same owner;   *)
(* a process is also inserted before the one that runs.                    *)

FreshId(g) == Min((1..Cardinality(DOMAIN g.heap)) \ DOMAIN g.heap)

Adding(heap, id, e) == [i \in DOMAIN heap \cup {id} |-> IF i = id THEN e ELSE heap[i]]

NewExecution(g, sibling, e) ==
  LET list == Slaves(g, e.owner)
      at == IF sibling = Alone THEN Len(list) + 1 ELSE SelectInSeq(list, LAMBDA s : s = sibling)
  IN  [g EXCEPT !.heap = Adding([@ EXCEPT ![e.owner].slaves = InsertAt(list, at, FreshId(g))],
                              FreshId(g), e)]

NewProcess(g, sibling, e) ==
  [NewExecution(g, sibling, e) EXCEPT !.ahead = Append(@, FreshId(g))]

NewDecomposition(g, owner, sibling, dag, pending) ==
  NewProcess(g, sibling,
             [kind |-> "decomposition", owner |-> owner, dag |-> dag, pending |-> pending])

Task(kind, owner, vars, pending) ==
  [kind |-> kind, owner |-> owner, slaves |-> <<>>, seen |-> {}, vars |-> vars, pending |-> pending]
(* A task of a class with more fields.                                     *)
Extended(task, more) ==
  [f \in DOMAIN task \cup DOMAIN more |-> IF f \in DOMAIN task THEN task[f] ELSE more[f]]

(* resumeOwner.                                                            *)
ResumeOwner(g, task, dag, pending) == NewDecomposition(g, Owner(g, task), task, dag, pending)

(* alreadySeen, and its insertion.                                         *)
AlreadySeen(g, task, dag, pending) == <<dag, pending>> \in g.heap[task].seen
See(g, task, dag, pending) == [g EXCEPT !.heap[task].seen = @ \cup {<<dag, pending>>}]

----------------------------------------------------------------------------
(* The tasks, with their first processes.                                  *)

NewTask(g, sibling, task, dag, strategy) ==
  NewDecomposition(NewExecution(g, sibling, task), FreshId(g), Alone, dag, <<strategy>>)

VarsOf(g, id) == g.heap[Owner(g, id)].vars

NewBranchTask(g, sibling, dag, expression, pending) ==
  NewTask(g, sibling,
          Extended(Task("branch", Owner(g, sibling), VarsOf(g, sibling), pending),
                   [start |-> dag, expression |-> expression, success |-> FALSE]),
          dag, Expr[expression].initial)

NewCallTask(g, sibling, dag, rhs, pending, context) ==
  NewTask(g, sibling, Task("call", Owner(g, sibling), context, pending), dag, rhs)

NewRewriteTask(g, sibling, dag, rule, strategies, pending) ==
  NewTask(g, sibling,
          Extended(Task("rewrite", Owner(g, sibling), VarsOf(g, sibling), pending),
                   [rule |-> rule, strategies |-> Tail(strategies)]),
          dag, Head(strategies))

(* SubtermTask: a child task for each subterm.                             *)
NewSubtermTask(g, sibling, expression, match, context, pending) ==
  LET strategies == Expr[expression].strategies
      id == FreshId(g)
      task == Extended(Task("subterm", Owner(g, sibling), context, pending),
                       [pattern |-> Expr[expression].pattern,
                        results |-> [k \in DOMAIN strategies |-> <<>>]])
      added[k \in 0 .. Len(strategies)] ==
        IF k = 0 THEN NewExecution(g, sibling, task)
        ELSE NewTask(added[k - 1], Alone, Extended(Task("child", id, context, <<>>), [index |-> k]),
                     match.subterms[k], strategies[k])
  IN  added[Len(strategies)]

(* The rewrite is done, or the rest of its condition is to be solved.      *)
Resolve(g, sibling, value, rule, strategies, pending) ==
  IF strategies = <<>> THEN NewDecomposition(g, Owner(g, sibling), sibling, value, pending)
  ELSE NewRewriteTask(g, sibling, value, rule, strategies, pending)

----------------------------------------------------------------------------
(* Deletion.  A task deletes its slaves, whose deletions report nothing; a *)
(* matchrew closes its context before.                                     *)
CloseInherited(g, e) == IF IsTask(e) THEN [g EXCEPT !.bindings = CloseContext(@, e.vars)] ELSE g
CloseOwn(g, e) == IF e.kind = "subterm" THEN [g EXCEPT !.bindings = CloseContext(@, e.vars)] ELSE g

Gone(g, id) == [g EXCEPT !.heap = [i \in DOMAIN @ \ {id} |-> @[i]], !.ahead = Dropped(@, {id})]

(* The first execution left is deleted, then its slaves.                   *)
DeleteNext(d) ==
  LET id == Head(d.left)
      e == d.graph.heap[id]
  IN  IF d.left = <<>> THEN d
      ELSE [graph |-> Gone(CloseOwn(d.graph, e), id),
            left |-> (IF IsTask(e) THEN e.slaves ELSE <<>>) \o Tail(d.left)]
Deleted(g, ids) ==
  LET deletion[n \in 0 .. Cardinality(DOMAIN g.heap)] ==
        IF n = 0 THEN [graph |-> g, left |-> ids] ELSE DeleteNext(deletion[n - 1])
  IN  deletion[Cardinality(DOMAIN g.heap)].graph

(* pushSolution: the subterms rewritten in the place of those matched.     *)
Component(from, results, values) == IF from > 0 THEN results[from][1] ELSE values[-from][1]
PushSolution(g, task, results) ==
  LET t == g.heap[task]
      from == Rebuild[t.pattern]
      values == ValuesOf(g.bindings, t.vars)
      dag == [k \in DOMAIN from |-> Component(from[k], results, values)]
  IN  ResumeOwner(g, task, dag, t.pending)

(* SubtermTask::executionSucceeded.  RemainingProcess goes over the results*)
(* known now; indices has no place for the child that succeeded if it is   *)
(* the last one.                                                           *)
NewRemaining(g, task, index) ==
  LET results == g.heap[task].results
      n == IF index = Len(results) THEN index - 1 ELSE Len(results)
  IN  NewProcess(g, Alone,
        [kind |-> "remaining", owner |-> task, fixed |-> index,
         limits |-> [k \in DOMAIN results |-> Len(results[k])],
         indices |-> [k \in 1..n |-> 1],
         nodes |-> [k \in DOMAIN results |->
                      IF k = index THEN Last(results[k]) ELSE Head(results[k])],
         i |-> n])
SubtermSucceeded(g, task, index) ==
  LET results == g.heap[task].results
  IN  IF Len(results) = 1 THEN PushSolution(g, task, <<Last(results[1])>>)
      ELSE NewRemaining(g, task, index)

----------------------------------------------------------------------------
(* executionSucceeded: what it does, and whether the task requests its     *)
(* deletion (TaskDies).                                                    *)
TaskDies(g, task) ==
  \/ g.heap[task].kind = "one"
  \/ g.heap[task].kind = "branch" /\ Expr[g.heap[task].expression].onSuccess \in {"FAIL", "IDLE"}

(* The iteration of e ! goes on from the results not iterated yet, noted   *)
(* in the seen set of the owner by the stack where e ! is next.            *)
Iterate(g, task, dag, expression, pending) ==
  LET checkpoint == <<expression>> \o pending
      owner == Owner(g, task)
  IN  IF AlreadySeen(g, owner, dag, checkpoint) THEN g
      ELSE NewBranchTask(See(g, owner, dag, checkpoint), task, dag, expression, pending)

BranchSucceeded(g, task, dag) ==
  LET t == g.heap[task]
      e == Expr[t.expression]
      noted == [g EXCEPT !.heap[task].success = TRUE]
  IN  CASE e.onSuccess = "FAIL" -> noted
        [] e.onSuccess = "IDLE" -> ResumeOwner(noted, task, t.start, t.pending)
        [] e.onSuccess = "PASS_THRU" -> ResumeOwner(noted, task, dag, t.pending)
        [] e.onSuccess = "NEW_STRATEGY" -> ResumeOwner(noted, task, dag, <<e.success>> \o t.pending)
        [] e.onSuccess = "ITERATE" -> Iterate(noted, task, dag, t.expression, t.pending)

RewriteSucceeded(g, task, dag) ==
  LET t == g.heap[task]
      values == {f[2] : f \in {f \in Fragments[t.rule] : f[1] = dag}}
  IN  IF values = {} THEN g
      ELSE NewProcess(g, task,
             [kind |-> "match", owner |-> t.owner, rule |-> t.rule, strategies |-> t.strategies,
              pending |-> t.pending, todo |-> values])

ChildSucceeded(g, task, dag) ==
  LET t == g.heap[task]
      stored == [g EXCEPT !.heap[t.owner].results[t.index] = Append(@, dag)]
  IN  IF \A k \in DOMAIN stored.heap[t.owner].results : stored.heap[t.owner].results[k] # <<>>
      THEN SubtermSucceeded(stored, t.owner, t.index)
      ELSE stored

ExecutionSucceeded(g, task, dag) ==
  LET t == g.heap[task]
  IN  CASE t.kind = "root" -> [g EXCEPT !.heap[ROOT].solution = Append(@, dag)]
        [] t.kind = "branch" -> BranchSucceeded(g, task, dag)
        [] t.kind \in {"one", "call"} -> ResumeOwner(g, task, dag, t.pending)
        [] t.kind = "rewrite" -> RewriteSucceeded(g, task, dag)
        [] t.kind = "child" -> ChildSucceeded(g, task, dag)

(* executionsExhausted; all tasks but the root request their deletion.     *)
BranchExhausted(g, task) ==
  LET t == g.heap[task]
      e == Expr[t.expression]
  IN  IF t.success \/ e.onFailure = "FAIL" THEN g
      ELSE ResumeOwner(g, task, t.start,
                       (IF e.onFailure = "NEW_STRATEGY" THEN <<e.failure>> ELSE <<>>) \o t.pending)

ExecutionsExhausted(g, task) ==
  LET t == g.heap[task]
  IN  CASE t.kind = "root" -> [g EXCEPT !.heap[ROOT].exhausted = TRUE]
        [] t.kind = "branch" -> BranchExhausted(g, task)
        [] t.kind = "call" -> [g EXCEPT !.bindings = CloseContext(@, t.vars)]
        [] OTHER -> g

(* finished and succeeded.  Both unlink the execution first; whether it    *)
(* was the only one is read from its own links, which callbacks leave.     *)
Unlinked(g, id) == [g EXCEPT !.heap[Owner(g, id)].slaves = Dropped(@, {id})]
IsLast(g, id) == Slaves(g, Owner(g, id)) = <<id>>

(* A task that is told that it has no more slaves finishes in turn.  dead  *)
(* are those that were told, in the order of their deletion: each one is   *)
(* deleted when the call of finished of the task that owns it is over.     *)
Told(g, task, dead) ==
  [graph |-> ExecutionsExhausted(g, task), at |-> task, over |-> task = ROOT,
   dead |-> IF task = ROOT THEN dead ELSE <<task>> \o dead]
FinishNext(f) ==
  CASE f.over -> f
    [] ~f.over /\ IsLast(f.graph, f.at) ->
         Told(Unlinked(f.graph, f.at), Owner(f.graph, f.at), f.dead)
    [] ~f.over /\ ~IsLast(f.graph, f.at) ->
         [f EXCEPT !.graph = Unlinked(@, f.at), !.over = TRUE]
Ended(start) ==
  LET ending[n \in 0 .. Cardinality(DOMAIN start.graph.heap)] ==
        IF n = 0 THEN start ELSE FinishNext(ending[n - 1])
  IN  ending[Cardinality(DOMAIN start.graph.heap)]

Finished(g, id) == Ended([graph |-> g, at |-> id, over |-> FALSE, dead |-> <<>>])
Exhausted(g, task) == Ended(Told(g, task, <<>>))
Buried(end, ids) == Deleted(end.graph, end.dead \o ids)

(* A process that requests its deletion, which is the last one.            *)
ExhaustFirst(g, id, dag) ==
  LET owner == Owner(g, id)
  IN  IF IsLast(g, id) THEN Buried(Exhausted(Unlinked(g, id), owner), <<id>>)
      ELSE Deleted(ExecutionSucceeded(Unlinked(g, id), owner, dag), <<id>>)
Succeeded(g, id, dag) ==
  LET owner == Owner(g, id)
      told == ExecutionSucceeded(Unlinked(g, id), owner, dag)
  IN  IF TaskDies(g, owner) THEN Buried(Finished(told, owner), <<owner, id>>)
      ELSE IF IsLast(g, id) THEN Buried(Exhausted(told, owner), <<id>>)
      ELSE Deleted(told, <<id>>)
Die(g, id) == Buried(Finished(g, id), <<id>>)

----------------------------------------------------------------------------
(* decompose: the process goes on with what it leaves pending, or DIEs.    *)

WithPending(g, id, pending) == [g EXCEPT !.heap[id].pending = pending]
Clone(g, id, pending) == NewDecomposition(g, Owner(g, id), id, g.heap[id].dag, pending)

(* An argument: a ground term, or a variable of the context.               *)
ArgumentIn(g, context, e) ==
  IF e.variable = 0 THEN [bindings |-> g.bindings, value |-> e.ground]
  ELSE LET prepared == Prepared(g.bindings, context)
       IN  [bindings |-> prepared, value |-> Instance(prepared, context, e.variable)]
Argument(g, id, e) == ArgumentIn(g, VarsOf(g, id), e)
WithBindings(g, bindings) == [g EXCEPT !.bindings = bindings]

(* A pattern is matched with the variables bound outside, which are taken  *)
(* from the table (buildInitialSubstitution).                              *)
Outer(g, id, e) == IF e.variable = 0 THEN e.ground ELSE ValuesOf(g.bindings, VarsOf(g, id))[e.variable]

Choose(g, id, e) ==
  LET p == g.heap[id]
      n == Len(e.args) - 1
      cloned[k \in 0 .. n] == IF k = 0 THEN g ELSE Clone(cloned[k - 1], id, <<e.args[k]>> \o p.pending)
  IN  WithPending(cloned[n], id, <<e.args[n + 1]>> \o p.pending)

DecomposeStar(g, id, expression) ==
  LET p == g.heap[id]
  IN  WithPending(Clone(g, id, p.pending), id, <<Expr[expression].child, expression>> \o p.pending)

DecomposeRule(g, id, e) ==
  LET p == g.heap[id]
      argument == Argument(g, id, e)
      found == {r[3] : r \in {r \in Rewrites[e.rule] : r[1] = argument.value /\ r[2] = p.dag}}
  IN  Die(NewProcess(WithBindings(g, argument.bindings), id,
            [kind |-> "application", owner |-> p.owner, rule |-> e.rule,
             strategies |-> e.strategies, pending |-> p.pending, todo |-> found]), id)

(* Calls.  A tail call of a strategy without arguments goes on in the same *)
(* process.                                                                *)
TailCall(g, id) == g.heap[id].pending = <<>> /\ g.heap[Owner(g, id)].kind = "call"

DecomposeSimpleCall(g, id, e) ==
  LET p == g.heap[id]
      rhs == Strategies[e.strategy].definitions[1].rhs
  IN  IF TailCall(g, id) THEN WithPending(g, id, <<rhs>>)
      ELSE Die(NewCallTask(g, id, p.dag, rhs, p.pending, EMPTY_CONTEXT), id)

DecomposeAnyCall(g, id, e) ==
  LET p == g.heap[id]
      argument == Argument(g, id, e)
      definitions == Strategies[e.strategy].definitions
      matches == [k \in DOMAIN definitions |->
                    {m[2] : m \in {m \in definitions[k].matches : m[1] = argument.value}}]
  IN  Die(NewProcess(WithBindings(g, argument.bindings), id,
            [kind |-> "call", owner |-> p.owner, dag |-> p.dag, strategy |-> e.strategy,
             pending |-> p.pending, tail |-> TailCall(g, id), todo |-> matches]), id)

DecomposeCall(g, id, e) ==
  LET s == Strategies[e.strategy]
  IN  IF s.definitions = <<>> THEN Die(g, id)
      ELSE IF s.simple THEN DecomposeSimpleCall(g, id, e)
      ELSE DecomposeAnyCall(g, id, e)

DecomposeMatchrew(g, id, expression) ==
  LET p == g.heap[id]
      e == Expr[expression]
      found == {m \in Patterns[e.pattern] : m.term = p.dag /\ m.argument = Outer(g, id, e)}
  IN  Die(NewProcess(g, id, [kind |-> "matchrew", owner |-> p.owner, expression |-> expression,
                             pending |-> p.pending, todo |-> found]), id)

Decompose(g, id, expression) ==
  LET p == g.heap[id]
      e == Expr[expression]
  IN  CASE e.op = "idle" -> g
        [] e.op = "fail" -> Die(g, id)
        [] e.op = "seq" -> WithPending(g, id, e.args \o p.pending)
        [] e.op = "alt" -> Choose(g, id, e)
        [] e.op = "star" -> DecomposeStar(g, id, expression)
        [] e.op = "plus" -> WithPending(g, id, <<e.child, e.star>> \o p.pending)
        [] e.op = "test" -> IF <<Outer(g, id, e), p.dag>> \in Tests[e.pattern] THEN g ELSE Die(g, id)
        [] e.op = "rule" -> DecomposeRule(g, id, e)
        [] e.op = "branch" -> Die(NewBranchTask(g, id, p.dag, expression, p.pending), id)
        [] e.op = "one" ->
             Die(NewTask(g, id, Task("one", p.owner, VarsOf(g, id), p.pending), p.dag, e.child), id)
        [] e.op = "call" -> DecomposeCall(g, id, e)
        [] e.op = "matchrew" -> DecomposeMatchrew(g, id, expression)

----------------------------------------------------------------------------
(* run.  What a process that searches may find next; nothing if it is done.*)
Pending(todo) == SelectInSeq(todo, LAMBDA s : s # {})
NextFound(g, id) ==
  LET e == g.heap[id]
  IN  IF e.kind # "call" THEN e.todo
      ELSE IF Pending(e.todo) = 0 THEN {} ELSE e.todo[Pending(e.todo)]

RunDecomposition(g, id) ==
  LET p == g.heap[id]
      seen == See(g, p.owner, p.dag, p.pending)
  IN  IF AlreadySeen(g, p.owner, p.dag, p.pending) THEN Die(g, id)
      ELSE IF p.pending = <<>> THEN Succeeded(seen, id, p.dag)
      ELSE Decompose(WithPending(seen, id, Tail(p.pending)), id, Head(p.pending))

(* An application, or a condition fragment that is matched.                *)
RunRewrite(g, id, value) ==
  LET p == g.heap[id]
  IN  Resolve([g EXCEPT !.heap[id].todo = @ \ {value}], id, value, p.rule, p.strategies, p.pending)

OpenIfBound(g, values) ==
  IF values = <<>> THEN [bindings |-> g.bindings, context |-> EMPTY_CONTEXT]
  ELSE OpenContext(g.bindings, values, NoFilter)

(* The task of a tail call takes the place of the task of the caller.      *)
RunCall(g, id, values) ==
  LET p == g.heap[id]
      k == Pending(p.todo)
      opened == OpenIfBound(g, values)
      h == [WithBindings(g, opened.bindings) EXCEPT !.heap[id].todo[k] = @ \ {values}]
      sibling == IF p.tail THEN p.owner ELSE id
      pending == IF p.tail THEN g.heap[p.owner].pending ELSE p.pending
  IN  NewCallTask(h, sibling, p.dag, Strategies[p.strategy].definitions[k].rhs, pending,
                  opened.context)

RunMatchrew(g, id, match) ==
  LET p == g.heap[id]
      opened == OpenIfBound(g, match.values \o ValuesOf(g.bindings, VarsOf(g, id)))
      h == [WithBindings(g, opened.bindings) EXCEPT !.heap[id].todo = @ \ {match}]
  IN  NewSubtermTask(h, id, p.expression, match, opened.context, p.pending)

(* The odometer over the results of the children, with one of them fixed.  *)
Selected(g, p, k, index) ==
  [p EXCEPT !.indices[k] = index, !.nodes[k] = g.heap[p.owner].results[k][index]]
ShortOdometer(g, p) ==
  IF p.indices[p.i] + 1 < p.limits[p.i]
  THEN [Selected(g, p, p.i, p.indices[p.i] + 1) EXCEPT !.i = Len(p.indices)]
  ELSE [Selected(g, p, p.i, 1) EXCEPT !.i = IF @ - 1 = p.fixed THEN @ - 2 ELSE @ - 1]
Odometer(g, p) ==
  IF p.indices[p.i] < p.limits[p.i]
  THEN [Selected(g, p, p.i, p.indices[p.i] + 1) EXCEPT !.i = Len(p.indices)]
  ELSE [Selected(g, p, p.i, 1) EXCEPT !.i = IF @ - 1 = p.fixed THEN @ - 2 ELSE @ - 1]

RunRemaining(g, id) ==
  LET p == g.heap[id]
      next == Odometer(g, p)
      h == [PushSolution(g, p.owner, p.nodes) EXCEPT !.heap[id] = next]
  IN  IF next.i < 1 THEN Die(h, id) ELSE h
=============================================================================
