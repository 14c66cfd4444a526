--------------------------- MODULE StrategyResults ---------------------------
(***************************************************************************)
(* The results of a strategy, without tasks, processes, seen sets or       *)
(* contexts.  A point is a term and a stack of pairs <<expression, values  *)
(* of the variables>>; the results are the terms of the points with an     *)
(* empty stack that can be reached.  A strategy expression that decides by *)
(* the results of another one asks for all of them.                        *)
(***************************************************************************)
EXTENDS FiniteSetsExt, SequencesExt

CONSTANTS
  Expr, Rewrites, Fragments, Tests, Patterns, Rebuild, Strategies,   \* as in StrategicTasks
  Terms           \* the terms that one(...) may have to choose from

(* pick[e][term] is the result that the expression one(...), e, keeps.     *)
RECURSIVE Results(_, _, _, _), Step(_, _), Reached(_, _)

ValueOf(e, values) == IF e.variable = 0 THEN e.ground ELSE values[e.variable]

(* The values a rule ends with, its condition being solved by strategies.  *)
RECURSIVE Solved(_, _, _, _, _)
Solved(value, rule, strategies, values, pick) ==
  IF strategies = <<>> THEN {value}
  ELSE LET results == Results(Head(strategies), value, values, pick)
           next == {f[2] : f \in {f \in Fragments[rule] : f[1] \in results}}
       IN  UNION {Solved(v, rule, Tail(strategies), values, pick) : v \in next}

Tuples(sets) == {t \in [DOMAIN sets -> UNION Range(sets)] : \A k \in DOMAIN sets : t[k] \in sets[k]}

Rewritten(e, term, values, pick) ==
  UNION {Solved(r[3], e.rule, e.strategies, values, pick) :
           r \in {r \in Rewrites[e.rule] : r[1] = ValueOf(e, values) /\ r[2] = term}}

(* Each subterm is replaced by one of the results of its strategy.         *)
Replaced(e, match, values, pick) ==
  LET inner == match.values \o values
      results == [k \in DOMAIN e.strategies |->
                    Results(e.strategies[k], match.subterms[k], inner, pick)]
      from == Rebuild[e.pattern]
  IN  {[k \in DOMAIN from |-> IF from[k] > 0 THEN t[from[k]][1] ELSE inner[-from[k]][1]] :
         t \in Tuples(results)}

Called(e, values) ==
  UNION {{<<d.rhs, m[2]>> : m \in {m \in d.matches : m[1] = ValueOf(e, values)}} :
           d \in Range(Strategies[e.strategy].definitions)}

(* e ? f : g and the operators that are defined by it.                     *)
Branched(node, values, term, pick) ==
  LET e == Expr[node]
      results == Results(e.initial, term, values, pick)
  IN  IF results = {}
      THEN CASE e.onFailure = "FAIL" -> {}
             [] e.onFailure = "IDLE" -> {<<term, <<>>>>}
             [] e.onFailure = "NEW_STRATEGY" -> {<<term, <<<<e.failure, values>>>>>>}
      ELSE CASE e.onSuccess = "FAIL" -> {}
             [] e.onSuccess = "IDLE" -> {<<term, <<>>>>}
             [] e.onSuccess = "PASS_THRU" -> {<<r, <<>>>> : r \in results}
             [] e.onSuccess = "NEW_STRATEGY" -> {<<r, <<<<e.success, values>>>>>> : r \in results}
             [] e.onSuccess = "ITERATE" -> {<<r, <<<<node, values>>>>>> : r \in results}

Kept(node, results, term, pick) ==
  IF pick[node][term] \in results THEN {pick[node][term]}
  ELSE IF results = {} THEN {} ELSE {CHOOSE r \in results : TRUE}

(* The terms and stacks that take the place of a point's first expression. *)
Unfolded(node, values, term, pick) ==
  LET e == Expr[node]
      At(expressions) == <<term, [k \in DOMAIN expressions |-> <<expressions[k], values>>]>>
  IN  CASE e.op = "idle" -> {At(<<>>)}
        [] e.op = "fail" -> {}
        [] e.op = "seq" -> {At(e.args)}
        [] e.op = "alt" -> {At(<<a>>) : a \in Range(e.args)}
        [] e.op = "star" -> {At(<<>>), At(<<e.child, node>>)}
        [] e.op = "plus" -> {At(<<e.child, e.star>>)}
        [] e.op = "test" -> IF <<ValueOf(e, values), term>> \in Tests[e.pattern] THEN {At(<<>>)} ELSE {}
        [] e.op = "rule" -> {<<r, <<>>>> : r \in Rewritten(e, term, values, pick)}
        [] e.op = "branch" -> Branched(node, values, term, pick)
        [] e.op = "one" ->
             {<<r, <<>>>> : r \in Kept(node, Results(e.child, term, values, pick), term, pick)}
        [] e.op = "call" -> {<<term, <<c>>>> : c \in Called(e, values)}
        [] e.op = "matchrew" ->
             {<<r, <<>>>> : r \in UNION {Replaced(e, m, values, pick) :
                m \in {m \in Patterns[e.pattern] : m.term = term /\ m.argument = ValueOf(e, values)}}}

Step(point, pick) ==
  IF point[2] = <<>> THEN {}
  ELSE LET top == Head(point[2])
       IN  {<<u[1], u[2] \o Tail(point[2])>> : u \in Unfolded(top[1], top[2], point[1], pick)}

Reached(points, pick) ==
  LET more == points \cup UNION {Step(p, pick) : p \in points}
  IN  IF more = points THEN points ELSE Reached(more, pick)

Results(node, term, values, pick) ==
  {p[1] : p \in {p \in Reached({<<term, <<<<node, values>>>>>>}, pick) : p[2] = <<>>}}

(* The outcomes of a strategy: one for each way to choose.                 *)
Ones == {e \in DOMAIN Expr : Expr[e].op = "one"}
Outcomes(node, term) == {Results(node, term, <<>>, pick) : pick \in [Ones -> [Terms -> Terms]]}
=============================================================================
