------------------------- MODULE StrategySemantics -------------------------
(***************************************************************************)
(* What a strategy means, without queues, tables or graphs: the rewrites   *)
(* a point <<term, stack>> allows.  A stack is the sequence of strategy    *)
(* expressions still to be executed, the first one first; each expression  *)
(* is a node of the parsed strategy, so two occurrences of the same text   *)
(* are different nodes.  Calls without arguments to one strategy are one   *)
(* node: StrategyStackManager compares them by strategy.                   *)
(***************************************************************************)
EXTENDS Integers, Sequences

CONSTANTS
  Expr,           \* expression -> <<operator, arguments>>
  Rewrites        \* rule -> term -> the results of findNextRewrite, in order

Op(e) == Expr[e][1]
Args(e) == Expr[e][2]

(* Decomposing the top of a stack: the stacks that may take its place.     *)
Unfold(stack) ==
  LET e == Head(stack)
      rest == Tail(stack)
  IN  CASE Op(e) = "idle" -> {rest}
        [] Op(e) \in {"fail", "rule"} -> {}
        [] Op(e) \in {"seq", "plus", "call"} -> {Args(e) \o rest}
        [] Op(e) = "alt" -> {<<Args(e)[k]>> \o rest : k \in DOMAIN Args(e)}
        [] Op(e) = "star" -> {rest, <<Args(e)[1], e>> \o rest}

(* The stacks that are reached without rewriting.                          *)
RECURSIVE Closure(_)
Closure(stacks) ==
  LET more == stacks \cup UNION {Unfold(s) : s \in stacks \ {<<>>}}
  IN  IF more = stacks THEN stacks ELSE Closure(more)

Applications(point) == {s \in Closure({point[2]}) : s # <<>> /\ Op(Head(s)) = "rule"}

(* The rewrites from a point, <<rule, point>>.                             *)
Moves(point) ==
  UNION {LET rule == Args(Head(s))[1]
             results == Rewrites[rule][point[1]]
         IN  {<<rule, <<results[k], Tail(s)>>>> : k \in DOMAIN results} :
           s \in Applications(point)}

(* The strategy may stop at a point: its term is a solution.               *)
MayStop(point) == <<>> \in Closure({point[2]})
=============================================================================
