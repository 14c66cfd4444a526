---------------------------- MODULE LogicFormula ----------------------------
(***************************************************************************)
(* A formula as the translation sees it: a sequence of nodes <<operator,   *)
(* argument, ...>> with equal nodes shared, the arguments indices of       *)
(* earlier nodes.  The code counts from 0.                                 *)
(***************************************************************************)
EXTENDS LinearTimeLogic

(* makeProp and makeOp: the formula with the node, and the node's index.   *)
MakeNode(nodes, node) ==
  IF \E i \in DOMAIN nodes : nodes[i] = node
  THEN [nodes |-> nodes, top |-> CHOOSE i \in DOMAIN nodes : nodes[i] = node]
  ELSE [nodes |-> Append(nodes, node), top |-> Len(nodes) + 1]

(* TemporalSymbol::build.  The formula is in negation normal form, so that *)
(* it cannot fail; what it does not know it takes for a proposition.       *)
RECURSIVE Build(_, _)
Build(nodes, f) ==
  IF f[1] \in Constants \cup {"proposition"} THEN MakeNode(nodes, f)
  ELSE LET a == Build(nodes, f[2])
           b == Build(a.nodes, f[3])
       IN  IF f[1] \in Unary THEN MakeNode(a.nodes, <<f[1], a.top>>)
           ELSE MakeNode(b.nodes, <<f[1], a.top, b.top>>)

(* The formula that a node stands for.                                     *)
RECURSIVE FormulaOf(_, _)
FormulaOf(nodes, i) ==
  LET n == nodes[i]
  IN  IF n[1] \in Constants \cup {"proposition"} THEN n
      ELSE IF n[1] \in Unary THEN <<n[1], FormulaOf(nodes, n[2])>>
      ELSE <<n[1], FormulaOf(nodes, n[2]), FormulaOf(nodes, n[3])>>
=============================================================================
