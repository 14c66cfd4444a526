-------------------------- MODULE VariableBindings --------------------------
(***************************************************************************)
(* The table of variable contexts of a strategic search, class             *)
(* VariableBindingsManager (src/src/StrategyLanguage), as operations on a  *)
(* record                                                                  *)
(*                                                                         *)
(*   table         the cells; a context is the number of its cell (here    *)
(*                 they count from 1, and EMPTY_CONTEXT is 0)              *)
(*   free          freeCells, a queue                                      *)
(*   current       currentContext, whose values are in                     *)
(*   substitution  the cached substitution                                 *)
(*                                                                         *)
(* A cell has a count of users, the values of the variables and, if it is  *)
(* shared, its filter: contextShare is the set of the cells with one.      *)
(*                                                                         *)
(* CloseKeepingCache, CloseForAll, SameCell and FreeTwice are mutants of   *)
(* the operator that follows them.                                         *)
(***************************************************************************)
EXTENDS Integers, Sequences

EMPTY_CONTEXT == 0
NoFilter == "none"

EmptyCell == [users |-> 0, values |-> <<>>, filter |-> NoFilter]
NoBindings == [table |-> <<>>, free |-> <<>>, current |-> EMPTY_CONTEXT, substitution |-> <<>>]

Contexts(b) == DOMAIN b.table
Open(b, c) == c \in Contexts(b) /\ b.table[c].users > 0
Holds(b, c, values, filter) ==
  Open(b, c) /\ b.table[c].values = values /\ b.table[c].filter = filter

----------------------------------------------------------------------------
(* The cell a context to be opened will have.                              *)
NextContext(b) == IF b.free = <<>> THEN Len(b.table) + 1 ELSE Head(b.free)

WithCell(b, c, cell) ==
  [b EXCEPT !.table = IF c = Len(@) + 1 THEN Append(@, cell) ELSE [@ EXCEPT ![c] = cell]]

OpenCell(b, values, filter) ==
  LET taken == [b EXCEPT !.free = IF @ = <<>> THEN @ ELSE Tail(@)]
  IN  WithCell(taken, NextContext(b), [users |-> 1, values |-> values, filter |-> filter])

CloseKeepingCache(b, c) ==
  IF b.table[c].users # 1 THEN [b EXCEPT !.table[c].users = @ - 1]
  ELSE [b EXCEPT !.table[c] = EmptyCell, !.free = Append(@, c)]
CloseForAll(b, c) ==
  [b EXCEPT !.table[c] = EmptyCell, !.free = Append(@, c),
            !.current = IF @ = c THEN EMPTY_CONTEXT ELSE @]
CloseCell(b, c) ==
  IF b.table[c].users # 1 THEN [b EXCEPT !.table[c].users = @ - 1]
  ELSE [b EXCEPT !.table[c] = EmptyCell, !.free = Append(@, c),
                 !.current = IF @ = c THEN EMPTY_CONTEXT ELSE @]
CloseContext(b, c) == IF c = EMPTY_CONTEXT THEN b ELSE CloseCell(b, c)

Protect(b, c) == IF c = EMPTY_CONTEXT THEN b ELSE [b EXCEPT !.table[c].users = @ + 1]

----------------------------------------------------------------------------
(* openContext.  With a filter, a context with the same filter and values  *)
(* is used instead, and the cell filled for the comparison is closed.      *)
SameCell(b, values, filter) ==
  {c \in Contexts(b) : filter # NoFilter /\ Holds(b, c, values, filter) /\ c = NextContext(b)}
SameContexts(b, values, filter) ==
  {c \in Contexts(b) : filter # NoFilter /\ Holds(b, c, values, filter)}

FreeTwice(b, values, filter, c) ==
  Protect(CloseForAll(CloseForAll(OpenCell(b, values, NoFilter), NextContext(b)), NextContext(b)), c)
Share(b, values, filter, c) ==
  Protect(CloseCell(OpenCell(b, values, NoFilter), NextContext(b)), c)

(* What openContext leaves and returns.                                    *)
OpenContext(b, values, filter) ==
  LET same == SameContexts(b, values, filter)
      c == CHOOSE s \in same : TRUE
  IN  IF same = {}
      THEN [bindings |-> OpenCell(b, values, filter), context |-> NextContext(b)]
      ELSE [bindings |-> Share(b, values, filter, c), context |-> c]

(* getValues.                                                              *)
ValuesOf(b, c) == IF c = EMPTY_CONTEXT THEN <<>> ELSE b.table[c].values

(* instantiate: the substitution is filled unless it is already there.     *)
Prepared(b, c) ==
  IF c \in {EMPTY_CONTEXT, b.current} THEN b
  ELSE [b EXCEPT !.current = c, !.substitution = b.table[c].values]
(* The value of a variable in a context that was prepared.                 *)
Instance(b, c, variable) == b.substitution[variable]
=============================================================================
