------------------------ MODULE SolutionEnumeration ------------------------
(***************************************************************************)
(* What a search for the solutions of a strategy promises: it gives them   *)
(* one at a time, each one once, and says that there are no more when all  *)
(* were given.  A strategy with one(...) has several outcomes: the         *)
(* solutions given are always part of one of them.                         *)
(***************************************************************************)
EXTENDS Sequences, SequencesExt

VARIABLES
  outcomes,       \* the sets of solutions that the strategy allows
  found,          \* the solutions given
  done            \* the caller was told that there are no more

vars == <<outcomes, found, done>>

Init == found = <<>> /\ done = FALSE

Give(solution) ==
  /\ ~done /\ solution \notin ToSet(found)
  /\ found' = Append(found, solution)
  /\ \E outcome \in outcomes : ToSet(found') \subseteq outcome
  /\ UNCHANGED <<outcomes, done>>

Finish ==
  /\ ToSet(found) \in outcomes
  /\ done' = TRUE
  /\ UNCHANGED <<outcomes, found>>

Next == Finish \/ \E solution \in UNION outcomes : Give(solution)

Spec == Init /\ [][Next]_vars
=============================================================================
