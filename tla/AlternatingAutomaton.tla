------------------------ MODULE AlternatingAutomaton ------------------------
(***************************************************************************)
(* The very weak alternating automaton of a formula.  Its states are nodes *)
(* of the formula.  A run over a word is a tree: from a state and a        *)
(* valuation it goes on in all the states of the conjunction of some       *)
(* transition, and on no branch may it stay in a final state, an until,    *)
(* for ever.  States are not renumbered and final states not ordered.      *)
(***************************************************************************)
EXTENDS LogicFormula, TransitionSets

(* dnf: the node as a disjunction of conjunctions of states, with true as  *)
(* the guard of each.                                                      *)
RECURSIVE Dnf(_, _)
Dnf(nodes, i) ==
  LET n == nodes[i]
  IN  CASE n[1] = "and" -> Product(Dnf(nodes, n[2]), Dnf(nodes, n[3]))
        [] n[1] = "or" -> InsertAll(Dnf(nodes, n[2]), Dnf(nodes, n[3]))
        [] OTHER -> {{i}} \X Valuations

(* computeTransitionSet                                                    *)
RECURSIVE TransitionSet(_, _)
TransitionSet(nodes, i) ==
  LET n == nodes[i]
      left == TransitionSet(nodes, n[2])
      right == TransitionSet(nodes, n[3])
      stay == {{i}} \X Valuations
  IN  CASE n[1] = "proposition" -> {{}} \X {v \in Valuations : n[2] \in v}
        [] n[1] = "true" -> {{}} \X Valuations
        [] n[1] = "false" -> {}
        [] n[1] = "not" -> {{}} \X {v \in Valuations : nodes[n[2]][2] \notin v}
        [] n[1] = "next" -> Dnf(nodes, n[2])
        [] n[1] = "and" -> Product(left, right)
        [] n[1] = "or" -> InsertAll(left, right)
        [] n[1] = "until" -> InsertAll(Product(left, stay), right)
        [] n[1] = "release" -> Product(InsertAll(left, stay), right)

(* findReachable                                                           *)
RECURSIVE FindReachable(_, _, _)
FindReachable(nodes, seen, ts) ==
  LET fresh == UNION {t[1] : t \in ts} \ seen
  IN  IF fresh = {} THEN seen
      ELSE FindReachable(nodes, seen \cup fresh, UNION {TransitionSet(nodes, i) : i \in fresh})

(* The constructor, with reachabilityOpt.                                  *)
VeryWeakAlternatingAutomaton(nodes, top) ==
  LET initial == Dnf(nodes, top)
      states == FindReachable(nodes, {}, initial)
  IN  [initial |-> {t[1] : t \in initial},
       trans |-> [i \in states |-> TransitionSet(nodes, i)],
       final |-> {i \in states : nodes[i][1] = "until"}]

(* Mutant: the other transition need not be possible whenever this one is. *)
CheckFairnessOfSomeGuard(va, raw, f) ==
  \/ f \notin raw[1]
  \/ \E other \in Raw(va.trans[f]) : f \notin other[1] /\ other[1] \subseteq raw[1]

(* checkFairness: on a transition of several states at once, a final state *)
(* has not stayed where it is only because of others that lead to it.      *)
CheckFairness(va, raw, f) ==
  \/ f \notin raw[1]
  \/ \E other \in Raw(va.trans[f]) : /\ f \notin other[1]
                                     /\ other[1] \subseteq raw[1]
                                     /\ raw[2] \subseteq other[2]

(* computeFairnessSet                                                      *)
FairnessSet(va, raw) == {f \in va.final : CheckFairness(va, raw, f)}

(* Every state says of a word what its node says: by one of its            *)
(* transitions it does so now exactly if the conjunction does so next.     *)
Unfolds(va, nodes, w) ==
  LET truth == [i \in DOMAIN va.trans |-> Truth(FormulaOf(nodes, i), w)]
  IN  \A f \in DOMAIN va.trans :
        truth[f] = {i \in 1 .. Len(w.letters) :
                      \E t \in va.trans[f] : /\ t[2] = w.letters[i]
                                             /\ \A g \in t[1] : Beyond(w, i, 1) \in truth[g]}

StartsRight(va, nodes, top, w) ==
  Holds(w, FormulaOf(nodes, top))
    = \E c \in va.initial : \A g \in c : Holds(w, FormulaOf(nodes, g))
=============================================================================
