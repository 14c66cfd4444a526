--------------------------- MODULE TransitionSets ---------------------------
(***************************************************************************)
(* The sets of transitions of alternating and generalised automata.        *)
(*                                                                         *)
(* The code keeps maps from a target to a BDD.  Here such a map is the set *)
(* of its pairs <<target, v>> with v a valuation the BDD is true of, so    *)
(* that an or is a union, a subtraction a difference, and an entry that    *)
(* has become false is not there.                                          *)
(***************************************************************************)
EXTENDS FiniteSets, FiniteSetsExt

(* Mutant: the larger conjunction is kept.                                 *)
SubsumesSmaller(t, u) == t[2] = u[2] /\ u[1] \subseteq t[1] /\ t[1] # u[1]

(***************************************************************************)
(* A transition of an alternating automaton, <<conjunction, v>>, makes one *)
(* with a larger conjunction useless.                                      *)
(***************************************************************************)
Subsumes(t, u) == t[2] = u[2] /\ t[1] \subseteq u[1] /\ t[1] # u[1]

(* TransitionSet::insert, for one valuation of the transition.             *)
Insert(t, ts) ==
  IF \E u \in ts : Subsumes(u, t) THEN ts ELSE {u \in ts : ~Subsumes(t, u)} \cup {t}

InsertAll(ts, more) == FoldSet(Insert, ts, more)

(* TransitionSet::product: both conjunctions, for the valuations of both.  *)
Product(ts1, ts2) ==
  InsertAll({}, {<<x[1][1] \cup x[2][1], x[1][2]>> : x \in {y \in ts1 \X ts2 : y[1][2] = y[2][2]}})

(***************************************************************************)
(* RawTransitionSet: transitions with their whole guards <<conjunction,    *)
(* guard>>, not simplified, since fairness is a matter of whole guards.    *)
(***************************************************************************)
Raw(ts) == {<<c, {t[2] : t \in {u \in ts : u[1] = c}}>> : c \in {t[1] : t \in ts}}

RawProduct(rs1, rs2) ==
  {<<x[1][1] \cup x[2][1], x[1][2] \cap x[2][2]>> :
     x \in {y \in rs1 \X rs2 : y[1][2] \cap y[2][2] # {}}}
=============================================================================
