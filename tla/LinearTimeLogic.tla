-------------------------- MODULE LinearTimeLogic ---------------------------
(***************************************************************************)
(* Formulas of linear time logic in negation normal form, and what they    *)
(* mean, said without automata: the reference for the translation.         *)
(*                                                                         *)
(* A formula is <<operator, argument, ...>>.                               *)
(*                                                                         *)
(* A word is an ultimately periodic sequence of valuations: [letters,      *)
(* back]; after the last letter it goes on at position back.  A valuation  *)
(* is the set of the propositions that are true.                           *)
(***************************************************************************)
EXTENDS Naturals, Sequences, FiniteSets

CONSTANT Propositions

ASSUME PropositionsAssumption == IsFiniteSet(Propositions)

Valuations == SUBSET Propositions

True == <<"true">>
False == <<"false">>
Proposition(p) == <<"proposition", p>>
Not(f) == <<"not", f>>
NextTime(f) == <<"next", f>>
And(f, g) == <<"and", f, g>>
Or(f, g) == <<"or", f, g>>
Until(f, g) == <<"until", f, g>>
Release(f, g) == <<"release", f, g>>
Eventually(f) == Until(True, f)
Always(f) == Release(False, f)

Constants == {"true", "false"}
Unary == {"not", "next"}

(* The words of at most n letters.                                         *)
WordsUpTo(n) ==
  UNION {[letters : [1 .. k -> Valuations], back : 1 .. k] : k \in 1 .. n}

(* The position k steps after position i.                                  *)
Beyond(w, i, k) ==
  LET n == Len(w.letters)
  IN  IF i + k <= n THEN i + k ELSE w.back + ((i + k - w.back) % (n - w.back + 1))

(* The positions of w at which f holds.                                    *)
RECURSIVE Truth(_, _)
Truth(f, w) ==
  LET n == Len(w.letters)
      Sub(i) == Truth(f[i], w)
  IN  CASE f[1] = "true" -> 1 .. n
        [] f[1] = "false" -> {}
        [] f[1] = "proposition" -> {i \in 1 .. n : f[2] \in w.letters[i]}
        [] f[1] = "not" -> (1 .. n) \ Sub(2)
        [] f[1] = "next" -> LET t == Sub(2) IN {i \in 1 .. n : Beyond(w, i, 1) \in t}
        [] f[1] = "and" -> Sub(2) \cap Sub(3)
        [] f[1] = "or" -> Sub(2) \cup Sub(3)
        [] f[1] = "until" ->
             LET l == Sub(2)
                 r == Sub(3)
             IN  {i \in 1 .. n : \E k \in 0 .. n : /\ Beyond(w, i, k) \in r
                                                   /\ \A j \in 0 .. k - 1 : Beyond(w, i, j) \in l}
        [] f[1] = "release" ->
             LET l == Sub(2)
                 r == Sub(3)
             IN  {i \in 1 .. n : \A k \in 0 .. n : \/ Beyond(w, i, k) \in r
                                                   \/ \E j \in 0 .. k - 1 : Beyond(w, i, j) \in l}

Holds(w, f) == 1 \in Truth(f, w)

(* Formulas that hold for the same words of a set.                         *)
Equivalent(f, g, words) == \A w \in words : Holds(w, f) = Holds(w, g)
=============================================================================
