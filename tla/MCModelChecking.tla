-------------------------- MODULE MCModelChecking --------------------------
(***************************************************************************)
(* Instances of the two parts of the model checker: the translation of all *)
(* the small formulas of a kind, on two propositions, and of some larger   *)
(* ones; and the search, in small graphs with branching, joins, self loops *)
(* and deadlocks, with automata of the shapes that formulas give.          *)
(***************************************************************************)
EXTENDS ModelChecker2, LtlTranslation

(* Successor lists of a state of a three-state system, in both orders      *)
(* where the order matters.                                                *)
Lists == {<<>>, <<0>>, <<1>>, <<2>>, <<1, 2>>, <<2, 1>>, <<0, 2>>, <<1, 0>>, <<2, 0>>}
ThreeStates == 0 .. 2
MiddleP == 0 :> {} @@ 1 :> {"p"} @@ 2 :> {}
MCSystems ==
  [states : {ThreeStates},
   succ : [ThreeStates -> Lists],
   label : {MiddleP, (0 :> {"p"} @@ 1 :> {} @@ 2 :> {"q"})}]
LeastSystem == [states |-> ThreeStates, succ |-> [s \in ThreeStates |-> <<>>], label |-> MiddleP]

(* BDDs: the branches of true, of a literal, and of p or q.                *)
Anything == {[on |-> {}, off |-> {}, val |-> TRUE]}
Lit(p, positive) == {[on |-> {p}, off |-> {}, val |-> positive],
                     [on |-> {}, off |-> {p}, val |-> ~positive]}
POrQ == {[on |-> {"p"}, off |-> {}, val |-> TRUE],
         [on |-> {"q"}, off |-> {"p"}, val |-> TRUE],
         [on |-> {}, off |-> {"p", "q"}, val |-> FALSE]}
To(guard, to) == [guard |-> guard, to |-> to]

(* [] <> p *)
InfinitelyOften ==
  [states |-> {0, 1}, init |-> <<0>>, acc |-> {1},
   trans |-> (0 :> <<To(Lit("p", FALSE), 0), To(Lit("p", TRUE), 1)>> @@
              1 :> <<To(Lit("p", FALSE), 0), To(Lit("p", TRUE), 1)>>)]

(* <> [] ~ p, nondeterministic *)
EventuallyNever ==
  [states |-> {0, 1}, init |-> <<0>>, acc |-> {1},
   trans |-> (0 :> <<To(Anything, 0), To(Lit("p", FALSE), 1)>> @@
              1 :> <<To(Lit("p", FALSE), 1)>>)]

(* Two initial states and three states, all reading both propositions: the *)
(* tables are shared between the searches from the two initial states.     *)
TwoInitial ==
  [states |-> {0, 1, 2}, init |-> <<0, 2>>, acc |-> {0, 2},
   trans |-> (0 :> <<To(Lit("q", TRUE), 1)>> @@
              1 :> <<To(POrQ, 1), To(Lit("q", FALSE), 0)>> @@
              2 :> <<To(Lit("p", TRUE), 1), To(POrQ, 2)>>)]

(* The automaton of false.                                                 *)
NoRun == [states |-> {0}, init |-> <<>>, acc |-> {}, trans |-> (0 :> <<>>)]

MCAutomata == {InfinitelyOften, EventuallyNever, TwoInitial, NoRun}

----------------------------------------------------------------------------
p == Proposition("p")
q == Proposition("q")

(* Every request is answered, in both directions.                          *)
Responses == And(Always(Or(Not(p), Eventually(q))), Always(Or(Not(q), Eventually(p))))

Left ==
  {True, p, Not(q), NextTime(p), Eventually(q), Always(p), Until(p, q), Always(Eventually(p))}

Right ==
  {p, q, False, NextTime(Not(q)), Always(q), Eventually(Always(p)), Always(Eventually(q)),
   Until(Not(p), q), Release(p, q), Or(Not(p), Eventually(q)), Eventually(And(q, NextTime(p)))}

MCFormulas ==
  UNION {{And(f, g), Or(f, g), Until(f, g), Until(g, f), Release(f, g)} : <<f, g>> \in Left \X Right}
  \cup {And(Until(p, q), Until(q, p)), Responses, And(Responses, Eventually(q)),
        And(Responses, Or(Eventually(p), Eventually(q))),
        And(Always(Eventually(And(p, Not(q)))), Always(Eventually(And(q, Not(p))))),
        And(Always(Eventually(p)), And(Always(Eventually(q)), Eventually(Always(Or(p, q)))))}

(* All words of up to two letters, and those that repeat two after one.    *)
MCWords ==
  WordsUpTo(2) \cup [letters : [1 .. 3 -> Valuations], back : {2}]

OneSystem == {LeastSystem}
OneAutomaton == {NoRun}
(* The formula has two initial states that reach each other.               *)
SplitFormulas == {And(Responses, Or(Eventually(p), Eventually(q)))}

----------------------------------------------------------------------------
(* An automaton is made before it is searched.  Every formula is followed  *)
(* by the least search, and all searches follow a translation of false,    *)
(* which has been made.                                                    *)
LeastSearch == sys = LeastSystem /\ aut = NoRun
FalseTranslated ==
  /\ formula = False /\ graph = Build(<<>>, False) /\ pc = "done"
  /\ vwaa = None /\ gba = None /\ info = None /\ buchi = None /\ search = None

MCInit ==
  \/ FalseTranslated /\ Init
  \/ TranslationInit /\ LeastSearch /\ Init
MCNext ==
  \/ TranslationNext /\ UNCHANGED vars
  \/ TranslationOver /\ Next /\ UNCHANGED translationVars
MCSpec ==
  MCInit /\ [][MCNext]_<<vars, translationVars>> /\ Progress /\ WF_vars(TranslationOver /\ Next)
=============================================================================
