-------------------------- MODULE BuchiAutomaton2 ---------------------------
(***************************************************************************)
(* The automaton that the model checker uses: copies of a generalised one, *)
(* one for each number of fairness conditions that were met in order.      *)
(*                                                                         *)
(* An automaton is [states, initial, accepting, trans]: trans[s] is a set  *)
(* of pairs <<to, v>>, the pairs of a TransitionMap with the valuations of *)
(* their BDDs.  A state outside DOMAIN trans is NONE.                      *)
(***************************************************************************)
EXTENDS GenBuchiAutomaton

(* The number of the copy that a transition of fairness fair leads to from *)
(* copy number n.                                                          *)
RECURSIVE Advance(_, _, _)
Advance(order, n, fair) ==
  IF n < Len(order) /\ order[n + 1] \in fair THEN Advance(order, n + 1, fair) ELSE n

(* The transitions that generate computes for a state <<s, n>>.            *)
Instances(ga, x) ==
  LET from == IF x[2] = Len(ga.order) THEN 0 ELSE x[2]
  IN  {<<<<t.to, Advance(ga.order, from, t.fair)>>, t.v>> : t \in ga.trans[x[1]]}

(* generate, from each initial state                                       *)
RECURSIVE Generate(_, _, _)
Generate(ga, done, todo) ==
  LET all == [x \in todo |-> Instances(ga, x)] @@ done
      targets == UNION {{t[1] : t \in all[x]} : x \in todo}
  IN  IF todo = {} THEN done ELSE Generate(ga, all, targets \ DOMAIN all)

(* The constructor, up to the collapse.                                    *)
Degeneralized(ga) ==
  LET initial == ga.initial \X {0}
      trans == Generate(ga, <<>>, initial)
  IN  [states |-> ga.states \X (0 .. Len(ga.order)),
       initial |-> initial,
       accepting |-> {x \in DOMAIN trans : x[2] = Len(ga.order)},
       trans |-> trans]

HasNonAcceptingTarget(ba, x) == \E t \in ba.trans[x] : t[1] \notin ba.accepting

(* States that collapseStates identifies: those with the same transitions, *)
(* unless only one of them accepts and not all successors do.              *)
Identified(ba, x, y) ==
  /\ ba.trans[x] = ba.trans[y]
  /\ HasNonAcceptingTarget(ba, x) => (x \in ba.accepting <=> y \in ba.accepting)

(* collapseStates                                                          *)
BuchiCollapsed(ba) ==
  LET rep == [x \in DOMAIN ba.trans |-> CHOOSE y \in DOMAIN ba.trans : Identified(ba, x, y)]
      kept == {rep[x] : x \in DOMAIN rep}
  IN  [states |-> kept,
       initial |-> {rep[x] : x \in ba.initial},
       accepting |-> {rep[x] : x \in ba.accepting},
       trans |-> [x \in kept |-> {<<rep[t[1]], t[2]>> : t \in ba.trans[x]}]]

(* The condition for collapsing at all.                                    *)
WorthCollapsing(ba) ==
  Cardinality({ba.trans[x] : x \in DOMAIN ba.trans}) < Cardinality(ba.states)

(***************************************************************************)
(* What it accepts: a run through accepting states for ever.               *)
(***************************************************************************)
BuchiAccepts(ba, w) ==
  LET nodes == (DOMAIN ba.trans) \X (1 .. Len(w.letters))
      fair(x) == IF x[1] \in ba.accepting THEN {"accepting"} ELSE {}
      steps == [x \in nodes |->
                  {[node |-> <<t[1], Beyond(w, x[2], 1)>>, fair |-> fair(x)] :
                     t \in {u \in ba.trans[x[1]] : u[2] = w.letters[x[2]]}}]
  IN  \E s \in ba.initial : <<s, 1>> \in FairNodes(nodes, steps, {"accepting"})
=============================================================================
