------------------------- MODULE GenBuchiAutomaton --------------------------
(***************************************************************************)
(* Generalised automata with fairness conditions on transitions.           *)
(*                                                                         *)
(* An automaton is [states, initial, trans, fairness, order]: trans[s] is  *)
(* a set of transitions [to, fair, v], the pairs of a FairTransitionSet    *)
(* with the valuations of their BDDs; fairness is the set of conditions,   *)
(* order a sequence of them.  A state outside DOMAIN trans is UNDEFINED:   *)
(* it was numbered and never generated.  States are numbers; a fairness    *)
(* condition is an until, and keeps its name when the code renumbers the   *)
(* essential ones.                                                         *)
(***************************************************************************)
EXTENDS AlternatingAutomaton, SequencesExt

(***************************************************************************)
(* Generation from the alternating automaton: states are sets of its       *)
(* states.                                                                 *)
(***************************************************************************)

(* insertFairTransition, for one valuation: fewer obligations and more     *)
(* fairness are better.                                                    *)
Better(t, u) == t.v = u.v /\ t # u /\ t.to \subseteq u.to /\ u.fair \subseteq t.fair

InsertFairTransition(t, fts) ==
  IF \E u \in fts : Better(u, t) THEN fts ELSE {u \in fts : ~Better(t, u)} \cup {t}

(* The transitions of a set of alternating states, raw.                    *)
RawTransitions(va, components) ==
  LET Combine(f, rs) == RawProduct(rs, Raw(va.trans[f]))
  IN  FoldSet(Combine, {<<{}, Valuations>>}, components)

(* The transition set that generateState computes.                         *)
FairTransitions(va, components) ==
  LET OfRaw(raw) == [to : {raw[1]}, fair : {FairnessSet(va, raw)}, v : raw[2]]
  IN  IF components = {}
      THEN [to : {{}}, fair : {va.final}, v : Valuations]
      ELSE FoldSet(InsertFairTransition, {},
                   UNION {OfRaw(raw) : raw \in RawTransitions(va, components)})

(* generateState, from each initial state: the generated states by name.   *)
RECURSIVE GenerateStates(_, _, _)
GenerateStates(va, done, todo) ==
  LET new == [c \in todo |-> FairTransitions(va, c)]
      all == new @@ done
      targets == UNION {{t.to : t \in all[c]} : c \in todo}
  IN  IF todo = {} THEN done ELSE GenerateStates(va, all, targets \ DOMAIN all)

(* A set as a sequence, in one of the orders it has.                       *)
InOrder(set) ==
  LET Add(x, seq) == Append(seq, x)
  IN  FoldSet(Add, <<>>, set)

(* The constructor.  Targets of raw transitions that were not kept have a  *)
(* number too.                                                             *)
Generated(va) ==
  LET trans == GenerateStates(va, <<>>, va.initial)
      named == DOMAIN trans \cup
                 UNION {{raw[1] : raw \in RawTransitions(va, c)} : c \in DOMAIN trans \ {{}}}
      names == InOrder(named)
      Number(c) == CHOOSE n \in DOMAIN names : names[n] = c
  IN  [states |-> DOMAIN names,
       initial |-> {Number(c) : c \in va.initial},
       trans |-> [n \in {Number(c) : c \in DOMAIN trans} |->
                    {[t EXCEPT !.to = Number(t.to)] : t \in trans[names[n]]}],
       fairness |-> va.final,
       order |-> InOrder(va.final)]

(***************************************************************************)
(* Collapse of states with the same transitions.                           *)
(***************************************************************************)

(* insertFairTransition2, for one valuation.                               *)
Fairer(t, u) == t.v = u.v /\ t.to = u.to /\ t # u /\ u.fair \subseteq t.fair

InsertFairTransition2(t, fts) ==
  IF \E u \in fts : Fairer(u, t) THEN fts ELSE {u \in fts : ~Fairer(t, u)} \cup {t}

(* The state that stands for all those with its transitions.               *)
Representative(ga, s) == CHOOSE r \in DOMAIN ga.trans : ga.trans[r] = ga.trans[s]

(* The loop condition of maximallyCollapseStates.                          *)
CanCollapse(ga) == Cardinality({ga.trans[s] : s \in DOMAIN ga.trans}) < Cardinality(ga.states)

(* collapseStates                                                          *)
Collapsed(ga) ==
  LET rep == [s \in DOMAIN ga.trans |-> Representative(ga, s)]
      kept == {rep[s] : s \in DOMAIN rep}
  IN  [ga EXCEPT
        !.states = kept,
        !.initial = {rep[s] : s \in ga.initial \cap DOMAIN rep},
        !.trans = [s \in kept |->
                     FoldSet(InsertFairTransition2, {},
                             {[t EXCEPT !.to = rep[t.to]] : t \in ga.trans[s]})]]

(***************************************************************************)
(* Strongly connected components.  An analysis is [component,              *)
(* searchedTwice, status, redundant, essential].                           *)
(***************************************************************************)

(* Mutant: states that left the stack are only marked as visited.          *)
MarkedVisited == 1

(* The number of a state that left the stack, larger than all (INT_MAX).   *)
OffStack == 1000000

(* strongConnected(v), on the members the search uses; low is its result.  *)
RECURSIVE StrongConnected(_, _, _)
StrongConnected(ga, m, v) ==
  LET Lower(x, n) == IF n < x.low THEN [x EXCEPT !.low = n] ELSE x
      Visit(w, x) ==
        IF x.number[w] = 0
        THEN LET y == StrongConnected(ga, x, w) IN Lower([y EXCEPT !.low = x.low], y.low)
        ELSE Lower(x, x.number[w])
      entered == [m EXCEPT !.stack = <<v>> \o @, !.traversal = @ + 1,
                           !.number[v] = m.traversal + 1, !.low = m.traversal + 1]
      left == FoldSet(Visit, entered, {t.to : t \in ga.trans[v]})
      size == CHOOSE n \in DOMAIN left.stack : left.stack[n] = v
      popped == {left.stack[n] : n \in 1 .. size}
  IN  IF left.number[v] # left.low THEN left
      ELSE [left EXCEPT
             !.stack = SubSeq(@, size + 1, Len(@)),
             !.number = [s \in DOMAIN @ |-> IF s \in popped THEN OffStack ELSE @[s]],
             !.component = [s \in DOMAIN @ |-> IF s \in popped THEN left.count ELSE @[s]],
             !.count = @ + 1]

(* strongConnected for the initial states, in some order (the code's is    *)
(* that of their numbers, which depend on the order of the subformulas).   *)
(* An initial state that was reached from an earlier one is searched       *)
(* again: searchedTwice notes it.                                          *)
Components(ga, order) ==
  LET none == [s \in ga.states |-> 0]
      Search(m, s) == StrongConnected(ga, [m EXCEPT !.searchedTwice = @ \/ m.number[s] # 0], s)
  IN  FoldLeft(Search,
               [stack |-> <<>>, traversal |-> 0, number |-> none, low |-> 0,
                component |-> none, count |-> 0, searchedTwice |-> FALSE],
               order)

(* The fairness conditions that condition k implies in every one of some   *)
(* transitions: implies[k] without k itself.                               *)
Implied(ga, transitions, k) ==
  {j \in ga.fairness \ {k} : \A t \in transitions : k \in t.fair => j \in t.fair}

(* handleComponent: a component is dead until it has been handled.         *)
HandleComponent(ga, m, info, c) ==
  LET members == {s \in ga.states : m.component[s] = c}
      transitions == UNION {ga.trans[s] : s \in members}
      internal == {t \in transitions : m.component[t.to] = c}
      reachLiveScc == \E t \in transitions \ internal : info.status[m.component[t.to]] # "dead"
      fair == internal # {} /\ UNION {t.fair : t \in internal} = ga.fairness
      Drop(redundant, k) ==
        IF k \in redundant THEN redundant ELSE redundant \cup Implied(ga, internal, k)
      redundant == FoldLeft(Drop, {}, ga.order)
  IN  IF fair
      THEN [info EXCEPT !.status[c] = "fair", !.redundant[c] = redundant,
                        !.essential = @ \cup (ga.fairness \ redundant)]
      ELSE [info EXCEPT !.status[c] = IF reachLiveScc THEN "unfair" ELSE "dead"]

(* sccAnalysis                                                             *)
SccAnalysis(ga, order) ==
  LET m == Components(ga, order)
      numbers == 0 .. m.count - 1
      Handle(info, c) == HandleComponent(ga, m, info, c)
  IN  FoldLeft(Handle,
               [component |-> m.component, searchedTwice |-> m.searchedTwice,
                status |-> [c \in numbers |-> "dead"], redundant |-> [c \in numbers |-> {}],
                essential |-> {}],
               [i \in 1 .. m.count |-> i - 1])

RECURSIVE ReachableFrom(_, _)
ReachableFrom(ga, set) ==
  LET more == set \cup {t.to : t \in UNION {ga.trans[s] : s \in set}}
  IN  IF more = set THEN set ELSE ReachableFrom(ga, more)

(***************************************************************************)
(* sccOptimizations, after the analysis.                                   *)
(***************************************************************************)

Live(ga, info) == {s \in ga.states : info.status[info.component[s]] # "dead"}

(* The fairness of a transition from s: eliminateFairness, and             *)
(* transformFairTransitionSet2 for transitions inside a fair component.    *)
NewFairness(info, s, t) ==
  LET c == info.component[s]
  IN  IF info.status[c] = "fair" /\ info.component[t.to] = c
      THEN (t.fair \cup info.redundant[c]) \cap info.essential
      ELSE {}

Optimized(ga, info) ==
  LET live == Live(ga, info)
  IN  [ga EXCEPT
        !.states = live,
        !.initial = @ \cap live,
        !.trans = [s \in live |->
                     FoldSet(InsertFairTransition2, {},
                             {[t EXCEPT !.fair = NewFairness(info, s, t)] :
                                t \in {u \in ga.trans[s] : u.to \in live}})],
        !.fairness = info.essential,
        !.order = SelectSeq(@, LAMBDA k : k \in info.essential)]

(***************************************************************************)
(* What a generalised automaton accepts: a run that goes on for ever and   *)
(* takes transitions of every fairness condition again and again.          *)
(***************************************************************************)
Steps(ga, w, x) ==
  {[node |-> <<t.to, Beyond(w, x[2], 1)>>, fair |-> t.fair] :
     t \in {u \in ga.trans[x[1]] : u.v = w.letters[x[2]]}}

(* The nodes of a set from which one of its steps with a condition can be  *)
(* reached inside the set.                                                 *)
RECURSIVE CanTake(_, _, _, _)
CanTake(set, found, steps, k) ==
  LET more == {x \in set \ found :
                 \E t \in steps[x] : t.node \in found \/ (t.node \in set /\ k \in t.fair)}
  IN  IF more = {} THEN found ELSE CanTake(set, found \cup more, steps, k)

(* The largest set of nodes that can take each condition for ever.         *)
RECURSIVE FairNodes(_, _, _)
FairNodes(set, steps, fairness) ==
  LET Taking(k, nodes) == nodes \cap CanTake(set, {}, steps, k)
      kept == FoldSet(Taking, {x \in set : \E t \in steps[x] : t.node \in set}, fairness)
  IN  IF kept = set THEN set ELSE FairNodes(kept, steps, fairness)

GenAccepts(ga, w) ==
  LET nodes == (DOMAIN ga.trans) \X (1 .. Len(w.letters))
      steps == [x \in nodes |-> Steps(ga, w, x)]
  IN  \E s \in ga.initial : <<s, 1>> \in FairNodes(nodes, steps, ga.fairness)
=============================================================================
