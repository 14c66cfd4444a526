--------------------------- MODULE ModelChecker2 ---------------------------
(***************************************************************************)
(* The on-the-fly emptiness check of class ModelChecker2                   *)
(* (src/src/Temporal/modelChecker2.cc): two nested depth-first searches    *)
(* over the synchronous product of a system, whose successors are asked    *)
(* for one at a time, and a Buchi automaton.  The mutual recursion of the  *)
(* C++ is kept as two explicit stacks:                                     *)
(*   dfs1  one frame per activation of dfs1PropertyTransitions (with the   *)
(*         dfs1SystemTransitions it inlines);                              *)
(*   dfs2  one frame per activation of dfs2SystemTransitions (with the     *)
(*         dfs2PropertyTransitions it inlines).                            *)
(* Every iteration of a loop of the code, call and return is one step.     *)
(*                                                                         *)
(* FirstTransitionSkipped, LastSuccessorMissed and the like are mutants of *)
(* the operator that follows them: the README says what they are for.      *)
(***************************************************************************)
EXTENDS BuchiProduct

CONSTANTS
  Systems,    \* the transition systems that can be checked
  Automata    \* the property automata they can be checked against

(* succ[s] holds the successors of s in the order getNextState returns     *)
(* them, label[s] what checkProposition finds true in s.  The search ends  *)
(* only on a system with finitely many states.                             *)
ASSUME SystemsAssumption ==
  \A sy \in Systems :
    /\ sy.states \subseteq Nat
    /\ 0 \in sy.states
    /\ sy.succ \in [sy.states -> Seq(sy.states)]
ASSUME FinitenessAssumption ==
  /\ \A sy \in Systems : IsFiniteSet(sy.states)
  /\ \A au \in Automata : IsFiniteSet(au.states)

(* init and trans[q] are in the order the NatSet and the TransitionMap are *)
(* iterated.                                                               *)
ASSUME AutomataAssumption ==
  \A au \in Automata :
    /\ au.init \in Seq(au.states)
    /\ \A q \in au.states :
         /\ Len(au.trans[q]) \in Nat /\ DOMAIN au.trans[q] = 1 .. Len(au.trans[q])
         /\ \A t \in DOMAIN au.trans[q] : au.trans[q][t].to \in au.states

(* A guard is a BDD: every valuation selects a branch, and only one.       *)
ASSUME GuardsAssumption ==
  \A sy \in Systems, au \in Automata :
    \A s \in sy.states, q \in au.states : \A t \in DOMAIN au.trans[q] :
      LET Selected(b) == b.on \subseteq sy.label[s] /\ b.off \cap sy.label[s] = {}
      IN  /\ \E b \in au.trans[q][t].guard : Selected(b)
          /\ \A b, c \in au.trans[q][t].guard : Selected(b) /\ Selected(c) => b = c

VARIABLES
  sys, aut,        \* the instance being checked; they never change
  phase,           \* "search", then "unwind" (returning true), then the answer
  nextInit,        \* position of the iterator over the initial property states
  dfs1, dfs2,      \* the call stacks, the running activation last
  allocated,       \* system states that have an entry in intersectionStates
  dfs1Seen, onDfs1Stack, dfs2Seen,   \* sets of <<system state, property state>>
  testedProps, trueProps,            \* sets of <<system state, proposition>>
  cycleState,      \* <<cycleSystemStateNr, cyclePropertyStateNr>>
  path, cycle      \* the counterexample: lead-in and cycle of system states

instance == <<sys, aut>>
caches == <<testedProps, trueProps>>
result == <<cycleState, path, cycle>>
vars == <<sys, aut, phase, nextInit, dfs1, dfs2, allocated, dfs1Seen,
          onDfs1Stack, dfs2Seen, testedProps, trueProps, cycleState, path, cycle>>

----------------------------------------------------------------------------
(* Stacks.                                                                 *)
Top(stack) == stack[Len(stack)]
Pop(stack) == SubSeq(stack, 1, Len(stack) - 1)
SetTop(stack, frame) == [stack EXCEPT ![Len(stack)] = frame]

(* ModelCheckerSymbol's automaton fakes a self loop on a deadlocked state. *)
NextStates(s) == IF sys.succ[s] = <<>> THEN <<s>> ELSE sys.succ[s]

Transitions(q) == aut.trans[q]
Target(frame) == Transitions(frame.from)[frame.t].to
Guard(frame) == Transitions(frame.from)[frame.t].guard
Pair(frame) == <<frame.sys, Target(frame)>>

(* The valuation of s as satisfiesPropositionalFormula sees it: a tested   *)
(* proposition is never asked for again.                                   *)
Valuation(s) ==
  {p \in sys.label[s] : <<s, p>> \notin testedProps}
    \cup {x[2] : x \in {y \in trueProps : y[1] = s}}

(* The branch of the BDD that the valuation of s selects.                  *)
Branch(s, guard) ==
  CHOOSE b \in guard : b.on \subseteq Valuation(s) /\ b.off \cap Valuation(s) = {}

LowAndHighSwapped(s, guard) == ~Branch(s, guard).val
Satisfies(s, guard) == Branch(s, guard).val

(* The propositions met along the branch are remembered for s.             *)
RememberForAllStates(s, guard) ==
  LET b == Branch(s, guard)
  IN  /\ testedProps' = testedProps \cup (sys.states \X (b.on \cup b.off))
      /\ trueProps' = trueProps \cup {<<s, p>> : p \in b.on}
Remember(s, guard) ==
  LET b == Branch(s, guard)
  IN  /\ testedProps' = testedProps \cup {<<s, p>> : p \in b.on \cup b.off}
      /\ trueProps' = trueProps \cup {<<s, p>> : p \in b.on}

----------------------------------------------------------------------------
Init ==
  /\ sys \in Systems
  /\ aut \in Automata
  /\ phase = "search"
  /\ nextInit = 1
  /\ dfs1 = <<>> /\ dfs2 = <<>>
  /\ allocated = {0}
  /\ dfs1Seen = {} /\ onDfs1Stack = {} /\ dfs2Seen = {}
  /\ testedProps = {} /\ trueProps = {}
  /\ cycleState = <<>>
  /\ path = <<>> /\ cycle = <<>>

FirstTransitionSkipped(s, q) == [sys |-> s, from |-> q, t |-> 0, i |-> 0, at |-> "edges"]
Frame1(s, q) == [sys |-> s, from |-> q, t |-> 1, i |-> 0, at |-> "edges"]
Frame2(s, q) == [sys |-> s, prop |-> q, i |-> 1, t |-> 0]

(* findCounterexample: the next initial property state.                    *)
StartFromInitial ==
  /\ phase = "search" /\ dfs1 = <<>> /\ nextInit \in DOMAIN aut.init
  /\ dfs1' = <<Frame1(0, aut.init[nextInit])>>
  /\ nextInit' = nextInit + 1
  /\ UNCHANGED <<instance, phase, dfs2, allocated, dfs1Seen, onDfs1Stack,
                 dfs2Seen, caches, result>>

NoCounterexample ==
  /\ phase = "search" /\ dfs1 = <<>> /\ nextInit \notin DOMAIN aut.init
  /\ phase' = "none"
  /\ UNCHANGED <<instance, nextInit, dfs1, dfs2, allocated, dfs1Seen,
                 onDfs1Stack, dfs2Seen, caches, result>>

Searching1(at) == phase = "search" /\ dfs1 # <<>> /\ dfs2 = <<>> /\ Top(dfs1).at = at

(* getNextState answered NONE: every successor has been asked for.         *)
LastSuccessorMissed(f) == f.i >= Len(NextStates(f.sys))
SuccessorsDone(f) == f.i \notin DOMAIN NextStates(f.sys)

(* dfs1PropertyTransitions: one automaton transition.  An unseen product   *)
(* state is put on the stack and marked, and its successors are explored.  *)
Dfs1Edge ==
  LET f == Top(dfs1)
      pair == Pair(f)
  IN  /\ Searching1("edges") /\ f.t \in DOMAIN Transitions(f.from)
      /\ Remember(f.sys, Guard(f))
      /\ IF Satisfies(f.sys, Guard(f)) /\ pair \notin dfs1Seen
         THEN /\ onDfs1Stack' = onDfs1Stack \cup {pair}
              /\ dfs1Seen' = dfs1Seen \cup {pair}
              /\ dfs1' = SetTop(dfs1, [f EXCEPT !.at = "succs", !.i = 1])
         ELSE /\ dfs1' = SetTop(dfs1, [f EXCEPT !.t = @ + 1])
              /\ UNCHANGED <<onDfs1Stack, dfs1Seen>>
      /\ UNCHANGED <<instance, phase, nextInit, dfs2, allocated, dfs2Seen, result>>

(* dfs1SystemTransitions: the next system state, with the call of          *)
(* dfs1PropertyTransitions on it.                                          *)
Dfs1Succ ==
  LET f == Top(dfs1)
      n == NextStates(f.sys)[f.i]
  IN  /\ Searching1("succs") /\ ~SuccessorsDone(f)
      /\ allocated' = allocated \cup {n}
      /\ dfs1' = Append(dfs1, Frame1(n, Target(f)))
      /\ UNCHANGED <<instance, phase, nextInit, dfs2, dfs1Seen, onDfs1Stack,
                     dfs2Seen, caches, result>>

(* The pair is left: it is removed from the stack and its caller goes on   *)
(* with the next automaton transition.                                     *)
LeavePairOnStack(f) ==
  /\ UNCHANGED onDfs1Stack
  /\ dfs1' = SetTop(dfs1, [f EXCEPT !.t = @ + 1, !.at = "edges"])
LeavePair(f) ==
  /\ onDfs1Stack' = onDfs1Stack \ {Pair(f)}
  /\ dfs1' = SetTop(dfs1, [f EXCEPT !.t = @ + 1, !.at = "edges"])

(* dfs1SystemTransitions returned false: an accepting pair starts the      *)
(* second search, another one is left.                                     *)
Dfs1SuccsDone ==
  LET f == Top(dfs1)
      pair == Pair(f)
  IN  /\ Searching1("succs") /\ SuccessorsDone(f)
      /\ IF Target(f) \in aut.acc
         THEN /\ dfs2' = <<Frame2(f.sys, Target(f))>>
              /\ dfs2Seen' = dfs2Seen \cup {pair}
              /\ dfs1' = SetTop(dfs1, [f EXCEPT !.at = "nested"])
              /\ UNCHANGED onDfs1Stack
         ELSE LeavePair(f) /\ UNCHANGED <<dfs2, dfs2Seen>>
      /\ UNCHANGED <<instance, phase, nextInit, allocated, dfs1Seen, caches, result>>

(* dfs1PropertyTransitions returns false to dfs1SystemTransitions.         *)
Dfs1Return ==
  LET f == Top(dfs1)
      rest == Pop(dfs1)
  IN  /\ Searching1("edges") /\ f.t \notin DOMAIN Transitions(f.from)
      /\ dfs1' = IF rest = <<>> THEN rest
                 ELSE SetTop(rest, [Top(rest) EXCEPT !.i = @ + 1])
      /\ UNCHANGED <<instance, phase, nextInit, dfs2, allocated, dfs1Seen,
                     onDfs1Stack, dfs2Seen, caches, result>>

Searching2 == phase = "search" /\ dfs2 # <<>>

(* The system state that dfs2PropertyTransitions runs on.                  *)
Next2(f) == NextStates(f.sys)[f.i]
Target2(f) == Transitions(f.prop)[f.t].to

(* dfs2SystemTransitions: the next system state.                           *)
Dfs2Succ ==
  LET f == Top(dfs2)
  IN  /\ Searching2 /\ f.t = 0 /\ f.i \in DOMAIN NextStates(f.sys)
      /\ dfs2' = SetTop(dfs2, [f EXCEPT !.t = 1])
      /\ UNCHANGED <<instance, phase, nextInit, dfs1, allocated, dfs1Seen,
                     onDfs1Stack, dfs2Seen, caches, result>>

(* dfs2PropertyTransitions: one automaton transition.                      *)
Dfs2Edge ==
  LET f == Top(dfs2)
      n == Next2(f)
      guard == Transitions(f.prop)[f.t].guard
      pair == <<n, Target2(f)>>
  IN  /\ Searching2 /\ f.t \in DOMAIN Transitions(f.prop)
      /\ Remember(n, guard)
      /\ \/ /\ Satisfies(n, guard) /\ pair \in onDfs1Stack
            /\ cycleState' = pair
            /\ phase' = "unwind"
            /\ UNCHANGED <<dfs2, dfs2Seen>>
         \/ /\ Satisfies(n, guard) /\ pair \notin onDfs1Stack /\ pair \notin dfs2Seen
            /\ dfs2Seen' = dfs2Seen \cup {pair}
            /\ dfs2' = Append(dfs2, Frame2(n, Target2(f)))
            /\ UNCHANGED <<phase, cycleState>>
         \/ /\ ~Satisfies(n, guard) \/ pair \in dfs2Seen \ onDfs1Stack
            /\ dfs2' = SetTop(dfs2, [f EXCEPT !.t = @ + 1])
            /\ UNCHANGED <<phase, cycleState, dfs2Seen>>
      /\ UNCHANGED <<instance, nextInit, dfs1, allocated, dfs1Seen, onDfs1Stack,
                     path, cycle>>

(* dfs2PropertyTransitions returned false.                                 *)
Dfs2EdgesDone ==
  LET f == Top(dfs2)
  IN  /\ Searching2 /\ f.t # 0 /\ f.t \notin DOMAIN Transitions(f.prop)
      /\ dfs2' = SetTop(dfs2, [f EXCEPT !.t = 0, !.i = @ + 1])
      /\ UNCHANGED <<instance, phase, nextInit, dfs1, allocated, dfs1Seen,
                     onDfs1Stack, dfs2Seen, caches, result>>

(* dfs2SystemTransitions returns false, to its own search or, when it is   *)
(* the root of it, to dfs1PropertyTransitions.                             *)
Dfs2Return ==
  LET f == Top(dfs2)
      rest == Pop(dfs2)
  IN  /\ Searching2 /\ f.t = 0 /\ f.i \notin DOMAIN NextStates(f.sys)
      /\ IF rest = <<>>
         THEN dfs2' = rest /\ LeavePair(Top(dfs1))
         ELSE /\ dfs2' = SetTop(rest, [Top(rest) EXCEPT !.t = @ + 1])
              /\ UNCHANGED <<dfs1, onDfs1Stack>>
      /\ UNCHANGED <<instance, phase, nextInit, allocated, dfs1Seen, dfs2Seen,
                     caches, result>>

(* Returning true through the second search: the system state of every     *)
(* activation but the root is put in front of the path.                    *)
Unwind2 ==
  /\ phase = "unwind" /\ dfs2 # <<>>
  /\ dfs2' = Pop(dfs2)
  /\ path' = IF Len(dfs2) > 1 THEN <<Top(dfs2).sys>> \o path ELSE path
  /\ UNCHANGED <<instance, phase, nextInit, dfs1, allocated, dfs1Seen,
                 onDfs1Stack, dfs2Seen, caches, cycleState, cycle>>

(* The activation the cycle closes on.                                     *)
ClosesOnSystemState(f) == f.sys = cycleState[1]
Closes(f) == Pair(f) = cycleState

(* Returning true through the first search: when the pair the cycle closes *)
(* on is reached, what has been collected so far is the cycle.             *)
Unwind1 ==
  LET f == Top(dfs1)
      longer == <<f.sys>> \o path
      closes == Closes(f)
  IN  /\ phase = "unwind" /\ dfs2 = <<>> /\ dfs1 # <<>>
      /\ dfs1' = Pop(dfs1)
      /\ path' = IF closes THEN cycle ELSE longer
      /\ cycle' = IF closes THEN longer ELSE cycle
      /\ UNCHANGED <<instance, phase, nextInit, dfs2, allocated, dfs1Seen,
                     onDfs1Stack, dfs2Seen, caches, cycleState>>

Found ==
  /\ phase = "unwind" /\ dfs1 = <<>> /\ dfs2 = <<>>
  /\ phase' = "found"
  /\ UNCHANGED <<instance, nextInit, dfs1, dfs2, allocated, dfs1Seen,
                 onDfs1Stack, dfs2Seen, caches, result>>

(* The answer has been given.                                              *)
Done == phase \in {"found", "none"} /\ UNCHANGED vars

Search1 == StartFromInitial \/ Dfs1Edge \/ Dfs1Succ \/ Dfs1SuccsDone \/ Dfs1Return
Search2 == Dfs2Succ \/ Dfs2Edge \/ Dfs2EdgesDone \/ Dfs2Return
Answer == Unwind2 \/ Unwind1 \/ Found \/ NoCounterexample

Next == Search1 \/ Search2 \/ Answer \/ Done

(* A single thread runs the search: it never stops before the answer.      *)
Spec == Init /\ [][Next]_vars /\ WF_vars(Next)

----------------------------------------------------------------------------
Pairs == sys.states \X aut.states
Explored(f) == f.at # "edges"
Dfs1Pairs == {Pair(dfs1[k]) : k \in {j \in DOMAIN dfs1 : Explored(dfs1[j])}}

Frames1 == [sys : sys.states, from : aut.states, t : Nat \ {0}, i : Nat,
            at : {"edges", "succs", "nested"}]
Frames2 == [sys : sys.states, prop : aut.states, i : Nat \ {0}, t : Nat]

(* The types of the two call stacks and of the tables of the search.       *)
TypeOK ==
  /\ sys \in Systems /\ aut \in Automata
  /\ phase \in {"search", "unwind", "found", "none"}
  /\ nextInit \in 1 .. Len(aut.init) + 1
  /\ dfs1 \in Seq(Frames1) /\ dfs2 \in Seq(Frames2)
  /\ allocated \subseteq sys.states
  /\ dfs1Seen \subseteq Pairs /\ onDfs1Stack \subseteq Pairs /\ dfs2Seen \subseteq Pairs
  /\ path \in Seq(sys.states) /\ cycle \in Seq(sys.states)

(* The recursion is well nested: a second search runs exactly while the    *)
(* innermost activation of the first one waits for it, every other waiting *)
(* activation is in the middle of its successors, and what a waiting call  *)
(* has chosen (a transition, a successor) still exists when it resumes.    *)
WellNested ==
  /\ \A k \in DOMAIN dfs1 :
       /\ Explored(dfs1[k]) => dfs1[k].t \in DOMAIN Transitions(dfs1[k].from)
       /\ k < Len(dfs1) => dfs1[k].at = "succs"
  /\ \A k \in DOMAIN dfs2 :
       dfs2[k].t # 0 => dfs2[k].i \in DOMAIN NextStates(dfs2[k].sys)
  /\ phase = "search" => (dfs2 # <<>> <=> dfs1 # <<>> /\ Top(dfs1).at = "nested")
  /\ phase \in {"found", "none"} => dfs1 = <<>> /\ dfs2 = <<>>

(* onDfs1Stack, which the second search consults through the StateSet of a *)
(* single system state, is at every moment the set of the pairs of the     *)
(* active calls of dfs1PropertyTransitions, each of them seen and none     *)
(* active twice, although it is kept by an insertion and a subtraction far *)
(* apart in the recursion.                                                 *)
StackMarksExact ==
  /\ \A j, k \in DOMAIN dfs1 :
       Explored(dfs1[j]) /\ Explored(dfs1[k]) /\ Pair(dfs1[j]) = Pair(dfs1[k]) => j = k
  /\ phase = "search" => onDfs1Stack = Dfs1Pairs /\ onDfs1Stack \subseteq dfs1Seen

(* The pairs of the two call stacks form one run of the product: they      *)
(* start in the initial system state, every activation was called on a     *)
(* successor of its caller's state, and the guard it took is true of the   *)
(* labels that checkProposition would report, not only of the cached ones. *)
StacksAreARun ==
  /\ \A k \in DOMAIN dfs1 :
       LET f == dfs1[k]
       IN  /\ Explored(f) => Target(f) \in Moves(aut, f.from, sys.label[f.sys])
           /\ IF k = 1 THEN f.sys = 0
              ELSE /\ f.sys \in SuccessorSet(sys, dfs1[k - 1].sys)
                   /\ f.from = Target(dfs1[k - 1]) /\ Explored(dfs1[k - 1])
  /\ \A k \in DOMAIN dfs2 :
       LET f == dfs2[k]
           caller == IF k = 1 THEN Pair(Top(dfs1)) ELSE <<dfs2[k - 1].sys, dfs2[k - 1].prop>>
       IN  IF k = 1 THEN <<f.sys, f.prop>> = caller
           ELSE <<f.sys, f.prop>> \in ProductSuccessors(sys, aut, caller)

(* The Assert of dfs2SystemTransitions, "visited system state for the      *)
(* first time on dfs2": the second search only meets system states that    *)
(* the first one has allocated an entry for.                               *)
Dfs2MeetsAllocatedStates ==
  \A k \in DOMAIN dfs2 :
    /\ dfs2[k].sys \in allocated
    /\ dfs2[k].t # 0 => Next2(dfs2[k]) \in allocated

(* The per-state proposition caches agree with checkProposition, so that   *)
(* the guard of a later visit is decided as the first one was.             *)
PropositionCacheFaithful ==
  trueProps = {x \in testedProps : x[2] \in sys.label[x[1]]}

(* Why a single shared dfs2Seen suffices (the post-order argument of the   *)
(* nested search): outside the second search the pairs it has visited are  *)
(* closed under the edges of the product and none of them is on the first  *)
(* stack, so none leads to a pair that is, or later comes to be, on it.    *)
(* This fails when a second search starts before its root is explored.     *)
Dfs2SeenIsDead ==
  phase = "search" /\ dfs2 = <<>> =>
    /\ \A x \in dfs2Seen : ProductSuccessors(sys, aut, x) \subseteq dfs2Seen
    /\ dfs2Seen \cap onDfs1Stack = {}

(* The search implements the promise: an answer, and the right one.        *)
Emptiness ==
  INSTANCE ProductEmptiness WITH
    answer <- IF phase \in {"found", "none"} THEN phase ELSE "searching",
    leadIn <- IF phase = "found" THEN path ELSE <<>>,
    loop <- IF phase = "found" THEN cycle ELSE <<>>
ImplementsEmptiness == Emptiness!Spec
=============================================================================
