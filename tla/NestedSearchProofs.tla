------------------------- MODULE NestedSearchProofs -------------------------
(***************************************************************************)
(* The two depth-first searches explore what they should, for all systems  *)
(* and automata: the second one only meets states the first has allocated, *)
(* and what it has visited is dead once it ends.  So the search keeps its  *)
(* promise, ProductEmptiness: "none" is only answered when the product has *)
(* no accepting cycle that can be reached, and the path and the cycle that *)
(* are answered are a behaviour that the automaton accepts.                *)
(***************************************************************************)
EXTENDS ModelChecker2Proofs, FiniteSetTheorems

----------------------------------------------------------------------------
(* Chains of frames, with what pushing and popping tells of the link.      *)
LEMMA ChainWider ==
  ASSUME NEW S, NEW B, NEW L, NEW T, NEW C, NEW M, NEW st, Chain(st, S, B, L),
         S \subseteq T, B \subseteq C, L \subseteq M
  PROVE  Chain(st, T, C, M)
<1>1. st \in Seq(T)
  BY DEF Chain
<1> QED
  BY <1>1 DEF Chain

LEMMA ChainTop ==
  ASSUME NEW S, NEW B, NEW L, NEW st, Chain(st, S, B, L), st # <<>>
  PROVE  Top(st) \in S
BY TopLemma DEF Chain

LEMMA ChainCaller ==
  ASSUME NEW S, NEW B, NEW L, NEW st, Chain(st, S, B, L), st # <<>>
  PROVE  IF Pop(st) = <<>> THEN Top(st) \in B
         ELSE <<Top(Pop(st)), Top(st)>> \in L /\ Top(Pop(st)) \in S
<1> DEFINE rest == Pop(st)
           n == Len(st)
<1>1. /\ n \in Nat \ {0} /\ Top(st) = st[n] /\ rest \in Seq(S) /\ Len(rest) = n - 1
      /\ \A k \in 1 .. n - 1 : rest[k] = st[k]
  BY TopLemma, PopLemma DEF Chain
<1>2. st[1] \in B /\ \A k \in 1 .. n - 1 : <<st[k], st[k + 1]>> \in L
  BY DEF Chain
<1> HIDE DEF rest, n
<1>3. CASE rest = <<>>
  <2>1. n = 1
    BY <1>1, <1>3
  <2> QED
    BY <1>1, <1>2, <1>3, <2>1 DEF rest
<1>4. CASE rest # <<>>
  <2>1. Top(rest) \in S /\ Top(rest) = rest[n - 1] /\ n - 1 \in 1 .. n - 1
    BY <1>1, <1>4, TopLemma
  <2>2. (n - 1) + 1 = n
    BY <1>1
  <2>3. Top(rest) = st[n - 1] /\ <<st[n - 1], st[n]>> \in L
    BY <1>1, <1>2, <2>1, <2>2
  <2> QED
    BY <1>1, <1>4, <2>1, <2>3 DEF rest
<1> QED
  BY <1>3, <1>4

----------------------------------------------------------------------------
(* The product states that a state reaches through its i-th successor, and *)
(* the one that a transition leads to.                                     *)
Through(s, q, i) == {NextStates(s)[i]} \X Moves(aut, q, sys.label[NextStates(s)[i]])
Chosen(s, q, t) ==
  IF Models(sys.label[s], Transitions(q)[t].guard) THEN {<<s, Transitions(q)[t].to>>} ELSE {}
Successors1(x) == ProductSuccessors(sys, aut, x)

LEMMA TransitionsDomain ==
  ASSUME TypeOK, NEW q \in aut.states
  PROVE  Len(Transitions(q)) \in Nat /\ DOMAIN Transitions(q) = 1 .. Len(Transitions(q))
BY AutomataAssumption DEF TypeOK, Transitions

(* A guard is taken exactly when the labels satisfy it.                    *)
LEMMA SatisfiesIsModels ==
  ASSUME Nested, CachesOK, NEW s \in sys.states, NEW q \in aut.states,
         NEW t \in DOMAIN Transitions(q)
  PROVE  Satisfies(s, Transitions(q)[t].guard) <=> Models(sys.label[s], Transitions(q)[t].guard)
<1> DEFINE guard == Transitions(q)[t].guard
           b == Branch(s, guard)
<1>1. b \in guard /\ b.on \subseteq sys.label[s] /\ b.off \cap sys.label[s] = {}
  BY BranchIsRight
<1>2. \A c \in guard : c.on \subseteq sys.label[s] /\ c.off \cap sys.label[s] = {} => c = b
  BY <1>1, GuardsAssumption DEF Nested, Transitions
<1> HIDE DEF b
<1>3. Models(sys.label[s], guard) <=> b.val
  BY <1>1, <1>2 DEF Models
<1> QED
  BY <1>3 DEF Satisfies, b

(* All the transitions tried: all the moves made.                          *)
LEMMA AllMoves ==
  ASSUME NEW s, NEW q, NEW W, \A t \in DOMAIN Transitions(q) : Chosen(s, q, t) \subseteq W
  PROVE  {s} \X Moves(aut, q, sys.label[s]) \subseteq W
<1> SUFFICES ASSUME NEW r \in Moves(aut, q, sys.label[s]) PROVE <<s, r>> \in W
  OBVIOUS
<1>1. PICK t \in DOMAIN Transitions(q) :
        Models(sys.label[s], Transitions(q)[t].guard) /\ r = Transitions(q)[t].to
  BY DEF Moves, Transitions
<1> QED
  BY <1>1 DEF Chosen

(* All the successors tried: all of those of the product.                  *)
LEMMA AllSuccessors ==
  ASSUME NEW s, NEW q, NEW W, \A i \in DOMAIN NextStates(s) : Through(s, q, i) \subseteq W
  PROVE  Successors1(<<s, q>>) \subseteq W
<1>1. SuccessorSet(sys, s) = {NextStates(s)[i] : i \in DOMAIN NextStates(s)}
  BY DEF SuccessorSet, Successors, NextStates
<1> SUFFICES ASSUME NEW n \in SuccessorSet(sys, s), NEW r \in Moves(aut, q, sys.label[n])
             PROVE  <<n, r>> \in W
  BY DEF Successors1, ProductSuccessors
<1>2. PICK i \in DOMAIN NextStates(s) : n = NextStates(s)[i]
  BY <1>1
<1> QED
  BY <1>2 DEF Through

----------------------------------------------------------------------------
(* The first search.  What a frame has done so far: the transitions before *)
(* the t-th, and the successors before the i-th of the pair it explores.   *)
Worked1 ==
  {f \in Activations1 :
     /\ f.sys \in allocated
     /\ \A t \in DOMAIN Transitions(f.from) :
          t < f.t => Chosen(f.sys, f.from, t) \subseteq dfs1Seen
     /\ Explored(f) =>
          \A i \in DOMAIN NextStates(f.sys) : i < f.i =>
            /\ NextStates(f.sys)[i] \in allocated
            /\ Through(f.sys, Target(f), i) \subseteq dfs1Seen
     /\ f.at = "nested" => f.i \notin DOMAIN NextStates(f.sys) /\ Target(f) \in aut.acc
     /\ Explored(f) => f.i # 0}

(* The outermost frame is on the last initial property state taken; a call *)
(* is on the successor and the property state its caller is at.            *)
First1 ==
  {f \in Frames1 :
     f.sys = 0 /\ nextInit - 1 \in DOMAIN aut.init /\ f.from = aut.init[nextInit - 1]}
Calls1 ==
  {x \in Frames1 \X Frames1 :
     /\ x[1].i \in DOMAIN NextStates(x[1].sys)
     /\ x[2].sys = NextStates(x[1].sys)[x[1].i] /\ x[2].from = Target(x[1])}

(* The pairs the first search has come back from.                          *)
Left == dfs1Seen \ onDfs1Stack
LeftExplored ==
  \A x \in Left : SuccessorSet(sys, x[1]) \subseteq allocated /\ Successors1(x) \subseteq dfs1Seen

Started == {k \in DOMAIN aut.init : IF dfs1 = <<>> THEN k < nextInit ELSE k < nextInit - 1}
InitialSeen ==
  \A k \in Started : {0} \X Moves(aut, aut.init[k], sys.label[0]) \subseteq dfs1Seen

FirstSearch ==
  /\ 0 \in allocated
  /\ \A x \in dfs1Seen : x[1] \in allocated
  /\ LeftExplored
  /\ Chain(dfs1, Worked1, First1, Calls1)
  /\ phase = "search" => InitialSeen
  /\ phase = "none" => onDfs1Stack = {} /\ ProductInit(sys, aut) \subseteq dfs1Seen

LEMMA FirstSearchInit == Init => FirstSearch
<1> SUFFICES ASSUME Init PROVE FirstSearch
  OBVIOUS
<1>1. Chain(dfs1, Worked1, First1, Calls1)
  BY ChainEmpty DEF Init
<1>2. Started = {}
  BY AutomataAssumption DEF Init, Started
<1> QED
  BY <1>1, <1>2 DEF Init, FirstSearch, LeftExplored, Left, InitialSeen

(* The work done stays done while the tables grow.                         *)
LEMMA Worked1Grows ==
  ASSUME UNCHANGED <<sys, aut>>, allocated \subseteq allocated', dfs1Seen \subseteq dfs1Seen'
  PROVE  Worked1 \subseteq Worked1' /\ Calls1' = Calls1
<1>1. Activations1' = Activations1
  BY DEF Activations1, Good1, Frames1, Explored, Target, Transitions
<1>2. Calls1' = Calls1
  BY DEF Calls1, Frames1, NextStates, Target, Transitions
<1>3. ASSUME NEW f \in Worked1 PROVE f \in Worked1'
  <2>1. \A t : Chosen(f.sys, f.from, t)' = Chosen(f.sys, f.from, t)
    BY DEF Chosen, Transitions
  <2>2. /\ \A i : Through(f.sys, Target(f), i)' = Through(f.sys, Target(f), i)
        /\ NextStates(f.sys)' = NextStates(f.sys) /\ Target(f)' = Target(f)
        /\ Transitions(f.from)' = Transitions(f.from)
    BY DEF Through, NextStates, Target, Transitions
  <2> QED
    BY <1>1, <2>1, <2>2 DEF Worked1, Explored
<1> QED
  BY <1>2, <1>3

(* An activation as a typed frame with its transition list.                *)
LEMMA WorkedFrame1 ==
  ASSUME Nested, NEW f \in Worked1
  PROVE  /\ f \in Activations1 /\ f \in Good1 /\ f \in Frames1
         /\ f.sys \in sys.states /\ f.from \in aut.states /\ f.t \in Nat \ {0} /\ f.i \in Nat
         /\ Len(NextStates(f.sys)) \in Nat \ {0}
         /\ DOMAIN NextStates(f.sys) = 1 .. Len(NextStates(f.sys))
         /\ Len(Transitions(f.from)) \in Nat
         /\ DOMAIN Transitions(f.from) = 1 .. Len(Transitions(f.from))
<1>1. /\ f \in Activations1 /\ f \in Good1 /\ f \in Frames1
      /\ f.sys \in sys.states /\ f.from \in aut.states /\ f.t \in Nat \ {0} /\ f.i \in Nat
  BY DEF Worked1, Activations1, Good1, Frames1
<1>2. NextStates(f.sys) \in Seq(sys.states) /\ Len(NextStates(f.sys)) \in Nat \ {0}
  BY <1>1, NestedImpliesTyped, NextStatesType
<1> QED
  BY <1>1, <1>2, NestedImpliesTyped, TransitionsDomain

(* A pair whose successors are done is explored.                           *)
LEMMA ExploredPair ==
  ASSUME Nested, NEW f \in Worked1, Explored(f), SuccessorsDone(f)
  PROVE  SuccessorSet(sys, f.sys) \subseteq allocated /\ Successors1(Pair(f)) \subseteq dfs1Seen
<1>1. \A i \in DOMAIN NextStates(f.sys) : i < f.i
  BY WorkedFrame1 DEF SuccessorsDone, Worked1
<1>2. \A i \in DOMAIN NextStates(f.sys) :
        NextStates(f.sys)[i] \in allocated /\ Through(f.sys, Target(f), i) \subseteq dfs1Seen
  BY <1>1 DEF Worked1
<1>3. SuccessorSet(sys, f.sys) = {NextStates(f.sys)[i] : i \in DOMAIN NextStates(f.sys)}
  BY DEF SuccessorSet, Successors, NextStates
<1> QED
  BY <1>2, <1>3, AllSuccessors DEF Pair

(* A frame whose transitions are done has seen all the moves.              *)
LEMMA ExploredMoves ==
  ASSUME Nested, NEW f \in Worked1, f.t \notin DOMAIN Transitions(f.from)
  PROVE  {f.sys} \X Moves(aut, f.from, sys.label[f.sys]) \subseteq dfs1Seen
<1>1. \A t \in DOMAIN Transitions(f.from) : t < f.t
  BY WorkedFrame1
<1> QED
  BY <1>1, AllMoves DEF Worked1

LEMMA FirstSearchStep ==
  Nested /\ CachesOK /\ StacksRun /\ StackMarksExact /\ FirstSearch /\ [Next]_vars => FirstSearch'
<1> SUFFICES ASSUME Nested, CachesOK, StacksRun, StackMarksExact, FirstSearch, [Next]_vars
             PROVE  FirstSearch'
  OBVIOUS
<1> USE DEF instance, caches, result
<1>i. sys' = sys /\ aut' = aut /\ 0 \in sys.states
  BY InstanceFixed, SystemsAssumption DEF Nested
<1>m. allocated \subseteq allocated' /\ dfs1Seen \subseteq dfs1Seen'
  BY DEF Next, Search1, Search2, Answer, Done, vars, StartFromInitial, Dfs1Edge, Dfs1Succ,
     Dfs1SuccsDone, Dfs1Return, Dfs2Succ, Dfs2Edge, Dfs2EdgesDone, Dfs2Return, Unwind2, Unwind1,
     Found, NoCounterexample
<1>w. /\ Worked1 \subseteq Worked1' /\ Calls1' = Calls1
      /\ (UNCHANGED nextInit => First1' = First1)
  BY <1>i, <1>m, Worked1Grows DEF First1, Frames1
<1>a. /\ Activations1' = Activations1
      /\ \A s, q, t : Chosen(s, q, t)' = Chosen(s, q, t)
      /\ \A s, q, i : Through(s, q, i)' = Through(s, q, i)
      /\ \A s : NextStates(s)' = NextStates(s)
      /\ \A q : Transitions(q)' = Transitions(q)
      /\ \A f : Target(f)' = Target(f) /\ Pair(f)' = Pair(f)
      /\ \A x : Successors1(x)' = Successors1(x)
  BY <1>i DEF Chosen, Through, NextStates, Transitions, Target, Pair, Activations1, Good1, Frames1,
     Explored, Successors1
<1>t. dfs1 # <<>> => Top(dfs1) \in Worked1
  BY ChainTop DEF FirstSearch
(* The stack with its innermost frame replaced, for the same pair.         *)
<1>r. ASSUME NEW st, Chain(st, Worked1, First1, Calls1), st # <<>>, NEW g \in Worked1',
             g.sys = Top(st).sys, g.from = Top(st).from
      PROVE  Chain(SetTop(st, g), Worked1', First1, Calls1)
  <2>1. Chain(st, Worked1', First1, Calls1)
    BY <1>r, <1>w, ChainWider
  <2>2. g \in Frames1
    BY <1>a DEF Worked1, Activations1, Good1
  <2>3. Top(st) \in First1 => g \in First1
    BY <1>r, <2>2 DEF First1
  <2>4. \A c \in Worked1' : <<c, Top(st)>> \in Calls1 => <<c, g>> \in Calls1
    BY <1>r, <2>2 DEF Calls1
  <2> QED
    BY <1>r, <2>1, <2>3, <2>4, ChainSetTop
(* The pairs left, old and new.                                            *)
<1>x. ASSUME \A x \in Left' : \/ x \in Left
                              \/ /\ SuccessorSet(sys, x[1]) \subseteq allocated'
                                 /\ Successors1(x) \subseteq dfs1Seen'
      PROVE  LeftExplored'
  BY <1>i, <1>m, <1>a, <1>x DEF LeftExplored, FirstSearch
<1>y. ASSUME NEW k \in Started PROVE {0} \X Moves(aut, aut.init[k], sys.label[0]) \subseteq dfs1Seen'
                                \/ phase # "search"
  BY <1>m DEF FirstSearch, InitialSeen
(* Leaving the pair of the innermost activation.                           *)
<1>l. ASSUME LeavePair(Top(dfs1)), dfs1 # <<>>, Explored(Top(dfs1)), SuccessorsDone(Top(dfs1)),
             phase = "search", UNCHANGED <<phase, nextInit, allocated, dfs1Seen>>
      PROVE  FirstSearch'
  <2> DEFINE f == Top(dfs1)
             h == [f EXCEPT !.t = @ + 1, !.at = "edges"]
  <2>1. f \in Worked1 /\ f \in Frames1 /\ f \in Activations1 /\ f.t \in Nat \ {0}
        /\ f.sys \in sys.states /\ f.from \in aut.states
    BY <1>l, <1>t, WorkedFrame1
  <2>2. h \in Frames1 /\ h.at = "edges" /\ h.sys = f.sys /\ h.from = f.from /\ h.t = f.t + 1
    <3>1. h \in Frames1 /\ h.at = "edges"
      BY <2>1, LeaveFrame
    <3> QED
      BY <2>1, <3>1 DEF Frames1
  <2>3. dfs1' = SetTop(dfs1, h) /\ onDfs1Stack' = onDfs1Stack \ {Pair(f)}
    BY <1>l DEF LeavePair
  <2> HIDE DEF h
  <2>4. Pair(f) \in dfs1Seen
    <3>1. f = dfs1[Len(dfs1)] /\ Len(dfs1) \in DOMAIN dfs1
      BY <1>l, TopLemma DEF FirstSearch, Chain
    <3>2. Pair(f) \in Dfs1Pairs
      BY <1>l, <3>1 DEF Dfs1Pairs
    <3> QED
      BY <1>l, <3>2 DEF StackMarksExact
  <2>5. Chosen(f.sys, f.from, f.t) \subseteq dfs1Seen
    BY <2>4 DEF Chosen, Pair, Target
  <2>6. \A t \in DOMAIN Transitions(f.from) : t < f.t + 1 => t < f.t \/ t = f.t
    BY <2>1, WorkedFrame1
  <2>7. h \in Worked1'
    <3>1. h \in Activations1 /\ ~Explored(h)
      BY <2>2 DEF Activations1, Good1, Explored
    <3>2. \A t \in DOMAIN Transitions(h.from) :
            t < h.t => Chosen(h.sys, h.from, t) \subseteq dfs1Seen
      BY <2>1, <2>2, <2>5, <2>6 DEF Worked1
    <3>3. h.sys \in allocated
      BY <2>1, <2>2 DEF Worked1
    <3>4. h \in Worked1
      BY <2>2, <3>1, <3>2, <3>3 DEF Worked1
    <3> QED
      BY <3>4, <1>w
  <2>8. Chain(dfs1', Worked1', First1', Calls1') /\ dfs1' # <<>>
    <3>1. Chain(dfs1, Worked1, First1, Calls1)
      BY <1>l DEF FirstSearch
    <3>2. Chain(SetTop(dfs1, h), Worked1', First1, Calls1)
      BY <1>l, <1>r, <2>2, <2>7, <3>1
    <3>3. SetTop(dfs1, h) # <<>>
      BY <1>l, <2>2, NestedImpliesTyped, SetTopLemma DEF TypeOK
    <3> QED
      BY <1>l, <1>w, <2>3, <3>2, <3>3
  <2>9. LeftExplored'
    <3>1. SuccessorSet(sys, f.sys) \subseteq allocated /\ Successors1(Pair(f)) \subseteq dfs1Seen
      BY <1>l, <2>1, ExploredPair
    <3>2. \A x \in Left' : x \in Left \/ x = Pair(f)
      BY <1>l, <2>3 DEF Left
    <3>3. Pair(f)[1] = f.sys
      BY DEF Pair
    <3> QED
      BY <1>l, <1>x, <3>1, <3>2, <3>3
  <2>10. InitialSeen'
    BY <1>i, <1>l, <1>y, <2>8 DEF InitialSeen, Started
  <2> QED
    BY <1>l, <2>8, <2>9, <2>10 DEF FirstSearch
<1>1. CASE StartFromInitial
  <2> DEFINE f == Frame1(0, aut.init[nextInit])
  <2>1. aut.init[nextInit] \in aut.states /\ nextInit \in Nat /\ nextInit \in DOMAIN aut.init
    BY <1>1, AutomataAssumption DEF StartFromInitial, Nested
  <2>2. f \in Frames1 /\ f.sys = 0 /\ f.from = aut.init[nextInit] /\ f.t = 1 /\ f.at = "edges"
    BY <1>i, <2>1 DEF Frame1, Frames1
  <2> HIDE DEF f
  <2>3. /\ phase = "search" /\ phase' = "search" /\ dfs1 = <<>> /\ dfs1' = <<f>>
        /\ nextInit' = nextInit + 1 /\ UNCHANGED <<allocated, dfs1Seen, onDfs1Stack>>
    BY <1>1 DEF StartFromInitial, f
  <2>4. f \in Worked1
    <3>1. f \in Activations1 /\ ~Explored(f)
      BY <2>2 DEF Activations1, Good1, Explored
    <3>2. \A t \in DOMAIN Transitions(f.from) : ~(t < f.t)
      BY <1>i, <2>1, <2>2, NestedImpliesTyped, TransitionsDomain
    <3> QED
      BY <2>2, <3>1, <3>2 DEF Worked1, FirstSearch
  <2>5. f \in First1'
    <3>1. nextInit' - 1 = nextInit
      BY <2>1, <2>3
    <3> QED
      BY <1>i, <2>1, <2>2, <3>1 DEF First1, Frames1
  <2>6. Chain(dfs1', Worked1', First1', Calls1')
    BY <1>w, <2>3, <2>4, <2>5, ChainSingleton
  <2>7. InitialSeen'
    <3>1. Started' = Started
      BY <1>i, <2>1, <2>3, AutomataAssumption DEF Started, Nested
    <3> QED
      BY <1>i, <1>y, <2>3, <3>1 DEF InitialSeen
  <2>8. LeftExplored'
    BY <1>x, <2>3 DEF Left
  <2> QED
    BY <2>3, <2>6, <2>7, <2>8 DEF FirstSearch
<1>2. CASE Dfs1Edge
  <2> DEFINE f == Top(dfs1)
             g == [f EXCEPT !.at = "succs", !.i = 1]
             h == [f EXCEPT !.t = @ + 1]
  <2>1. /\ f \in Worked1 /\ f \in Frames1 /\ f \in Activations1 /\ f.t \in Nat \ {0}
        /\ f.sys \in sys.states /\ f.from \in aut.states
        /\ dfs1 # <<>> /\ phase = "search" /\ phase' = "search" /\ f.at = "edges"
        /\ f.t \in DOMAIN Transitions(f.from)
        /\ UNCHANGED <<nextInit, allocated>>
    BY <1>2, <1>t, WorkedFrame1 DEF Dfs1Edge, Searching1
  <2>2. /\ g \in Frames1 /\ g.t = f.t /\ g.from = f.from /\ g.sys = f.sys /\ g.i = 1
        /\ g.at = "succs"
        /\ h \in Frames1 /\ h.from = f.from /\ h.sys = f.sys /\ h.at = "edges" /\ h.t = f.t + 1
    <3>1. g \in Frames1 /\ g.t = f.t /\ g.from = f.from /\ g.sys = f.sys /\ g.i = 1
          /\ g.at = "succs"
      BY <2>1 DEF Frames1
    <3>2. h \in Frames1 /\ h.from = f.from /\ h.sys = f.sys /\ h.at = "edges" /\ h.t = f.t + 1
      BY <2>1 DEF Frames1
    <3> QED
      BY <3>1, <3>2
  <2>3. Satisfies(f.sys, Transitions(f.from)[f.t].guard)
          <=> Models(sys.label[f.sys], Transitions(f.from)[f.t].guard)
    BY <2>1, SatisfiesIsModels
  <2>4. \/ /\ Satisfies(f.sys, Transitions(f.from)[f.t].guard) /\ Pair(f) \notin dfs1Seen
           /\ onDfs1Stack' = onDfs1Stack \cup {Pair(f)} /\ dfs1Seen' = dfs1Seen \cup {Pair(f)}
           /\ dfs1' = SetTop(dfs1, g)
        \/ /\ ~Satisfies(f.sys, Transitions(f.from)[f.t].guard) \/ Pair(f) \in dfs1Seen
           /\ UNCHANGED <<onDfs1Stack, dfs1Seen>>
           /\ dfs1' = SetTop(dfs1, h)
    BY <1>2 DEF Dfs1Edge, Guard
  <2> HIDE DEF g, h
  <2>5. f.sys \in allocated /\ Pair(f)[1] = f.sys
    BY <2>1 DEF Worked1, Pair
  <2>6. Chain(dfs1', Worked1', First1', Calls1') /\ dfs1' # <<>>
    <3>1. CASE /\ Satisfies(f.sys, Transitions(f.from)[f.t].guard)
               /\ dfs1' = SetTop(dfs1, g)
      <4>1. Target(f) \in Moves(aut, f.from, sys.label[f.sys])
        BY <2>1, <3>1, SatisfiedMoves DEF Target
      <4>2. g \in Activations1 /\ Explored(g) /\ Target(g) = Target(f)
        BY <2>1, <2>2, <4>1 DEF Activations1, Good1, Explored, Target
      <4>3. \A i \in DOMAIN NextStates(g.sys) : ~(i < g.i)
        BY <2>1, <2>2, WorkedFrame1
      <4>4. g \in Worked1
        BY <2>1, <2>2, <2>5, <4>2, <4>3 DEF Worked1
      <4> QED
        BY <1>r, <1>w, <2>1, <2>2, <3>1, <4>4, SetTopLemma, ZenonT(60) DEF FirstSearch, Chain
    <3>2. CASE /\ ~Satisfies(f.sys, Transitions(f.from)[f.t].guard) \/ Pair(f) \in dfs1Seen
               /\ dfs1' = SetTop(dfs1, h)
      <4>1. Chosen(f.sys, f.from, f.t) \subseteq dfs1Seen
        BY <2>3, <3>2 DEF Chosen, Pair, Target
      <4>2. \A t \in DOMAIN Transitions(f.from) : t < f.t + 1 => t < f.t \/ t = f.t
        BY <2>1, WorkedFrame1
      <4>3. h \in Activations1 /\ ~Explored(h)
        BY <2>2 DEF Activations1, Good1, Explored
      <4>4. \A t \in DOMAIN Transitions(h.from) :
              t < h.t => Chosen(h.sys, h.from, t) \subseteq dfs1Seen
        BY <2>1, <2>2, <4>1, <4>2 DEF Worked1
      <4>5. h \in Worked1
        BY <2>2, <2>5, <4>3, <4>4 DEF Worked1
      <4> QED
        BY <1>r, <1>w, <2>1, <2>2, <3>2, <4>5, SetTopLemma, ZenonT(60) DEF FirstSearch, Chain
    <3> QED
      BY <2>4, <3>1, <3>2
  <2>7. InitialSeen'
    BY <1>i, <1>y, <2>1, <2>6 DEF InitialSeen, Started
  <2>8. LeftExplored'
    <3>1. Left' \subseteq Left
      BY <2>4 DEF Left
    <3> QED
      BY <1>x, <3>1
  <2>9. \A x \in dfs1Seen' : x[1] \in allocated
    BY <2>4, <2>5 DEF FirstSearch
  <2> QED
    BY <2>1, <2>6, <2>7, <2>8, <2>9 DEF FirstSearch
<1>3. CASE Dfs1Succ
  <2> DEFINE f == Top(dfs1)
             n == NextStates(f.sys)[f.i]
             g == Frame1(n, Target(f))
  <2>1. /\ f \in Worked1 /\ f \in Frames1 /\ f \in Activations1 /\ f \in Good1
        /\ dfs1 # <<>> /\ phase = "search" /\ phase' = "search" /\ f.at = "succs"
        /\ f.sys \in sys.states /\ f.i \in DOMAIN NextStates(f.sys)
        /\ allocated' = allocated \cup {n} /\ dfs1' = Append(dfs1, g)
        /\ UNCHANGED <<nextInit, dfs1Seen, onDfs1Stack>>
    BY <1>3, <1>t, WorkedFrame1 DEF Dfs1Succ, Searching1, SuccessorsDone
  <2>2. n \in sys.states /\ Target(f) \in aut.states
    BY <2>1, NextStatesType, NestedImpliesTyped, Top1Good DEF Good1, Explored
  <2>3. g \in Frames1 /\ g.sys = n /\ g.from = Target(f) /\ g.t = 1 /\ g.at = "edges"
    BY <2>2 DEF Frame1, Frames1
  <2>4. <<f, g>> \in Calls1
    BY <2>1, <2>3 DEF Calls1
  <2> HIDE DEF g, n
  <2>5. g \in Worked1'
    <3>1. g \in Activations1 /\ ~Explored(g)
      BY <2>3 DEF Activations1, Good1, Explored
    <3>2. \A t \in DOMAIN Transitions(g.from) : ~(t < g.t)
      BY <2>2, <2>3, NestedImpliesTyped, TransitionsDomain
    <3>3. g.sys \in allocated'
      BY <2>1, <2>3
    <3> QED
      BY <1>a, <2>3, <3>1, <3>2, <3>3 DEF Worked1, Explored
  <2>6. Chain(dfs1', Worked1', First1', Calls1')
    <3>1. Chain(dfs1, Worked1', First1, Calls1)
      BY <1>w, <2>1, ChainWider DEF FirstSearch
    <3> HIDE DEF f
    <3> QED
      BY <1>w, <2>1, <2>4, <2>5, <3>1, ChainAppend DEF f
  <2>7. dfs1' # <<>>
    <3>1. dfs1 \in Seq(Worked1)
      BY <2>1 DEF FirstSearch, Chain
    <3> HIDE DEF f
    <3> QED
      BY <2>1, <3>1, AppendProperties
  <2>8. InitialSeen'
    BY <1>i, <1>y, <2>1, <2>7 DEF InitialSeen, Started
  <2>9. LeftExplored'
    BY <1>x, <2>1 DEF Left
  <2> QED
    BY <1>m, <2>1, <2>6, <2>8, <2>9 DEF FirstSearch
<1>4. CASE Dfs1SuccsDone
  <2> DEFINE f == Top(dfs1)
             g == [f EXCEPT !.at = "nested"]
  <2>1. /\ f \in Worked1 /\ f \in Frames1 /\ f \in Activations1 /\ f.at = "succs"
        /\ dfs1 # <<>> /\ phase = "search" /\ phase' = "search" /\ SuccessorsDone(f) /\ Explored(f)
        /\ UNCHANGED <<nextInit, allocated, dfs1Seen>>
    BY <1>4, <1>t, WorkedFrame1 DEF Dfs1SuccsDone, Searching1, Explored
  <2>2. CASE LeavePair(f)
    BY <1>l, <2>1, <2>2
  <2>3. CASE Target(f) \in aut.acc /\ dfs1' = SetTop(dfs1, g) /\ UNCHANGED onDfs1Stack
    <3>1. /\ g \in Frames1 /\ g.t = f.t /\ g.from = f.from /\ g.sys = f.sys /\ g.i = f.i
          /\ g.at = "nested"
      BY <2>1 DEF Frames1
    <3>2. g \in Activations1 /\ Explored(g) /\ Target(g) = Target(f)
      BY <2>1, <3>1 DEF Activations1, Good1, Explored, Target
    <3> HIDE DEF g
    <3>3. g \in Worked1
      BY <2>1, <2>3, <3>1, <3>2 DEF Worked1, SuccessorsDone
    <3>4. Chain(dfs1', Worked1', First1', Calls1') /\ dfs1' # <<>>
      BY <1>r, <1>w, <2>1, <2>3, <3>1, <3>3, SetTopLemma DEF FirstSearch, Chain
    <3>5. InitialSeen'
      BY <1>i, <1>y, <2>1, <3>4 DEF InitialSeen, Started
    <3>6. LeftExplored'
      BY <1>x, <2>1, <2>3 DEF Left
    <3> QED
      BY <2>1, <3>4, <3>5, <3>6 DEF FirstSearch
  <2> QED
    BY <1>4, <2>2, <2>3 DEF Dfs1SuccsDone
<1>5. CASE Dfs1Return
  <2> DEFINE f == Top(dfs1)
             rest == Pop(dfs1)
             c == Top(rest)
             g == [c EXCEPT !.i = @ + 1]
  <2>1. /\ f \in Worked1 /\ dfs1 # <<>> /\ phase = "search" /\ phase' = "search"
        /\ f.t \notin DOMAIN Transitions(f.from)
        /\ dfs1' = IF rest = <<>> THEN rest ELSE SetTop(rest, g)
        /\ UNCHANGED <<nextInit, allocated, dfs1Seen, onDfs1Stack>>
    BY <1>5, <1>t DEF Dfs1Return, Searching1
  <2>2. {f.sys} \X Moves(aut, f.from, sys.label[f.sys]) \subseteq dfs1Seen
    BY <2>1, ExploredMoves
  <2>3. f.sys \in allocated
    BY <2>1 DEF Worked1
  <2>4. Chain(rest, Worked1, First1, Calls1)
    BY <2>1, ChainPop DEF FirstSearch
  <2>5. IF rest = <<>> THEN f \in First1 ELSE <<c, f>> \in Calls1 /\ c \in Worked1
    BY <2>1, ChainCaller DEF FirstSearch
  <2>6. LeftExplored'
    BY <1>x, <2>1 DEF Left
  <2>7. CASE rest = <<>>
    <3>1. dfs1' = <<>> /\ f.sys = 0 /\ f.from = aut.init[nextInit - 1]
      BY <2>1, <2>5, <2>7 DEF First1
    <3>2. Chain(dfs1', Worked1', First1', Calls1')
      BY <3>1, ChainEmpty
    <3>3. \A k \in Started' : k \in Started \/ k = nextInit - 1
      BY <1>i, <2>1, <3>1, AutomataAssumption DEF Started, Nested
    <3>4. InitialSeen'
      BY <1>i, <1>y, <2>1, <2>2, <3>1, <3>3 DEF InitialSeen
    <3> QED
      BY <2>1, <2>6, <3>2, <3>4 DEF FirstSearch
  <2>8. CASE rest # <<>>
    <3>1. c \in Worked1 /\ <<c, f>> \in Calls1 /\ dfs1' = SetTop(rest, g)
      BY <2>1, <2>5, <2>8
    <3>2. c \in Frames1 /\ c \in Activations1 /\ c.i \in Nat /\ c.t \in Nat \ {0}
      BY <3>1, WorkedFrame1
    <3>3. c.at = "succs"
      <4>1. c \in Waiting
        BY <2>1, <2>8, CallsPop DEF Nested
      <4> QED
        BY <4>1 DEF Waiting
    <3>4. /\ g \in Frames1 /\ g.t = c.t /\ g.from = c.from /\ g.sys = c.sys /\ g.at = "succs"
          /\ g.i = c.i + 1
      BY <3>2, <3>3 DEF Frames1
    <3>5. /\ c.i \in DOMAIN NextStates(c.sys)
          /\ f.sys = NextStates(c.sys)[c.i] /\ f.from = Target(c)
      BY <3>1 DEF Calls1
    <3> HIDE DEF g, c, f, rest
    <3>6. g \in Activations1 /\ Explored(g) /\ Target(g) = Target(c) /\ Explored(c)
      BY <3>2, <3>3, <3>4 DEF Activations1, Good1, Explored, Target
    <3>7. Through(c.sys, Target(c), c.i) \subseteq dfs1Seen
      BY <2>2, <3>5 DEF Through
    <3>8. \A i \in DOMAIN NextStates(c.sys) : i < c.i + 1 => i < c.i \/ i = c.i
      BY <3>1, <3>2, WorkedFrame1
    <3>9. \A i \in DOMAIN NextStates(g.sys) : i < g.i =>
             NextStates(g.sys)[i] \in allocated /\ Through(g.sys, Target(g), i) \subseteq dfs1Seen
      BY <2>3, <3>1, <3>4, <3>5, <3>6, <3>7, <3>8 DEF Worked1
    <3>10. g \in Worked1
      BY <3>1, <3>2, <3>4, <3>6, <3>9 DEF Worked1
    <3>11. Chain(dfs1', Worked1', First1', Calls1') /\ dfs1' # <<>>
      <4>1. g \in Worked1' /\ g.sys = Top(rest).sys /\ g.from = Top(rest).from
        BY <1>w, <3>4, <3>10 DEF c
      <4>2. Chain(SetTop(rest, g), Worked1', First1, Calls1)
        BY <1>r, <2>4, <2>8, <4>1
      <4>3. SetTop(rest, g) # <<>>
        BY <2>4, <2>8, <3>10, SetTopLemma DEF Chain
      <4> QED
        BY <1>w, <2>1, <3>1, <4>2, <4>3
    <3>12. InitialSeen'
      BY <1>i, <1>y, <2>1, <3>11 DEF InitialSeen, Started
    <3> QED
      BY <2>1, <2>6, <3>11, <3>12 DEF FirstSearch
  <2> QED
    BY <2>7, <2>8
<1>6. CASE Dfs2Return /\ LeavePair(Top(dfs1))
  <2> DEFINE f == Top(dfs1)
  <2>1. /\ phase = "search" /\ dfs1 # <<>> /\ f.at = "nested"
        /\ UNCHANGED <<phase, nextInit, allocated, dfs1Seen>>
    BY <1>6 DEF Dfs2Return, Searching2, Nested
  <2>2. Explored(f) /\ SuccessorsDone(f)
    BY <1>t, <2>1 DEF Worked1, Explored, SuccessorsDone
  <2> QED
    BY <1>6, <1>l, <2>1, <2>2
(* The steps that leave the stack alone.                                   *)
<1>s. UNCHANGED <<nextInit, allocated, dfs1Seen, dfs1>>
        => Worked1' = Worked1 /\ First1' = First1 /\ Calls1' = Calls1
  BY <1>i, <1>a, <1>w DEF Worked1, Explored
<1>7. CASE NoCounterexample
  <2>1. /\ phase = "search" /\ phase' = "none" /\ dfs1 = <<>> /\ nextInit \notin DOMAIN aut.init
        /\ UNCHANGED <<nextInit, dfs1, allocated, dfs1Seen, onDfs1Stack>>
    BY <1>7 DEF NoCounterexample
  <2>2. onDfs1Stack = {}
    BY <2>1 DEF StackMarksExact, Dfs1Pairs
  <2>3. \A k \in DOMAIN aut.init : k \in Started
    BY <2>1, AutomataAssumption DEF Started, Nested
  <2>4. ProductInit(sys, aut) \subseteq dfs1Seen
    BY <2>1, <2>3 DEF ProductInit, FirstMoves, FirstSearch, InitialSeen
  <2>5. LeftExplored'
    BY <1>x, <2>1 DEF Left
  <2> QED
    BY <1>i, <1>s, <2>1, <2>2, <2>4, <2>5 DEF FirstSearch
<1>8. CASE /\ UNCHANGED <<nextInit, allocated, dfs1Seen, onDfs1Stack, dfs1>>
           /\ UNCHANGED phase \/ phase' \notin {"search", "none"}
  <2>1. LeftExplored'
    BY <1>x, <1>8 DEF Left
  <2>2. UNCHANGED phase => InitialSeen' = InitialSeen
    BY <1>i, <1>8 DEF InitialSeen, Started
  <2> QED
    BY <1>i, <1>s, <1>8, <2>1, <2>2 DEF FirstSearch
<1>9. CASE Unwind1
  <2>1. /\ dfs1 # <<>> /\ dfs1' = Pop(dfs1) /\ phase' = "unwind"
        /\ UNCHANGED <<nextInit, allocated, dfs1Seen, onDfs1Stack>>
    BY <1>9 DEF Unwind1
  <2>2. Chain(dfs1', Worked1, First1, Calls1)
    BY <2>1, ChainPop DEF FirstSearch
  <2>3. Chain(dfs1', Worked1', First1', Calls1')
    BY <1>w, <2>1, <2>2, ChainWider
  <2>4. LeftExplored'
    BY <1>x, <2>1 DEF Left
  <2> QED
    BY <2>1, <2>3, <2>4 DEF FirstSearch
<1> QED
  BY <1>1, <1>2, <1>3, <1>4, <1>5, <1>6, <1>7, <1>8, <1>9
     DEF Next, Search1, Search2, Answer, Done, vars, Dfs2Succ, Dfs2Edge, Dfs2EdgesDone,
         Dfs2Return, Unwind2, Found

----------------------------------------------------------------------------
(* The second search.  What it has visited and come back from, or will     *)
(* come back from before its root does, leads to nothing on the first      *)
(* stack.                                                                  *)
Dead == dfs2Seen \ onDfs1Stack
Visited(f) == <<f.sys, f.prop>>
VisitedBy(st) == {Visited(st[k]) : k \in DOMAIN st}
Worked2 ==
  {f \in Good2 :
     /\ Visited(f) \in dfs2Seen
     /\ \A i \in DOMAIN NextStates(f.sys) : i < f.i => Through(f.sys, f.prop, i) \subseteq Dead
     /\ \A t \in DOMAIN Transitions(f.prop) :
          t < f.t => Chosen(Next2(f), f.prop, t) \subseteq Dead}
Calls2 ==
  {x \in Good2 \X Good2 : x[2].sys = Next2(x[1]) /\ x[2].prop = Target2(x[1]) /\ Visited(x[2]) \in Dead}
Met == {f \in Good2 : f.sys \in allocated /\ (f.t # 0 => Next2(f) \in allocated)}

(* A certificate that x lies on no cycle of the product.                   *)
OnNoCycle(x) ==
  \E T \in SUBSET Pairs :
    /\ Successors1(x) \subseteq T /\ x \notin T
    /\ \A y \in T : Successors1(y) \subseteq T

(* Only the root of a second search is both visited by it and on the first *)
(* stack.                                                                  *)
OnlyRootOnStack ==
  \A x \in dfs2Seen : x \in onDfs1Stack => dfs2 # <<>> /\ x = Pair(Top(dfs1))
VisitedIsOpenOrDead ==
  \A x \in dfs2Seen : x \in VisitedBy(dfs2) \/ Successors1(x) \subseteq Dead

SecondSearch ==
  /\ dfs2Seen \subseteq dfs1Seen
  /\ dfs2 \in Seq(Met)
  /\ \A x \in Left : x[2] \in aut.acc => OnNoCycle(x)
  /\ phase = "search" =>
       /\ Chain(dfs2, Worked2, Good2, Calls2)
       /\ OnlyRootOnStack
       /\ VisitedIsOpenOrDead

LEMMA SecondSearchInit == Init => SecondSearch
<1> SUFFICES ASSUME Init PROVE SecondSearch
  OBVIOUS
<1>1. Chain(dfs2, Worked2, Good2, Calls2) /\ dfs2 \in Seq(Met)
  BY ChainEmpty DEF Init
<1> QED
  BY <1>1 DEF Init, SecondSearch, Left, OnlyRootOnStack, VisitedIsOpenOrDead

LEMMA VisitedSetTop ==
  ASSUME NEW S, NEW st \in Seq(S), st # <<>>, NEW g \in S, Visited(g) = Visited(Top(st))
  PROVE  VisitedBy(SetTop(st, g)) = VisitedBy(st)
<1> DEFINE new == SetTop(st, g)
           n == Len(st)
<1>1. /\ n \in Nat \ {0} /\ Top(st) = st[n] /\ DOMAIN st = 1 .. n /\ new \in Seq(S)
      /\ Len(new) = n /\ Top(new) = g /\ new # <<>> /\ \A k \in 1 .. n - 1 : new[k] = st[k]
  BY TopLemma, SetTopLemma
<1> HIDE DEF new, n
<1>2. DOMAIN new = 1 .. n /\ new[n] = g
  BY <1>1, TopLemma
<1>3. \A k \in 1 .. n : k = n \/ k \in 1 .. n - 1
  BY <1>1
<1>4. \A k \in 1 .. n : Visited(new[k]) = Visited(st[k])
  BY <1>1, <1>2, <1>3
<1> QED
  BY <1>1, <1>2, <1>4 DEF VisitedBy, new

LEMMA VisitedAppend ==
  ASSUME NEW S, NEW st \in Seq(S), NEW g \in S
  PROVE  VisitedBy(Append(st, g)) = VisitedBy(st) \cup {Visited(g)}
<1> DEFINE new == Append(st, g)
           n == Len(st)
<1>1. /\ n \in Nat /\ DOMAIN st = 1 .. n /\ DOMAIN new = 1 .. n + 1
      /\ new[n + 1] = g /\ \A k \in 1 .. n : new[k] = st[k]
  BY AppendProperties
<1> HIDE DEF new, n
<1>2. \A k \in 1 .. n + 1 : k = n + 1 \/ k \in 1 .. n
  BY <1>1
<1>3. n + 1 \in 1 .. n + 1 /\ \A k \in 1 .. n : k \in 1 .. n + 1
  BY <1>1
<1> QED
  BY <1>1, <1>2, <1>3 DEF VisitedBy, new

LEMMA VisitedPop ==
  ASSUME NEW S, NEW st \in Seq(S), st # <<>>
  PROVE  VisitedBy(st) \subseteq VisitedBy(Pop(st)) \cup {Visited(Top(st))}
<1> DEFINE new == Pop(st)
           n == Len(st)
<1>1. /\ n \in Nat \ {0} /\ DOMAIN st = 1 .. n /\ DOMAIN new = 1 .. n - 1 /\ Top(st) = st[n]
      /\ \A k \in 1 .. n - 1 : new[k] = st[k]
  BY TopLemma, PopLemma
<1> HIDE DEF new, n
<1>2. \A k \in 1 .. n : k = n \/ k \in 1 .. n - 1
  BY <1>1
<1> QED
  BY <1>1, <1>2 DEF VisitedBy, new

(* The first search has been through all that the second one visits.       *)
LEMMA VisitedIsExplored ==
  ASSUME Nested, FirstSearch, SecondSearch, phase = "search", dfs2 # <<>>, NEW x \in dfs2Seen
  PROVE  SuccessorSet(sys, x[1]) \subseteq allocated /\ Successors1(x) \subseteq dfs1Seen
<1>1. CASE x \in onDfs1Stack
  <2> DEFINE f == Top(dfs1)
  <2>1. x = Pair(f) /\ dfs1 # <<>> /\ f.at = "nested"
    BY <1>1 DEF SecondSearch, OnlyRootOnStack, Nested
  <2>2. f \in Worked1
    BY <2>1, ChainTop DEF FirstSearch
  <2>3. Explored(f) /\ SuccessorsDone(f)
    BY <2>1, <2>2 DEF Worked1, Explored, SuccessorsDone
  <2>4. x[1] = f.sys
    BY <2>1 DEF Pair
  <2> QED
    BY <2>1, <2>2, <2>3, <2>4, ExploredPair
<1>2. CASE x \notin onDfs1Stack
  BY <1>2 DEF SecondSearch, FirstSearch, LeftExplored, Left
<1> QED
  BY <1>1, <1>2

LEMMA Worked2Grows ==
  ASSUME UNCHANGED <<sys, aut>>, Dead \subseteq Dead', dfs2Seen \subseteq dfs2Seen'
  PROVE  Worked2 \subseteq Worked2' /\ Calls2 \subseteq Calls2' /\ Good2' = Good2
<1>1. Good2' = Good2
  BY DEF Good2, Frames2, NextStates
<1>2. Calls2 \subseteq Calls2'
  <2>1. \A f : Next2(f)' = Next2(f) /\ Target2(f)' = Target2(f)
    BY DEF Next2, NextStates, Target2, Transitions
  <2> QED
    BY <1>1, <2>1 DEF Calls2, Visited
<1>3. ASSUME NEW f \in Worked2 PROVE f \in Worked2'
  <2>1. \A t : Chosen(Next2(f), f.prop, t)' = Chosen(Next2(f), f.prop, t)
    BY DEF Chosen, Transitions, Next2, NextStates
  <2>2. /\ \A i : Through(f.sys, f.prop, i)' = Through(f.sys, f.prop, i)
        /\ NextStates(f.sys)' = NextStates(f.sys)
        /\ Transitions(f.prop)' = Transitions(f.prop)
    BY DEF Through, NextStates, Transitions
  <2>3. Visited(f) \in dfs2Seen'
    BY DEF Worked2
  <2> QED
    BY <1>1, <2>1, <2>2, <2>3 DEF Worked2, Visited
<1> QED
  BY <1>1, <1>2, <1>3

LEMMA WorkedFrame2 ==
  ASSUME Nested, NEW f \in Worked2
  PROVE  /\ f \in Good2 /\ f \in Frames2 /\ Visited(f) \in dfs2Seen
         /\ f.sys \in sys.states /\ f.prop \in aut.states /\ f.t \in Nat /\ f.i \in Nat \ {0}
         /\ NextStates(f.sys) \in Seq(sys.states)
         /\ Len(NextStates(f.sys)) \in Nat \ {0}
         /\ DOMAIN NextStates(f.sys) = 1 .. Len(NextStates(f.sys))
         /\ Len(Transitions(f.prop)) \in Nat
         /\ DOMAIN Transitions(f.prop) = 1 .. Len(Transitions(f.prop))
<1>1. /\ f \in Good2 /\ f \in Frames2 /\ Visited(f) \in dfs2Seen
      /\ f.sys \in sys.states /\ f.prop \in aut.states /\ f.t \in Nat /\ f.i \in Nat \ {0}
  BY DEF Worked2, Good2, Frames2
<1>2. NextStates(f.sys) \in Seq(sys.states) /\ Len(NextStates(f.sys)) \in Nat \ {0}
  BY <1>1, NestedImpliesTyped, NextStatesType
<1> QED
  BY <1>1, <1>2, NestedImpliesTyped, TransitionsDomain

(* A frame of the second search that returns has dead successors only.     *)
LEMMA DeadSuccessors ==
  ASSUME Nested, NEW f \in Worked2, f.i \notin DOMAIN NextStates(f.sys)
  PROVE  Successors1(Visited(f)) \subseteq Dead
<1>1. \A i \in DOMAIN NextStates(f.sys) : i < f.i
  BY WorkedFrame2
<1>2. \A i \in DOMAIN NextStates(f.sys) : Through(f.sys, f.prop, i) \subseteq Dead
  BY <1>1 DEF Worked2
<1> QED
  BY <1>2, AllSuccessors DEF Visited

LEMMA DeadGrows ==
  ASSUME Nested, StackMarksExact, SecondSearch, [Next]_vars
  PROVE  Dead \subseteq Dead' /\ dfs2Seen \subseteq dfs2Seen'
<1> USE DEF instance, caches, result
<1>1. CASE Dfs1Edge
  <2>1. /\ dfs2Seen' = dfs2Seen
        /\ \/ onDfs1Stack' = onDfs1Stack
           \/ onDfs1Stack' = onDfs1Stack \cup {Pair(Top(dfs1))} /\ Pair(Top(dfs1)) \notin dfs1Seen
    BY <1>1 DEF Dfs1Edge
  <2> QED
    BY <2>1 DEF Dead, SecondSearch
<1>2. CASE dfs2Seen \subseteq dfs2Seen' /\ onDfs1Stack' \subseteq onDfs1Stack
  BY <1>2 DEF Dead
<1>3. CASE Dfs1SuccsDone
  BY <1>2, <1>3 DEF Dfs1SuccsDone, LeavePair
<1>4. CASE Dfs2Return
  BY <1>2, <1>4 DEF Dfs2Return, LeavePair
<1>5. CASE Dfs2Edge
  BY <1>2, <1>5 DEF Dfs2Edge
<1>6. CASE UNCHANGED <<dfs2Seen, onDfs1Stack>>
  BY <1>2, <1>6
<1> QED
  BY <1>1, <1>3, <1>4, <1>5, <1>6
     DEF Next, Search1, Search2, Answer, Done, vars, StartFromInitial, Dfs1Succ, Dfs1Return,
         Dfs2Succ, Dfs2EdgesDone, Unwind2, Unwind1, Found, NoCounterexample

LEMMA SecondSearchStep ==
  /\ Nested /\ CachesOK /\ StacksRun /\ StackMarksExact /\ FirstSearch /\ SecondSearch
  /\ [Next]_vars
  => SecondSearch'
<1> SUFFICES ASSUME Nested, CachesOK, StacksRun, StackMarksExact, FirstSearch, SecondSearch,
                    [Next]_vars
             PROVE  SecondSearch'
  OBVIOUS
<1> USE DEF instance, caches, result
<1>i. sys' = sys /\ aut' = aut
  BY InstanceFixed
<1>m. Dead \subseteq Dead' /\ dfs2Seen \subseteq dfs2Seen' /\ allocated \subseteq allocated'
  <2>1. allocated \subseteq allocated'
    BY DEF Next, Search1, Search2, Answer, Done, vars, StartFromInitial, Dfs1Edge, Dfs1Succ,
       Dfs1SuccsDone, Dfs1Return, Dfs2Succ, Dfs2Edge, Dfs2EdgesDone, Dfs2Return, Unwind2,
       Unwind1, Found, NoCounterexample
  <2> QED
    BY <2>1, DeadGrows
<1>w. Worked2 \subseteq Worked2' /\ Calls2 \subseteq Calls2' /\ Good2' = Good2
  BY <1>i, <1>m, Worked2Grows
<1>e. Met \subseteq Met'
  <2>1. \A f : Next2(f)' = Next2(f)
    BY <1>i DEF Next2, NextStates
  <2> QED
    BY <1>m, <1>w, <2>1 DEF Met
<1>a. /\ \A s, q, t : Chosen(s, q, t)' = Chosen(s, q, t)
      /\ \A s, q, i : Through(s, q, i)' = Through(s, q, i)
      /\ \A s : NextStates(s)' = NextStates(s)
      /\ \A q : Transitions(q)' = Transitions(q)
      /\ \A f : Next2(f)' = Next2(f) /\ Target2(f)' = Target2(f) /\ Visited(f)' = Visited(f)
      /\ \A f : Target(f)' = Target(f) /\ Pair(f)' = Pair(f)
      /\ \A x : Successors1(x)' = Successors1(x)
  BY <1>i DEF Chosen, Through, NextStates, Transitions, Next2, Target2, Visited, Target, Pair,
     Successors1
<1>n. \A x : OnNoCycle(x) => OnNoCycle(x)'
  <2>1. Pairs' = Pairs
    BY <1>i DEF Pairs
  <2> QED
    BY <1>a, <2>1 DEF OnNoCycle
<1>v. \A st : VisitedBy(st)' = {Visited(st'[k]) : k \in DOMAIN st'}
  BY DEF VisitedBy, Visited
(* The stack with its innermost frame replaced, for the same pair.         *)
<1>r. ASSUME NEW st, Chain(st, Worked2, Good2, Calls2), st # <<>>, NEW g \in Worked2',
             g.sys = Top(st).sys, g.prop = Top(st).prop
      PROVE  Chain(SetTop(st, g), Worked2', Good2', Calls2')
  <2>1. Chain(st, Worked2', Good2', Calls2')
    BY <1>r, <1>w, ChainWider
  <2>2. g \in Good2'
    BY <1>a DEF Worked2
  <2>3. \A c \in Worked2' : <<c, Top(st)>> \in Calls2' => <<c, g>> \in Calls2'
    BY <1>r, <1>a, <2>2 DEF Calls2, Visited
  <2> QED
    BY <1>r, <2>1, <2>2, <2>3, ChainSetTop
<1>q. ASSUME \A x \in Left' : x \in Left \/ x[2] \notin aut.acc \/ OnNoCycle(x)
      PROVE  \A x \in Left' : x[2] \in aut'.acc => OnNoCycle(x)'
  BY <1>i, <1>n, <1>q DEF SecondSearch
(* The steps of the first search alone.                                    *)
<1>f. ASSUME dfs2 = <<>>, dfs2' = <<>>, dfs2Seen' = dfs2Seen, dfs1Seen \subseteq dfs1Seen',
             phase' = "search" => phase = "search" /\ dfs2Seen \cap onDfs1Stack' = {},
             \A x \in Left' : x \in Left \/ x[2] \notin aut.acc
      PROVE  SecondSearch'
  <2>1. Chain(dfs2', Worked2', Good2', Calls2') /\ dfs2' \in Seq(Met')
    BY <1>f, ChainEmpty
  <2>2. phase' = "search" => OnlyRootOnStack'
    BY <1>f DEF OnlyRootOnStack
  <2>3. phase' = "search" => VisitedIsOpenOrDead'
    <3>1. VisitedBy(dfs2) = {}
      BY <1>f DEF VisitedBy
    <3> QED
      BY <1>f, <1>m, <1>a, <3>1 DEF SecondSearch, VisitedIsOpenOrDead
  <2> QED
    BY <1>f, <1>q, <2>1, <2>2, <2>3 DEF SecondSearch
<1>1. CASE Dfs1Edge
  <2>1. /\ phase = "search" /\ dfs2 = <<>> /\ dfs2' = <<>> /\ dfs2Seen' = dfs2Seen
        /\ \/ UNCHANGED <<onDfs1Stack, dfs1Seen>>
           \/ /\ onDfs1Stack' = onDfs1Stack \cup {Pair(Top(dfs1))}
              /\ dfs1Seen' = dfs1Seen \cup {Pair(Top(dfs1))}
              /\ Pair(Top(dfs1)) \notin dfs1Seen
    BY <1>1 DEF Dfs1Edge, Searching1
  <2>2. dfs2Seen \cap onDfs1Stack' = {}
    BY <2>1 DEF SecondSearch, OnlyRootOnStack
  <2>3. Left' \subseteq Left
    BY <2>1 DEF Left
  <2> QED
    BY <1>f, <2>1, <2>2, <2>3
<1>2. CASE StartFromInitial \/ Dfs1Succ \/ Dfs1Return \/ NoCounterexample
  <2>1. /\ phase = "search" /\ dfs2 = <<>> /\ dfs2' = <<>>
        /\ UNCHANGED <<dfs2Seen, dfs1Seen, onDfs1Stack>>
    BY <1>2 DEF StartFromInitial, Dfs1Succ, Dfs1Return, NoCounterexample, Searching1, Nested
  <2>2. dfs2Seen \cap onDfs1Stack' = {}
    BY <2>1 DEF SecondSearch, OnlyRootOnStack
  <2>3. Left' \subseteq Left
    BY <2>1 DEF Left
  <2> QED
    BY <1>f, <2>1, <2>2, <2>3
<1>3. CASE Dfs1SuccsDone
  <2> DEFINE f == Top(dfs1)
             e == Frame2(f.sys, Target(f))
  <2>1. /\ phase = "search" /\ dfs2 = <<>> /\ dfs1 # <<>> /\ f \in Frames1 /\ f.at = "succs"
        /\ UNCHANGED <<phase, allocated, dfs1Seen>>
        /\ Explored(f) /\ f \in Worked1 /\ f.sys \in sys.states /\ f \in Good1
    <3>1. /\ phase = "search" /\ dfs2 = <<>> /\ dfs1 # <<>> /\ f.at = "succs"
          /\ UNCHANGED <<phase, allocated, dfs1Seen>>
      BY <1>3 DEF Dfs1SuccsDone, Searching1
    <3>2. f \in Worked1
      BY <3>1, ChainTop DEF FirstSearch
    <3> QED
      BY <3>1, <3>2, WorkedFrame1 DEF Explored
  <2>p. Pair(f) \in onDfs1Stack /\ Pair(f) \in dfs1Seen /\ Pair(f) = <<f.sys, Target(f)>>
    <3>1. f = dfs1[Len(dfs1)] /\ Len(dfs1) \in DOMAIN dfs1
      BY <2>1, TopLemma DEF Nested, Calls
    <3>2. Pair(f) \in Dfs1Pairs
      BY <2>1, <3>1 DEF Dfs1Pairs
    <3> QED
      BY <2>1, <3>2 DEF StackMarksExact, Pair
  <2>2. CASE Target(f) \notin aut.acc /\ LeavePair(f) /\ UNCHANGED <<dfs2, dfs2Seen>>
    <3>1. onDfs1Stack' = onDfs1Stack \ {Pair(f)}
      BY <2>2 DEF LeavePair
    <3>2. dfs2Seen \cap onDfs1Stack' = {}
      BY <2>1, <3>1 DEF SecondSearch, OnlyRootOnStack
    <3>3. \A x \in Left' : x \in Left \/ x[2] \notin aut.acc
      BY <2>1, <2>2, <2>p, <3>1 DEF Left
    <3> QED
      BY <1>f, <2>1, <2>2, <3>2, <3>3
  <2>3. CASE /\ dfs2' = <<e>> /\ dfs2Seen' = dfs2Seen \cup {Pair(f)}
             /\ dfs1' = SetTop(dfs1, [f EXCEPT !.at = "nested"]) /\ UNCHANGED onDfs1Stack
    <3>1. Target(f) \in aut.states
      BY <2>1, Top1Good DEF Good1
    <3>2. e \in Good2 /\ e.sys = f.sys /\ e.prop = Target(f) /\ e.i = 1 /\ e.t = 0
      BY <2>1, <3>1 DEF Frame2, Good2, Frames2
    <3> HIDE DEF e
    <3>3. Visited(e) = Pair(f)
      BY <2>p, <3>2 DEF Visited
    <3>4. e \in Worked2'
      <4>1. /\ \A i \in DOMAIN NextStates(e.sys) : ~(i < e.i)
            /\ \A t \in DOMAIN Transitions(e.prop) : ~(t < e.t)
        BY <2>1, <3>1, <3>2, NestedImpliesTyped, NextStatesType, TransitionsDomain
      <4> QED
        BY <1>a, <1>w, <2>3, <3>2, <3>3, <4>1 DEF Worked2
    <3>5. Chain(dfs2', Worked2', Good2', Calls2')
      BY <1>w, <2>3, <3>2, <3>4, ChainSingleton
    <3>6. dfs2' \in Seq(Met')
      <4>1. e \in Met
        BY <2>1, <3>2 DEF Met, Worked1
      <4> QED
        BY <1>e, <2>3, <4>1, SingletonLemma
    <3>7. OnlyRootOnStack'
      <4> DEFINE g == [f EXCEPT !.at = "nested"]
      <4>1. g \in Frames1 /\ g.sys = f.sys /\ g.from = f.from /\ g.t = f.t
        BY <2>1 DEF Frames1
      <4>2. Pair(g) = Pair(f)
        BY <4>1 DEF Pair, Target
      <4> HIDE DEF g
      <4>3. Top(dfs1') = g
        BY <2>1, <2>3, <4>1, SetTopLemma, NestedImpliesTyped DEF TypeOK, g
      <4>4. dfs2' # <<>>
        BY <2>3, SingletonLemma
      <4>5. Pair(Top(dfs1))' = Pair(f)
        BY <1>a, <4>2, <4>3
      <4> QED
        BY <2>1, <2>3, <4>4, <4>5 DEF OnlyRootOnStack, SecondSearch
    <3>8. VisitedIsOpenOrDead'
      <4>1. VisitedBy(dfs2) = {}
        BY <2>1 DEF VisitedBy
      <4>2. Pair(f) \in VisitedBy(dfs2)'
        <5>1. DOMAIN <<e>> = {1} /\ <<e>>[1] = e
          OBVIOUS
        <5> QED
          BY <2>3, <3>3, <5>1 DEF VisitedBy, Visited
      <4> QED
        BY <1>m, <1>a, <2>1, <2>3, <4>1, <4>2 DEF VisitedIsOpenOrDead, SecondSearch
    <3>9. Left' = Left
      BY <2>1, <2>3 DEF Left
    <3>10. dfs2Seen' \subseteq dfs1Seen'
      BY <2>1, <2>3, <2>p DEF SecondSearch
    <3> QED
      BY <1>q, <3>5, <3>6, <3>7, <3>8, <3>9, <3>10 DEF SecondSearch
  <2> QED
    BY <1>3, <2>2, <2>3 DEF Dfs1SuccsDone
(* The innermost activation of the second search.                          *)
<1>t. ASSUME Searching2
      PROVE  /\ dfs2 # <<>> /\ phase = "search" /\ dfs2 \in Seq(Met)
             /\ Chain(dfs2, Worked2, Good2, Calls2) /\ Top(dfs2) \in Worked2 /\ Top(dfs2) \in Met
             /\ SuccessorSet(sys, Top(dfs2).sys) \subseteq allocated
             /\ Successors1(Visited(Top(dfs2))) \subseteq dfs1Seen
  <2>1. dfs2 # <<>> /\ phase = "search" /\ dfs2 \in Seq(Met) /\ Chain(dfs2, Worked2, Good2, Calls2)
    BY <1>t DEF Searching2, SecondSearch
  <2>2. Top(dfs2) \in Worked2 /\ Top(dfs2) \in Met
    BY <2>1, ChainTop, TopLemma
  <2>3. Visited(Top(dfs2)) \in dfs2Seen /\ Visited(Top(dfs2))[1] = Top(dfs2).sys
    BY <2>2 DEF Worked2, Visited
  <2> QED
    BY <2>1, <2>2, <2>3, VisitedIsExplored
<1>u. ASSUME Searching2, NEW g \in Worked2, g \in Met,
             g.sys = Top(dfs2).sys, g.prop = Top(dfs2).prop, dfs2' = SetTop(dfs2, g),
             UNCHANGED <<phase, dfs1, dfs1Seen, onDfs1Stack, dfs2Seen>>
      PROVE  SecondSearch'
  <2>1. Chain(dfs2', Worked2', Good2', Calls2')
    BY <1>r, <1>t, <1>u, <1>w
  <2>2. dfs2' \in Seq(Met') /\ dfs2' # <<>>
    <3>1. dfs2 \in Seq(Met') /\ g \in Met' /\ dfs2 # <<>>
      BY <1>e, <1>t, <1>u
    <3> QED
      BY <1>u, <3>1, SetTopLemma
  <2>3. OnlyRootOnStack'
    BY <1>a, <1>u, <1>t, <2>2 DEF OnlyRootOnStack, SecondSearch
  <2>4. VisitedIsOpenOrDead'
    <3>1. VisitedBy(SetTop(dfs2, g)) = VisitedBy(dfs2)
      BY <1>t, <1>u, VisitedSetTop DEF Visited
    <3>2. VisitedBy(dfs2)' = VisitedBy(dfs2)
      BY <1>u, <3>1 DEF VisitedBy, Visited
    <3> QED
      BY <1>a, <1>m, <1>t, <1>u, <3>2 DEF VisitedIsOpenOrDead, SecondSearch
  <2> QED
    BY <1>q, <1>u, <2>1, <2>2, <2>3, <2>4 DEF SecondSearch, Left
<1>4. CASE Dfs2Succ
  <2> DEFINE f == Top(dfs2)
             g == [f EXCEPT !.t = 1]
  <2>1. /\ Searching2 /\ f.t = 0 /\ f.i \in DOMAIN NextStates(f.sys)
        /\ dfs2' = SetTop(dfs2, g)
        /\ UNCHANGED <<phase, dfs1, dfs1Seen, onDfs1Stack, dfs2Seen>>
    BY <1>4 DEF Dfs2Succ
  <2>2. f \in Worked2 /\ f \in Met /\ f \in Good2 /\ f \in Frames2 /\ f.prop \in aut.states
    BY <1>t, <2>1, WorkedFrame2
  <2>3. g \in Frames2 /\ g.sys = f.sys /\ g.prop = f.prop /\ g.i = f.i /\ g.t = 1
    BY <2>2 DEF Frames2
  <2> HIDE DEF g
  <2>4. g \in Good2
    BY <2>1, <2>3 DEF Good2
  <2>5. \A t \in DOMAIN Transitions(g.prop) : ~(t < g.t)
    BY <2>2, <2>3, NestedImpliesTyped, TransitionsDomain
  <2>6. g \in Worked2
    BY <2>2, <2>3, <2>4, <2>5 DEF Worked2, Visited
  <2>7. g \in Met
    <3>1. Next2(g) \in SuccessorSet(sys, f.sys)
      BY <2>1, <2>3, NextIsSuccessor DEF Next2
    <3> QED
      BY <1>t, <2>1, <2>2, <2>3, <2>4, <3>1 DEF Met
  <2> QED
    BY <1>u, <2>1, <2>3, <2>6, <2>7
<1>5. CASE Dfs2Edge
  <2> DEFINE f == Top(dfs2)
             n == Next2(f)
             pair == <<n, Target2(f)>>
             h == [f EXCEPT !.t = @ + 1]
             e == Frame2(n, Target2(f))
  <2>1. /\ Searching2 /\ f.t \in DOMAIN Transitions(f.prop)
        /\ UNCHANGED <<dfs1, allocated, dfs1Seen, onDfs1Stack>>
    BY <1>5 DEF Dfs2Edge
  <2>2. /\ f \in Worked2 /\ f \in Met /\ f \in Good2 /\ f \in Frames2
        /\ f.sys \in sys.states /\ f.prop \in aut.states /\ f.t \in Nat \ {0}
        /\ f.i \in DOMAIN NextStates(f.sys)
    BY <1>t, <2>1, WorkedFrame2 DEF Good2
  <2>3. n \in sys.states /\ n \in SuccessorSet(sys, f.sys) /\ Target2(f) \in aut.states
    BY <2>1, <2>2, NestedImpliesTyped, NextStatesType, NextIsSuccessor, TransitionType
       DEF Next2, Target2
  <2>4. Satisfies(n, Transitions(f.prop)[f.t].guard)
          <=> Models(sys.label[n], Transitions(f.prop)[f.t].guard)
    BY <2>1, <2>2, <2>3, SatisfiesIsModels
  <2>5. CASE phase' = "unwind" /\ UNCHANGED <<dfs2, dfs2Seen>>
    <3>1. dfs2' \in Seq(Met')
      BY <1>e, <1>t, <2>1, <2>5
    <3> QED
      BY <1>q, <2>1, <2>5, <3>1 DEF SecondSearch, Left
  <2>6. CASE /\ Satisfies(n, Transitions(f.prop)[f.t].guard)
             /\ pair \notin onDfs1Stack /\ pair \notin dfs2Seen
             /\ dfs2Seen' = dfs2Seen \cup {pair} /\ dfs2' = Append(dfs2, e) /\ UNCHANGED phase
    <3>1. pair \in Dead' /\ pair \in dfs2Seen'
      BY <2>1, <2>6 DEF Dead
    <3>2. pair \in dfs1Seen
      <4>1. Target2(f) \in Moves(aut, f.prop, sys.label[n])
        BY <2>1, <2>2, <2>3, <2>6, SatisfiedMoves DEF Target2
      <4>2. pair \in Successors1(Visited(f))
        BY <2>3, <4>1 DEF Successors1, ProductSuccessors, Visited
      <4> QED
        BY <1>t, <2>1, <4>2
    <3>3. e \in Good2 /\ e.sys = n /\ e.prop = Target2(f) /\ e.i = 1 /\ e.t = 0
      BY <2>3 DEF Frame2, Good2, Frames2
    <3>4. Visited(e) = pair
      BY <3>3 DEF Visited
    <3> HIDE DEF e
    <3>5. e \in Worked2' /\ e \in Met
      <4>1. /\ \A i \in DOMAIN NextStates(e.sys) : ~(i < e.i)
            /\ \A t \in DOMAIN Transitions(e.prop) : ~(t < e.t)
        BY <2>3, <3>3, NestedImpliesTyped, NextStatesType, TransitionsDomain
      <4>2. e \in Worked2'
        BY <1>a, <1>w, <3>1, <3>3, <3>4, <4>1 DEF Worked2
      <4>3. e \in Met
        BY <1>t, <2>1, <2>3, <3>3 DEF Met
      <4> QED
        BY <4>2, <4>3
    <3>6. <<f, e>> \in Calls2'
      BY <1>a, <1>w, <2>2, <3>1, <3>3, <3>4 DEF Calls2
    <3>7. Chain(dfs2', Worked2', Good2', Calls2')
      <4>1. Chain(dfs2, Worked2', Good2', Calls2')
        BY <1>t, <1>w, <2>1, ChainWider
      <4>2. dfs2 # <<>>
        BY <1>t, <2>1
      <4> HIDE DEF f
      <4> QED
        BY <2>6, <3>5, <3>6, <4>1, <4>2, ChainAppend DEF f
    <3>8. dfs2' \in Seq(Met') /\ dfs2' # <<>>
      <4>1. dfs2 \in Seq(Met') /\ e \in Met'
        BY <1>e, <1>t, <2>1, <3>5
      <4> HIDE DEF f
      <4> QED
        BY <2>6, <4>1, AppendProperties
    <3>9. OnlyRootOnStack'
      BY <1>a, <1>t, <2>1, <2>6, <3>8 DEF OnlyRootOnStack, SecondSearch
    <3>10. VisitedIsOpenOrDead'
      <4>1. VisitedBy(Append(dfs2, e)) = VisitedBy(dfs2) \cup {pair}
        BY <1>t, <2>1, <3>4, <3>5, VisitedAppend
      <4>2. VisitedBy(dfs2)' = VisitedBy(dfs2) \cup {pair}
        BY <2>6, <4>1 DEF VisitedBy, Visited
      <4> QED
        BY <1>a, <1>m, <1>t, <2>1, <2>6, <4>2 DEF VisitedIsOpenOrDead, SecondSearch
    <3>11. dfs2Seen' \subseteq dfs1Seen' /\ Left' = Left
      BY <2>1, <2>6, <3>2 DEF SecondSearch, Left
    <3> QED
      BY <1>q, <3>7, <3>8, <3>9, <3>10, <3>11 DEF SecondSearch
  <2>7. CASE /\ ~Satisfies(n, Transitions(f.prop)[f.t].guard) \/ pair \in dfs2Seen \ onDfs1Stack
             /\ dfs2' = SetTop(dfs2, h) /\ UNCHANGED <<phase, dfs2Seen>>
    <3>1. /\ h \in Frames2 /\ h.sys = f.sys /\ h.prop = f.prop /\ h.i = f.i /\ h.t = f.t + 1
      BY <2>2 DEF Frames2
    <3> HIDE DEF h
    <3>2. h \in Good2 /\ Next2(h) = Next2(f)
      BY <2>2, <3>1 DEF Good2, Next2
    <3>3. Chosen(Next2(f), f.prop, f.t) \subseteq Dead
      BY <2>4, <2>7 DEF Chosen, Target2, Dead
    <3>4. \A t \in DOMAIN Transitions(f.prop) : t < f.t + 1 => t < f.t \/ t = f.t
      BY <1>t, <2>1, WorkedFrame2
    <3>5. \A t \in DOMAIN Transitions(h.prop) :
            t < h.t => Chosen(Next2(h), h.prop, t) \subseteq Dead
      BY <2>2, <3>1, <3>2, <3>3, <3>4 DEF Worked2
    <3>6. h \in Worked2
      BY <2>2, <3>1, <3>2, <3>5 DEF Worked2, Visited
    <3>7. h \in Met
      BY <2>2, <3>1, <3>2 DEF Met
    <3> QED
      BY <1>u, <2>1, <2>7, <3>1, <3>6, <3>7
  <2> QED
    BY <1>5, <2>5, <2>6, <2>7 DEF Dfs2Edge
<1>6. CASE Dfs2EdgesDone
  <2> DEFINE f == Top(dfs2)
             g == [f EXCEPT !.t = 0, !.i = @ + 1]
  <2>1. /\ Searching2 /\ f.t # 0 /\ f.t \notin DOMAIN Transitions(f.prop)
        /\ dfs2' = SetTop(dfs2, g)
        /\ UNCHANGED <<phase, dfs1, dfs1Seen, onDfs1Stack, dfs2Seen>>
    BY <1>6 DEF Dfs2EdgesDone
  <2>2. f \in Worked2 /\ f \in Met /\ f \in Good2 /\ f \in Frames2 /\ f.i \in Nat \ {0} /\ f.t \in Nat
    BY <1>t, <2>1, WorkedFrame2
  <2>3. g \in Frames2 /\ g.t = 0
    BY <2>2, NextSuccessor2
  <2>4. g.sys = f.sys /\ g.prop = f.prop /\ g.i = f.i + 1
    BY <2>2 DEF Frames2
  <2> HIDE DEF g
  <2>5. Through(f.sys, f.prop, f.i) \subseteq Dead
    <3>1. \A t \in DOMAIN Transitions(f.prop) : t < f.t
      BY <2>1, <2>2, WorkedFrame2
    <3>2. \A t \in DOMAIN Transitions(f.prop) : Chosen(Next2(f), f.prop, t) \subseteq Dead
      BY <2>2, <3>1 DEF Worked2
    <3>3. {Next2(f)} \X Moves(aut, f.prop, sys.label[Next2(f)]) \subseteq Dead
      BY <3>2, AllMoves
    <3> QED
      BY <3>3 DEF Through, Next2
  <2>6. \A i \in DOMAIN NextStates(f.sys) : i < f.i + 1 => i < f.i \/ i = f.i
    BY <2>2, WorkedFrame2
  <2>7. \A i \in DOMAIN NextStates(g.sys) : i < g.i => Through(g.sys, g.prop, i) \subseteq Dead
    BY <2>2, <2>4, <2>5, <2>6 DEF Worked2
  <2>8. \A t \in DOMAIN Transitions(g.prop) : ~(t < g.t)
    BY <2>2, <2>3, <2>4, WorkedFrame2
  <2>9. g \in Good2
    BY <2>3 DEF Good2
  <2>10. g \in Worked2 /\ g \in Met
    BY <2>2, <2>3, <2>4, <2>7, <2>8, <2>9 DEF Worked2, Met, Visited
  <2> QED
    BY <1>u, <2>1, <2>4, <2>10
<1>7. CASE Dfs2Return
  <2> DEFINE f == Top(dfs2)
             rest == Pop(dfs2)
             c == Top(rest)
             g == [c EXCEPT !.t = @ + 1]
  <2>1. /\ Searching2 /\ f.t = 0 /\ f.i \notin DOMAIN NextStates(f.sys)
        /\ UNCHANGED <<phase, allocated, dfs1Seen, dfs2Seen>>
        /\ \/ rest = <<>> /\ dfs2' = rest /\ LeavePair(Top(dfs1))
           \/ rest # <<>> /\ dfs2' = SetTop(rest, g) /\ UNCHANGED <<dfs1, onDfs1Stack>>
    BY <1>7 DEF Dfs2Return
  <2>2. /\ dfs2 # <<>> /\ f \in Worked2 /\ f \in Good2 /\ dfs2 \in Seq(Met)
        /\ Chain(dfs2, Worked2, Good2, Calls2) /\ phase = "search"
    BY <1>t, <2>1, WorkedFrame2
  <2>3. Successors1(Visited(f)) \subseteq Dead
    BY <2>1, <2>2, DeadSuccessors
  <2>4. VisitedBy(dfs2) \subseteq VisitedBy(rest) \cup {Visited(f)}
    BY <2>2, VisitedPop
  <2>5. \A x \in dfs2Seen : x \in VisitedBy(rest) \/ Successors1(x) \subseteq Dead
    BY <2>2, <2>3, <2>4 DEF SecondSearch, VisitedIsOpenOrDead
  <2>6. CASE rest = <<>> /\ dfs2' = rest /\ LeavePair(Top(dfs1))
    <3> DEFINE root == Pair(Top(dfs1))
    <3>1. Visited(f) = root
      <4>1. f \in Roots2
        BY <2>2, <2>6, ChainCaller DEF StacksRun, Run2
      <4> QED
        BY <4>1 DEF Roots2, Visited
    <3>2. onDfs1Stack' = onDfs1Stack \ {root}
      BY <2>6 DEF LeavePair
    <3>3. \A x \in dfs2Seen : Successors1(x) \subseteq Dead
      <4>1. VisitedBy(rest) = {}
        BY <2>6 DEF VisitedBy
      <4> QED
        BY <2>5, <4>1
    <3>4. root \in onDfs1Stack
      <4>1. dfs1 # <<>> /\ Top(dfs1).at = "nested"
        BY <2>2 DEF Nested
      <4>2. Top(dfs1) = dfs1[Len(dfs1)] /\ Len(dfs1) \in DOMAIN dfs1
        BY <4>1, TopLemma DEF Nested, Calls
      <4>3. root \in Dfs1Pairs
        BY <4>1, <4>2 DEF Dfs1Pairs, Explored
      <4> QED
        BY <2>2, <4>3 DEF StackMarksExact
    <3>5. OnNoCycle(root)
      <4>1. Dead \in SUBSET Pairs /\ root \notin Dead /\ Dead \subseteq dfs2Seen
        BY <3>4 DEF Dead, Nested
      <4>2. Successors1(root) \subseteq Dead
        BY <2>3, <3>1
      <4> HIDE DEF root
      <4> QED
        BY <3>3, <4>1, <4>2 DEF OnNoCycle
    <3> HIDE DEF root
    <3>6. \A x \in Left' : x \in Left \/ OnNoCycle(x)
      BY <2>1, <3>2, <3>5 DEF Left
    <3>7. Chain(dfs2', Worked2', Good2', Calls2') /\ dfs2' \in Seq(Met')
      BY <2>6, ChainEmpty
    <3>8. OnlyRootOnStack'
      BY <2>1, <2>2, <3>2 DEF OnlyRootOnStack, SecondSearch, root
    <3>9. VisitedIsOpenOrDead'
      BY <1>a, <1>m, <2>1, <3>3 DEF VisitedIsOpenOrDead
    <3> QED
      BY <1>q, <2>1, <3>6, <3>7, <3>8, <3>9 DEF SecondSearch
  <2>7. CASE rest # <<>> /\ dfs2' = SetTop(rest, g) /\ UNCHANGED <<dfs1, onDfs1Stack>>
    <3>1. c \in Worked2 /\ <<c, f>> \in Calls2
      BY <2>2, <2>7, ChainCaller
    <3>2. Chain(rest, Worked2, Good2, Calls2) /\ rest \in Seq(Met)
      BY <2>2, ChainPop, PopLemma
    <3>3. c \in Met /\ c \in Busy
      <4>1. c \in Busy
        BY <2>2, <2>7, CallsPop DEF Nested
      <4> HIDE DEF rest
      <4> QED
        BY <2>7, <3>2, <4>1, TopLemma
    <3>4. c \in Good2 /\ c \in Frames2 /\ c.t \in Nat /\ c.t # 0
      BY <3>1, <3>3, WorkedFrame2 DEF Busy
    <3>5. g \in Frames2 /\ g.sys = c.sys /\ g.prop = c.prop /\ g.i = c.i /\ g.t = c.t + 1
      BY <3>4 DEF Frames2
    <3>6. f.sys = Next2(c) /\ f.prop = Target2(c) /\ Visited(f) \in Dead
      BY <3>1 DEF Calls2
    <3> HIDE DEF g, c, f
    <3>7. g \in Good2 /\ Next2(g) = Next2(c)
      BY <3>4, <3>5 DEF Good2, Next2
    <3>8. Chosen(Next2(c), c.prop, c.t) \subseteq Dead
      BY <3>6 DEF Chosen, Visited, Target2
    <3>9. \A t \in DOMAIN Transitions(c.prop) : t < c.t + 1 => t < c.t \/ t = c.t
      BY <3>1, <3>4, WorkedFrame2
    <3>10. \A t \in DOMAIN Transitions(g.prop) :
             t < g.t => Chosen(Next2(g), g.prop, t) \subseteq Dead
      BY <3>1, <3>5, <3>7, <3>8, <3>9 DEF Worked2
    <3>11. g \in Worked2
      BY <3>1, <3>5, <3>7, <3>10 DEF Worked2, Visited
    <3>12. g \in Met
      BY <3>3, <3>4, <3>5, <3>7 DEF Met
    <3> HIDE DEF rest
    <3>13. Chain(dfs2', Worked2', Good2', Calls2')
      <4>1. g \in Worked2' /\ g.sys = Top(rest).sys /\ g.prop = Top(rest).prop
        BY <1>w, <3>5, <3>11 DEF c
      <4> QED
        BY <1>r, <2>7, <3>2, <4>1
    <3>14. dfs2' \in Seq(Met') /\ dfs2' # <<>>
      <4>1. rest \in Seq(Met') /\ g \in Met'
        BY <1>e, <3>2, <3>12
      <4> QED
        BY <2>7, <4>1, SetTopLemma
    <3>15. OnlyRootOnStack'
      BY <1>a, <2>1, <2>2, <2>7, <3>14 DEF OnlyRootOnStack, SecondSearch
    <3>16. VisitedIsOpenOrDead'
      <4>1. VisitedBy(SetTop(rest, g)) = VisitedBy(rest)
        BY <2>7, <3>2, <3>5, <3>12, VisitedSetTop DEF Visited, c
      <4>2. VisitedBy(dfs2)' = VisitedBy(rest)
        BY <2>7, <4>1 DEF VisitedBy, Visited
      <4> QED
        BY <1>a, <1>m, <2>1, <2>5, <4>2 DEF VisitedIsOpenOrDead
    <3>17. dfs2Seen' \subseteq dfs1Seen' /\ Left' = Left
      BY <2>1, <2>7 DEF SecondSearch, Left
    <3> QED
      BY <1>q, <3>13, <3>14, <3>15, <3>16, <3>17 DEF SecondSearch
  <2> QED
    BY <2>1, <2>6, <2>7
<1>8. CASE Unwind2 \/ Unwind1 \/ Found
  <2>1. /\ phase' # "search" /\ UNCHANGED <<dfs1Seen, dfs2Seen, onDfs1Stack>>
        /\ (dfs2 # <<>> /\ dfs2' = Pop(dfs2)) \/ dfs2' = dfs2
    BY <1>8 DEF Unwind2, Unwind1, Found
  <2>2. dfs2' \in Seq(Met)
    BY <2>1, PopLemma DEF SecondSearch
  <2>3. dfs2' \in Seq(Met')
    BY <1>e, <2>2
  <2> QED
    BY <1>q, <2>1, <2>3 DEF SecondSearch, Left
<1>9. CASE UNCHANGED vars
  <2>1. Met' = Met /\ Worked2' = Worked2 /\ Calls2' = Calls2 /\ VisitedBy(dfs2)' = VisitedBy(dfs2)
    <3>1. Dead' = Dead
      BY <1>9 DEF Dead, vars
    <3> QED
      BY <1>a, <1>w, <1>9, <3>1 DEF Met, Worked2, Calls2, VisitedBy, vars
  <2>2. OnlyRootOnStack' = OnlyRootOnStack /\ VisitedIsOpenOrDead' = VisitedIsOpenOrDead
    BY <1>a, <1>9, <2>1 DEF OnlyRootOnStack, VisitedIsOpenOrDead, Dead, vars
  <2> QED
    BY <1>q, <1>w, <1>9, <2>1, <2>2 DEF SecondSearch, Left, vars
<1> QED
  BY <1>1, <1>2, <1>3, <1>4, <1>5, <1>6, <1>7, <1>8, <1>9
     DEF Next, Search1, Search2, Answer, Done

----------------------------------------------------------------------------
(* All of it, inductive.                                                   *)
SearchInvariant ==
  Nested /\ CachesOK /\ StacksRun /\ StackMarksExact /\ FirstSearch /\ SecondSearch

LEMMA SearchInvariantStep == SearchInvariant /\ [Next]_vars => SearchInvariant'
<1> SUFFICES ASSUME SearchInvariant, [Next]_vars PROVE SearchInvariant'
  OBVIOUS
<1>1. Nested' /\ CachesOK' /\ StacksRun' /\ StackMarksExact'
  BY NestedStep, CachesStep, StacksRunStep, MarksStep DEF SearchInvariant
<1>2. FirstSearch' /\ SecondSearch'
  BY FirstSearchStep, SecondSearchStep DEF SearchInvariant
<1> QED
  BY <1>1, <1>2 DEF SearchInvariant

LEMMA SearchInvariantHolds == Spec => []SearchInvariant
<1>1. Init => SearchInvariant
  <2>1. Init => Nested /\ FirstSearch /\ SecondSearch
    BY NestedInit, FirstSearchInit, SecondSearchInit
  <2>2. Init => CachesOK /\ StacksRun /\ StackMarksExact
    BY ChainEmpty DEF Init, CachesOK, PropositionCacheFaithful, StacksRun, Run1, Run2,
       StackMarksExact, Dfs1Pairs
  <2> QED
    BY <2>1, <2>2 DEF SearchInvariant
<1> QED
  BY <1>1, SearchInvariantStep, PTL DEF Spec

(* The Assert of dfs2SystemTransitions never fires: whatever the system    *)
(* and the automaton, the second search never comes to a system state that *)
(* the first one has not allocated.                                        *)
THEOREM SecondSearchMeetsAllocated == Spec => []Dfs2MeetsAllocatedStates
<1>1. SearchInvariant => Dfs2MeetsAllocatedStates
  <2> SUFFICES ASSUME SearchInvariant, NEW k \in DOMAIN dfs2
               PROVE  dfs2[k].sys \in allocated /\ (dfs2[k].t # 0 => Next2(dfs2[k]) \in allocated)
    BY DEF Dfs2MeetsAllocatedStates
  <2>1. dfs2[k] \in Met
    BY DEF SearchInvariant, SecondSearch
  <2> QED
    BY <2>1 DEF Met
<1> QED
  BY <1>1, SearchInvariantHolds, PTL

(* The post-order argument of the nested search: between two second        *)
(* searches, what they have visited is closed under the edges of the       *)
(* product and disjoint from the first stack.                              *)
THEOREM SeenIsDead == Spec => []Dfs2SeenIsDead
<1>1. SearchInvariant => Dfs2SeenIsDead
  <2> SUFFICES ASSUME SearchInvariant, phase = "search", dfs2 = <<>>
               PROVE  /\ \A x \in dfs2Seen : ProductSuccessors(sys, aut, x) \subseteq dfs2Seen
                      /\ dfs2Seen \cap onDfs1Stack = {}
    BY DEF Dfs2SeenIsDead
  <2>1. OnlyRootOnStack /\ VisitedIsOpenOrDead /\ VisitedBy(dfs2) = {}
    BY DEF SearchInvariant, SecondSearch, VisitedBy
  <2> QED
    BY <2>1 DEF OnlyRootOnStack, VisitedIsOpenOrDead, Dead, Successors1
<1> QED
  BY <1>1, SearchInvariantHolds, PTL

----------------------------------------------------------------------------
(* What can be reached in a finite graph.                                  *)
Closed(edges, T) == \A x \in T : edges[x] \subseteq T
More(edges, seen) == seen \cup UNION {edges[x] : x \in seen}
(* The least closed set that contains another one.                         *)
Least(edges, N, from) ==
  {x \in N : \A T \in SUBSET N : from \subseteq T /\ Closed(edges, T) => x \in T}
(* closure is one of the functions that solve its recursive definition.    *)
Solves(c, edges, N) ==
  c = [seen \in SUBSET N |-> IF More(edges, seen) = seen THEN seen ELSE c[More(edges, seen)]]

LEMMA MoreLemma ==
  ASSUME NEW N, NEW edges \in [N -> SUBSET N], NEW s \in SUBSET N
  PROVE  /\ More(edges, s) \in SUBSET N /\ s \subseteq More(edges, s)
         /\ More(edges, s) = s <=> Closed(edges, s)
         /\ \A T : s \subseteq T /\ Closed(edges, T) => More(edges, s) \subseteq T
BY DEF More, Closed

LEMMA LeastSolves ==
  ASSUME NEW N, NEW edges \in [N -> SUBSET N]
  PROVE  Solves([seen \in SUBSET N |-> Least(edges, N, seen)], edges, N)
<1> DEFINE g == [seen \in SUBSET N |-> Least(edges, N, seen)]
<1>1. ASSUME NEW s \in SUBSET N
      PROVE  g[s] = IF More(edges, s) = s THEN s ELSE g[More(edges, s)]
  <2>1. More(edges, s) \in SUBSET N
    BY MoreLemma
  <2>2. g[s] = Least(edges, N, s) /\ g[More(edges, s)] = Least(edges, N, More(edges, s))
    BY <2>1
  <2>3. CASE More(edges, s) = s
    BY <2>2, <2>3, MoreLemma DEF Least
  <2>4. CASE More(edges, s) # s
    <3>1. \A T \in SUBSET N :
            s \subseteq T /\ Closed(edges, T) <=> More(edges, s) \subseteq T /\ Closed(edges, T)
      BY MoreLemma
    <3> QED
      BY <2>2, <2>4, <3>1 DEF Least
  <2> QED
    BY <2>3, <2>4
<1> QED
  BY <1>1 DEF Solves

LEMMA SolutionIsLeast ==
  ASSUME NEW N, IsFiniteSet(N), NEW edges \in [N -> SUBSET N], NEW c, Solves(c, edges, N),
         NEW from \in SUBSET N
  PROVE  c[from] = Least(edges, N, from)
<1> DEFINE Bad == {s \in SUBSET N : c[s] # Least(edges, N, s)}
           Rest == {N \ s : s \in Bad}
           R == StrictSubsetOrdering(N)
<1> SUFFICES ASSUME Bad # {} PROVE FALSE
  OBVIOUS
<1>1. IsWellFoundedOn(R, SUBSET N)
  BY FS_StrictSubsetOrderingWellFounded, FS_FiniteSubsetsOfFinite
<1>2. Rest \subseteq SUBSET N /\ Rest # {}
  OBVIOUS
<1>3. PICK m \in Rest : \A y \in Rest : <<y, m>> \notin R
  <2> HIDE DEF Rest, R
  <2> QED
    BY <1>1, <1>2, WFMin
<1>4. PICK s \in Bad : m = N \ s
  OBVIOUS
<1> DEFINE t == More(edges, s)
<1>5. t \in SUBSET N /\ s \subseteq t
  BY <1>4, MoreLemma
<1>6. c[s] = IF t = s THEN s ELSE c[t]
  BY <1>4 DEF Solves
<1>7. Least(edges, N, s) = IF t = s THEN s ELSE Least(edges, N, t)
  <2>1. [seen \in SUBSET N |-> Least(edges, N, seen)][s] = Least(edges, N, s)
        /\ [seen \in SUBSET N |-> Least(edges, N, seen)][t] = Least(edges, N, t)
    BY <1>4, <1>5
  <2>2. Solves([seen \in SUBSET N |-> Least(edges, N, seen)], edges, N)
    BY LeastSolves
  <2> DEFINE g == [seen \in SUBSET N |-> Least(edges, N, seen)]
  <2> HIDE DEF g
  <2>3. g[s] = IF t = s THEN s ELSE g[t]
    BY <1>4, <2>2 DEF Solves, g
  <2> QED
    BY <2>1, <2>3 DEF g
<1>8. t # s /\ t \in Bad
  BY <1>4, <1>5, <1>6, <1>7
<1>9. N \ t \in Rest /\ <<N \ t, m>> \in R
  <2>1. N \ t \in Rest
    BY <1>8
  <2>2. N \ t \subseteq m /\ N \ t # m
    BY <1>4, <1>5, <1>8
  <2> QED
    BY <1>4, <1>5, <2>1, <2>2 DEF StrictSubsetOrdering
<1> QED
  BY <1>3, <1>9

LEMMA ReachIsLeast ==
  ASSUME NEW N, IsFiniteSet(N), NEW edges \in [N -> SUBSET N], NEW from \in SUBSET N
  PROVE  Reach(edges, from) = Least(edges, N, from)
<1> DEFINE c == CHOOSE f : Solves(f, edges, N)
<1>1. Solves(c, edges, N)
  BY LeastSolves
<1>2. Reach(edges, from) = c[from]
  <2>1. DOMAIN edges = N
    OBVIOUS
  <2> QED
    BY <2>1 DEF Reach, Solves, More
<1> HIDE DEF c
<1> QED
  BY <1>1, <1>2, SolutionIsLeast

LEMMA ReachLemma ==
  ASSUME NEW N, IsFiniteSet(N), NEW edges \in [N -> SUBSET N], NEW from \in SUBSET N
  PROVE  /\ Reach(edges, from) \subseteq N
         /\ from \subseteq Reach(edges, from)
         /\ Closed(edges, Reach(edges, from))
         /\ \A T \in SUBSET N : from \subseteq T /\ Closed(edges, T) => Reach(edges, from) \subseteq T
BY ReachIsLeast DEF Least, Closed

----------------------------------------------------------------------------
(* The product as a finite graph.                                          *)
LEMMA ProductGraph ==
  ASSUME Nested
  PROVE  /\ IsFiniteSet(Pairs)
         /\ ProductEdges(sys, aut) \in [Pairs -> SUBSET Pairs]
         /\ \A x \in Pairs : ProductEdges(sys, aut)[x] = Successors1(x)
         /\ ProductInit(sys, aut) \in SUBSET Pairs
<1>0. sys \in Systems /\ aut \in Automata /\ TypeOK
  BY NestedImpliesTyped DEF Nested
<1>1. IsFiniteSet(Pairs)
  BY <1>0, FinitenessAssumption, FS_Product DEF Pairs
<1>2. \A s \in sys.states : SuccessorSet(sys, s) \subseteq sys.states
  <2> SUFFICES ASSUME NEW s \in sys.states PROVE SuccessorSet(sys, s) \subseteq sys.states
    OBVIOUS
  <2>1. NextStates(s) \in Seq(sys.states)
    BY <1>0, NextStatesType
  <2>2. SuccessorSet(sys, s) = {NextStates(s)[i] : i \in DOMAIN NextStates(s)}
    BY DEF SuccessorSet, Successors, NextStates
  <2> QED
    BY <2>1, <2>2
<1>3. \A q \in aut.states : \A props : Moves(aut, q, props) \subseteq aut.states
  BY <1>0, AutomataAssumption DEF Moves
<1>4. \A x \in Pairs : Successors1(x) \subseteq Pairs
  BY <1>2, <1>3 DEF Successors1, ProductSuccessors, Pairs
<1>5. ProductEdges(sys, aut) = [x \in Pairs |-> Successors1(x)]
  BY DEF ProductEdges, Pairs, Successors1
<1>6. ProductInit(sys, aut) \subseteq Pairs
  <2>1. \A k \in DOMAIN aut.init : aut.init[k] \in aut.states
    BY <1>0, AutomataAssumption
  <2>2. 0 \in sys.states
    BY <1>0, SystemsAssumption
  <2> QED
    BY <1>3, <2>1, <2>2 DEF ProductInit, FirstMoves, Pairs
<1> QED
  BY <1>1, <1>4, <1>5, <1>6

(* When the first search has been through everything that can be reached,  *)
(* no accepting pair lies on a cycle.                                      *)
LEMMA NothingMissed ==
  ASSUME Nested, FirstSearch, SecondSearch, onDfs1Stack = {},
         ProductInit(sys, aut) \subseteq dfs1Seen
  PROVE  ~HasAcceptingCycle(sys, aut)
<1> DEFINE edges == ProductEdges(sys, aut)
           from == ProductInit(sys, aut)
<1>1. /\ IsFiniteSet(Pairs) /\ edges \in [Pairs -> SUBSET Pairs] /\ from \in SUBSET Pairs
      /\ \A x \in Pairs : edges[x] = Successors1(x)
  BY ProductGraph
<1>2. dfs1Seen \in SUBSET Pairs /\ Left = dfs1Seen
  BY DEF Nested, Left
<1>3. HasAcceptingCycle(sys, aut)
        <=> \E x \in (sys.states \X aut.acc) \cap Reach(edges, from) : x \in Reach(edges, edges[x])
  BY DEF HasAcceptingCycle, ReachesGoodCycle
<1> HIDE DEF edges, from
<1>4. Closed(edges, dfs1Seen)
  BY <1>1, <1>2 DEF FirstSearch, LeftExplored, Closed
<1>5. Reach(edges, from) \subseteq dfs1Seen
  BY <1>1, <1>2, <1>4, ReachLemma DEF from
<1> SUFFICES ASSUME NEW x \in Reach(edges, from), x[2] \in aut.acc, x \in Reach(edges, edges[x])
             PROVE  FALSE
  BY <1>3
<1>6. x \in Left /\ x \in Pairs
  BY <1>2, <1>5
<1>7. PICK T \in SUBSET Pairs :
        Successors1(x) \subseteq T /\ x \notin T /\ \A y \in T : Successors1(y) \subseteq T
  BY <1>6 DEF SecondSearch, OnNoCycle
<1>8. edges[x] \subseteq T /\ Closed(edges, T) /\ edges[x] \in SUBSET Pairs
  BY <1>1, <1>6, <1>7 DEF Closed
<1> QED
  BY <1>1, <1>7, <1>8, ReachLemma

----------------------------------------------------------------------------
(* The way back.  A walk goes through the product and arrives at x; its    *)
(* system states are what has been put in the path or in the cycle.        *)
Walk(w, x) ==
  /\ w \in Seq(Pairs) /\ x \in Pairs
  /\ \A k \in 1 .. Len(w) - 1 : w[k + 1] \in Successors1(w[k])
  /\ w # <<>> => x \in Successors1(w[Len(w)])
Start(w, x) == IF w = <<>> THEN x ELSE w[1]
Spells(w, states) == Len(states) = Len(w) /\ \A k \in 1 .. Len(w) : states[k] = w[k][1]
Accepting(w) == \E k \in 1 .. Len(w) : w[k][2] \in aut.acc

(* The activations that are left to return lead to x.                      *)
Continues(x) ==
  IF dfs2 # <<>> THEN x \in Successors1(Visited(Top(dfs2)))
  ELSE IF dfs1 # <<>> THEN x \in Successors1(Pair(Top(dfs1)))
  ELSE x \in ProductInit(sys, aut)

(* While the cycle is collected, and once it is closed.                    *)
Collecting ==
  /\ phase = "unwind" /\ cycleState \in PairsOf(dfs1) /\ dfs1 # <<>> /\ cycle = <<>>
  /\ \E w : /\ Walk(w, cycleState) /\ Spells(w, path) /\ Continues(Start(w, cycleState))
            /\ Target(Top(dfs1)) \in aut.acc \/ Accepting(w)
Closed1 ==
  /\ cycleState \notin PairsOf(dfs1) /\ dfs2 = <<>>
  /\ \E w, v : /\ Walk(w, cycleState) /\ Spells(w, path) /\ Continues(Start(w, cycleState))
               /\ Walk(v, cycleState) /\ Spells(v, cycle)
               /\ v # <<>> /\ v[1] = cycleState /\ Accepting(v)

WayBack ==
  /\ phase = "search" => path = <<>> /\ cycle = <<>>
  /\ phase = "unwind" /\ dfs1 # <<>> => Explored(Top(dfs1))
  /\ phase \in {"unwind", "found"} => Collecting \/ Closed1

LEMMA WalkLonger ==
  ASSUME NEW w, NEW x, Walk(w, x), NEW p \in Pairs, Start(w, x) \in Successors1(p)
  PROVE  LET longer == <<p>> \o w
         IN  /\ Walk(longer, x) /\ longer # <<>> /\ Start(longer, x) = p /\ longer[1] = p
             /\ Accepting(longer) <=> p[2] \in aut.acc \/ Accepting(w)
             /\ \A states \in Seq(sys.states) : Spells(w, states) => Spells(longer, <<p[1]>> \o states)
<1> DEFINE longer == <<p>> \o w
           n == Len(w)
<1>1. /\ w \in Seq(Pairs) /\ x \in Pairs /\ n \in Nat
      /\ \A k \in 1 .. n - 1 : w[k + 1] \in Successors1(w[k])
      /\ w # <<>> => x \in Successors1(w[n])
  BY DEF Walk
<1>2. /\ longer \in Seq(Pairs) /\ Len(longer) = n + 1 /\ longer[1] = p
      /\ \A k \in 1 .. n : longer[k + 1] = w[k]
  <2>1. <<p>> \in Seq(Pairs) /\ Len(<<p>>) = 1 /\ <<p>>[1] = p
    BY SingletonLemma
  <2> HIDE DEF n
  <2>2. n = Len(w) /\ w \in Seq(Pairs)
    BY <1>1 DEF n
  <2> DEFINE one == <<p>>
  <2>3. one \in Seq(Pairs) /\ Len(one) = 1 /\ one[1] = p
    BY <2>1
  <2> HIDE DEF one
  <2>c. /\ one \o w \in Seq(Pairs) /\ Len(one \o w) = Len(one) + Len(w)
        /\ \A i \in 1 .. Len(one) + Len(w) :
             (one \o w)[i] = IF i <= Len(one) THEN one[i] ELSE w[i - Len(one)]
    BY <2>2, <2>3, ConcatProperties
  <2>4. /\ one \o w \in Seq(Pairs) /\ Len(one \o w) = 1 + n
        /\ \A i \in 1 .. 1 + n : (one \o w)[i] = IF i <= 1 THEN one[i] ELSE w[i - 1]
    BY <2>2, <2>3, <2>c
  <2>5. (one \o w)[1] = p /\ \A k \in 1 .. n : (one \o w)[k + 1] = w[k]
    BY <1>1, <2>2, <2>3, <2>4
  <2> QED
    BY <1>1, <2>2, <2>4, <2>5 DEF one
<1>3. w = <<>> <=> n = 0
  BY <1>1
<1> HIDE DEF longer, n
<1>4. \A k \in 1 .. n + 1 : k = 1 \/ (k - 1 \in 1 .. n /\ (k - 1) + 1 = k)
  BY <1>1
<1>5. longer # <<>> /\ Start(longer, x) = p
  BY <1>1, <1>2 DEF Start
<1>6. ASSUME NEW k \in 1 .. Len(longer) - 1 PROVE longer[k + 1] \in Successors1(longer[k])
  <2>1. k \in 1 .. n /\ longer[k + 1] = w[k]
    BY <1>1, <1>2
  <2>2. CASE k = 1
    BY <1>1, <1>2, <1>3, <2>1, <2>2 DEF Start
  <2>3. CASE k # 1
    <3>1. k - 1 \in 1 .. n - 1 /\ k - 1 \in 1 .. n /\ (k - 1) + 1 = k
      BY <1>1, <2>1, <2>3
    <3>2. w[(k - 1) + 1] \in Successors1(w[k - 1]) /\ longer[(k - 1) + 1] = w[k - 1]
      BY <1>1, <1>2, <3>1
    <3> QED
      BY <2>1, <3>1, <3>2
  <2> QED
    BY <2>2, <2>3
<1>7. x \in Successors1(longer[Len(longer)])
  <2>1. CASE n = 0
    BY <1>1, <1>2, <1>3, <2>1 DEF Start
  <2>2. CASE n # 0
    BY <1>1, <1>2, <1>3, <2>2
  <2> QED
    BY <2>1, <2>2
<1>8. Walk(longer, x)
  BY <1>1, <1>2, <1>6, <1>7 DEF Walk
<1>9. Accepting(longer) <=> p[2] \in aut.acc \/ Accepting(w)
  <2>1. ASSUME Accepting(longer) PROVE p[2] \in aut.acc \/ Accepting(w)
    <3>1. PICK k \in 1 .. n + 1 : longer[k][2] \in aut.acc
      BY <1>2, <2>1 DEF Accepting
    <3> QED
      BY <1>2, <1>4, <3>1 DEF Accepting, n
  <2>2. ASSUME p[2] \in aut.acc PROVE Accepting(longer)
    BY <1>1, <1>2, <2>2 DEF Accepting
  <2>3. ASSUME Accepting(w) PROVE Accepting(longer)
    <3>1. PICK k \in 1 .. n : w[k][2] \in aut.acc
      BY <2>3 DEF Accepting, n
    <3>2. k + 1 \in 1 .. Len(longer)
      BY <1>1, <1>2
    <3> QED
      BY <1>2, <3>1, <3>2 DEF Accepting
  <2> QED
    BY <2>1, <2>2, <2>3
<1>10. ASSUME NEW states \in Seq(sys.states), Spells(w, states)
       PROVE  Spells(longer, <<p[1]>> \o states)
  <2> DEFINE one == <<p[1]>>
             all == one \o states
  <2>1. p[1] \in sys.states
    BY DEF Pairs
  <2>2. one \in Seq(sys.states) /\ Len(one) = 1 /\ one[1] = p[1]
    BY <2>1, SingletonLemma
  <2> HIDE DEF one
  <2>c. /\ Len(all) = Len(one) + Len(states)
        /\ \A i \in 1 .. Len(one) + Len(states) :
             all[i] = IF i <= Len(one) THEN one[i] ELSE states[i - Len(one)]
    BY <2>2, ConcatProperties
  <2>3. /\ Len(all) = 1 + Len(states)
        /\ \A i \in 1 .. 1 + Len(states) : all[i] = IF i <= 1 THEN one[i] ELSE states[i - 1]
    BY <2>2, <2>c
  <2> HIDE DEF all
  <2>4. Len(states) = n /\ \A k \in 1 .. n : states[k] = w[k][1]
    BY <1>10 DEF Spells, n
  <2>5. ASSUME NEW k \in 1 .. n + 1 PROVE all[k] = longer[k][1]
    <3>1. CASE k = 1
      BY <1>1, <1>2, <2>2, <2>3, <2>4, <3>1
    <3>2. CASE k # 1
      <4>1. k - 1 \in 1 .. n /\ (k - 1) + 1 = k /\ ~(k <= 1) /\ k \in 1 .. 1 + n
        BY <1>1, <3>2
      <4> QED
        BY <1>2, <2>3, <2>4, <4>1
    <3> QED
      BY <3>1, <3>2
  <2> QED
    BY <1>1, <1>2, <2>3, <2>4, <2>5 DEF Spells, all, one
<1> QED
  BY <1>2, <1>5, <1>8, <1>9, <1>10 DEF longer

LEMMA PairsPopExplored ==
  ASSUME NEW S, NEW st \in Seq(S), st # <<>>, Distinct(st), Explored(Top(st))
  PROVE  PairsOf(Pop(st)) = PairsOf(st) \ {Pair(Top(st))} /\ Pair(Top(st)) \in PairsOf(st)
<1> DEFINE new == Pop(st)
           n == Len(st)
<1>1. /\ n \in Nat \ {0} /\ DOMAIN st = 1 .. n /\ DOMAIN new = 1 .. n - 1 /\ Top(st) = st[n]
      /\ \A k \in 1 .. n - 1 : new[k] = st[k]
  BY TopLemma, PopLemma
<1> HIDE DEF new, n
<1>2. \A k \in 1 .. n : k = n \/ k \in 1 .. n - 1
  BY <1>1
<1>3. n \in 1 .. n /\ \A k \in 1 .. n - 1 : k \in 1 .. n /\ k # n
  BY <1>1
<1> QED
  BY <1>1, <1>2, <1>3 DEF PairsOf, Distinct, new

(* What the innermost activations lead to, from where they were called.    *)
LEMMA CalledPair1 ==
  ASSUME Nested, StacksRun, FirstSearch, dfs1 # <<>>, Explored(Top(dfs1))
  PROVE  /\ Pair(Top(dfs1)) \in Pairs
         /\ IF Pop(dfs1) = <<>> THEN Pair(Top(dfs1)) \in ProductInit(sys, aut)
            ELSE Pair(Top(dfs1)) \in Successors1(Pair(Top(Pop(dfs1))))
<1> DEFINE f == Top(dfs1)
           c == Top(Pop(dfs1))
<1>1. /\ f \in Activations1 /\ f \in Good1 /\ Pair(f) \in Pairs
      /\ Target(f) \in Moves(aut, f.from, sys.label[f.sys])
  <2>1. f \in Activations1
    BY ChainTop DEF StacksRun, Run1
  <2> QED
    BY <2>1, Top1Good DEF Activations1, Good1
<1>2. CASE Pop(dfs1) = <<>>
  <2>1. f \in First1
    BY <1>2, ChainCaller DEF FirstSearch
  <2>2. PICK k \in DOMAIN aut.init : f.from = aut.init[k] /\ f.sys = 0
    BY <2>1 DEF First1
  <2>3. Target(f) \in FirstMoves(aut, sys.label[0])
    BY <1>1, <2>2 DEF FirstMoves
  <2> QED
    BY <1>1, <1>2, <2>2, <2>3 DEF ProductInit, Pair
<1>3. CASE Pop(dfs1) # <<>>
  <2>1. <<c, f>> \in Links1
    BY <1>3, ChainCaller DEF StacksRun, Run1
  <2>2. f.sys \in SuccessorSet(sys, c.sys) /\ f.from = Target(c)
    BY <2>1 DEF Links1
  <2>3. Pair(c)[1] = c.sys /\ Pair(c)[2] = Target(c)
    BY DEF Pair
  <2>4. <<f.sys, Target(f)>> \in Successors1(Pair(c))
    BY <1>1, <2>2, <2>3 DEF Successors1, ProductSuccessors
  <2> QED
    BY <1>1, <1>3, <2>4 DEF Pair
<1> QED
  BY <1>1, <1>2, <1>3

LEMMA CalledPair2 ==
  ASSUME Nested, StacksRun, dfs2 # <<>>
  PROVE  /\ Visited(Top(dfs2)) \in Pairs
         /\ IF Pop(dfs2) = <<>> THEN dfs1 # <<>> /\ Visited(Top(dfs2)) = Pair(Top(dfs1))
            ELSE Visited(Top(dfs2)) \in Successors1(Visited(Top(Pop(dfs2))))
<1>1. Visited(Top(dfs2)) \in Pairs
  BY Top2Good DEF Good2, Frames2, Visited, Pairs
<1>2. IF Pop(dfs2) = <<>> THEN Top(dfs2) \in Roots2
      ELSE <<Top(Pop(dfs2)), Top(dfs2)>> \in Links2
  BY ChainCaller DEF StacksRun, Run2
<1>3. Top(dfs2) \in Roots2 => dfs1 # <<>> /\ Visited(Top(dfs2)) = Pair(Top(dfs1))
  BY DEF Roots2, Visited
<1>4. \A c : <<c, Top(dfs2)>> \in Links2 => Visited(Top(dfs2)) \in Successors1(Visited(c))
  BY DEF Links2, Visited, Successors1
<1> QED
  BY <1>1, <1>2, <1>3, <1>4

LEMMA WayBackInit == Init => WayBack
BY DEF Init, WayBack

LEMMA WayBackStep ==
  SearchInvariant /\ WayBack /\ [Next]_vars => WayBack'
<1> SUFFICES ASSUME SearchInvariant, WayBack, [Next]_vars PROVE WayBack'
  OBVIOUS
<1> USE DEF instance, caches, result
<1>0. /\ Nested /\ CachesOK /\ StacksRun /\ StackMarksExact /\ FirstSearch /\ SecondSearch
      /\ Nested' /\ TypeOK
  BY NestedStep, NestedImpliesTyped DEF SearchInvariant
<1>i. sys' = sys /\ aut' = aut
  BY InstanceFixed
<1>a. /\ Pairs' = Pairs /\ ProductInit(sys, aut)' = ProductInit(sys, aut)
      /\ \A x : Successors1(x)' = Successors1(x)
      /\ \A f : Target(f)' = Target(f) /\ Pair(f)' = Pair(f)
  BY <1>i DEF Pairs, Successors1, Target, Pair, Transitions
<1>w. /\ \A w, x : Walk(w, x)' <=> Walk(w, x)
      /\ \A w : Accepting(w)' <=> Accepting(w)
  BY <1>i, <1>a DEF Walk, Accepting
<1>v. UNCHANGED cycleState =>
        /\ \A w : Walk(w, cycleState)' <=> Walk(w, cycleState)
        /\ \A w : Start(w, cycleState)' = Start(w, cycleState)
  BY <1>a DEF Walk, Start
<1>d. dfs1 \in Seq(Good1) /\ Distinct(dfs1)
  BY <1>0 DEF Nested, Calls, StackMarksExact, Distinct
<1>1. CASE phase' = "search"
  <2>1. phase = "search" /\ UNCHANGED <<path, cycle>>
    BY <1>1 DEF Next, Search1, Search2, Answer, Done, vars, StartFromInitial, Dfs1Edge, Dfs1Succ,
       Dfs1SuccsDone, Dfs1Return, Dfs2Succ, Dfs2Edge, Dfs2EdgesDone, Dfs2Return, Unwind2, Unwind1,
       Found, NoCounterexample
  <2> QED
    BY <1>1, <2>1 DEF WayBack
<1>2. CASE Dfs2Edge /\ phase' # "search"
  <2> DEFINE f == Top(dfs2)
             n == Next2(f)
  <2>x. PICK x : x = <<n, Target2(f)>>
    OBVIOUS
  <2>1. /\ phase = "search" /\ phase' = "unwind" /\ dfs2 # <<>> /\ x \in onDfs1Stack
        /\ cycleState' = x /\ UNCHANGED <<dfs1, dfs2, path, cycle>>
        /\ f.t \in DOMAIN Transitions(f.prop)
        /\ Satisfies(n, Transitions(f.prop)[f.t].guard)
    BY <1>2, <2>x DEF Dfs2Edge, Searching2
  <2>2. f \in Good2 /\ f.sys \in sys.states /\ f.prop \in aut.states /\ f.t # 0
        /\ f.i \in DOMAIN NextStates(f.sys)
    BY <1>0, <2>1, Top2Good, AutomataAssumption DEF Good2, Frames2, Nested, Transitions
  <2>3. n \in sys.states /\ n \in SuccessorSet(sys, f.sys)
    BY <1>0, <2>1, <2>2, NextStatesType, NextIsSuccessor DEF Next2
  <2>4. Target2(f) \in Moves(aut, f.prop, sys.label[n])
    BY <1>0, <2>1, <2>2, <2>3, SatisfiedMoves DEF Target2
  <2>5. x \in Successors1(Visited(f))
    BY <2>x, <2>3, <2>4 DEF Successors1, ProductSuccessors, Visited
  <2>6. dfs1 # <<>> /\ Top(dfs1).at = "nested" /\ Top(dfs1) \in Worked1
    BY <1>0, <2>1, ChainTop DEF Nested, FirstSearch
  <2>7. Target(Top(dfs1)) \in aut.acc /\ Explored(Top(dfs1))
    BY <2>6 DEF Worked1, Explored
  <2>8. x \in PairsOf(dfs1) /\ x \in Pairs
    BY <1>0, <2>1 DEF StackMarksExact, Dfs1Pairs, PairsOf, Nested
  <2>9. Walk(<<>>, x) /\ Spells(<<>>, <<>>) /\ Start(<<>>, x) = x
    BY <2>8 DEF Walk, Spells, Start
  <2>10. path = <<>> /\ cycle = <<>>
    BY <2>1 DEF WayBack
  <2>11. Continues(x)'
    BY <1>a, <2>1, <2>5 DEF Continues, Visited
  <2>12. Collecting'
    <3>1. PairsOf(dfs1)' = PairsOf(dfs1)
      BY <1>a, <2>1 DEF PairsOf, Explored
    <3>2. /\ Walk(<<>>, cycleState)' /\ Spells(<<>>, path)' /\ Continues(Start(<<>>, cycleState))'
          /\ Target(Top(dfs1))' \in aut'.acc
      <4>1. Walk(<<>>, cycleState)'
        BY <1>w, <2>1, <2>9 DEF Walk
      <4>2. Spells(<<>>, path)'
        BY <2>1, <2>9, <2>10
      <4>3. Continues(Start(<<>>, cycleState))'
        BY <2>1, <2>9, <2>11 DEF Start
      <4> QED
        BY <1>a, <1>i, <2>1, <2>7, <4>1, <4>2, <4>3
    <3> QED
      BY <2>1, <2>6, <2>8, <2>10, <3>1, <3>2 DEF Collecting
  <2>13. Explored(Top(dfs1))'
    BY <2>1, <2>7 DEF Explored
  <2> QED
    BY <2>1, <2>12, <2>13 DEF WayBack
(* A walk made longer by the pair of the activation that returns.          *)
<1>l. ASSUME NEW w, NEW p \in Pairs, Walk(w, cycleState), Spells(w, path),
             Start(w, cycleState) \in Successors1(p)
      PROVE  /\ Walk(<<p>> \o w, cycleState) /\ <<p>> \o w # <<>>
             /\ Start(<<p>> \o w, cycleState) = p /\ (<<p>> \o w)[1] = p
             /\ Accepting(<<p>> \o w) <=> p[2] \in aut.acc \/ Accepting(w)
             /\ Spells(<<p>> \o w, <<p[1]>> \o path)
  <2>1. path \in Seq(sys.states)
    BY <1>0 DEF Nested
  <2> QED
    BY <1>l, <2>1, WalkLonger
<1>3. CASE Unwind2
  <2> DEFINE f == Top(dfs2)
             p == Visited(f)
  <2>1. /\ phase = "unwind" /\ phase' = "unwind" /\ dfs2 # <<>> /\ dfs2' = Pop(dfs2)
        /\ path' = IF Len(dfs2) > 1 THEN <<f.sys>> \o path ELSE path
        /\ UNCHANGED <<dfs1, cycleState, cycle>>
    BY <1>3 DEF Unwind2
  <2>2. Collecting
    BY <2>1 DEF WayBack, Closed1
  <2>c. \A x : Continues(x) => x \in Successors1(p)
    BY <2>1 DEF Continues
  <2>3. PICK w : /\ Walk(w, cycleState) /\ Spells(w, path) /\ Start(w, cycleState) \in Successors1(p)
                 /\ Target(Top(dfs1)) \in aut.acc \/ Accepting(w)
    <3> HIDE DEF p
    <3> QED
      BY <2>2, <2>c DEF Collecting
  <2>4. /\ p \in Pairs /\ p[1] = f.sys
        /\ IF Pop(dfs2) = <<>> THEN dfs1 # <<>> /\ p = Pair(Top(dfs1))
           ELSE p \in Successors1(Visited(Top(Pop(dfs2))))
    BY <1>0, <2>1, CalledPair2 DEF Visited
  <2>5. Pop(dfs2) = <<>> <=> ~(Len(dfs2) > 1)
    <3>1. dfs2 \in Seq(Frames2)
      BY <1>0 DEF TypeOK
    <3>2. Pop(dfs2) \in Seq(Frames2) /\ Len(Pop(dfs2)) = Len(dfs2) - 1 /\ Len(dfs2) \in Nat \ {0}
      BY <2>1, <3>1, PopLemma, TopLemma
    <3> QED
      BY <3>2
  <2> HIDE DEF p
  <2>d. \A x : Continues(x)' <=> IF Pop(dfs2) = <<>> THEN x \in Successors1(Pair(Top(dfs1)))
                                 ELSE x \in Successors1(Visited(Top(Pop(dfs2))))
    BY <1>a, <2>1, <2>2 DEF Continues, Visited, Collecting
  <2>6. \E v : /\ Walk(v, cycleState) /\ Spells(v, path') /\ Continues(Start(v, cycleState))'
               /\ Target(Top(dfs1)) \in aut.acc \/ Accepting(v)
    <3>1. CASE Pop(dfs2) = <<>>
      <4>1. Continues(Start(w, cycleState))'
        BY <1>v, <2>1, <2>3, <2>4, <2>d, <3>1
      <4> QED
        BY <2>1, <2>3, <2>5, <3>1, <4>1
    <3>2. CASE Pop(dfs2) # <<>>
      <4>1. PICK v : /\ Walk(v, cycleState) /\ v # <<>> /\ Start(v, cycleState) = p /\ v[1] = p
                     /\ Accepting(w) => Accepting(v)
                     /\ Spells(v, <<p[1]>> \o path)
        BY <1>l, <2>3, <2>4
      <4>2. Spells(v, path')
        BY <2>1, <2>4, <2>5, <3>2, <4>1
      <4>3. Continues(Start(v, cycleState))'
        BY <1>v, <2>1, <2>4, <2>d, <3>2, <4>1
      <4> QED
        BY <2>3, <4>1, <4>2, <4>3
    <3> QED
      BY <3>1, <3>2
  <2>7. Collecting'
    <3>1. PairsOf(dfs1)' = PairsOf(dfs1)
      BY <1>a, <2>1 DEF PairsOf, Explored
    <3>2. PICK v : /\ Walk(v, cycleState) /\ Spells(v, path') /\ Continues(Start(v, cycleState))'
                   /\ Target(Top(dfs1)) \in aut.acc \/ Accepting(v)
      BY <2>6
    <3>3. Walk(v, cycleState)' /\ (Target(Top(dfs1))' \in aut'.acc \/ Accepting(v)')
      <4>1. Walk(v, cycleState)' <=> Walk(v, cycleState)
        BY <1>a, <2>1 DEF Walk
      <4> QED
        BY <1>a, <1>i, <1>w, <2>1, <3>2, <4>1
    <3>4. Spells(v, path)'
      BY <3>2 DEF Spells
    <3> QED
      BY <2>1, <2>2, <3>1, <3>2, <3>3, <3>4 DEF Collecting
  <2>8. Explored(Top(dfs1))' <=> Explored(Top(dfs1))
    BY <2>1 DEF Explored
  <2> QED
    BY <2>1, <2>7, <2>8 DEF WayBack
<1>4. CASE Unwind1
  <2> DEFINE f == Top(dfs1)
             p == Pair(f)
             rest == Pop(dfs1)
  <2>1. /\ phase = "unwind" /\ phase' = "unwind" /\ dfs2 = <<>> /\ dfs1 # <<>> /\ dfs1' = rest
        /\ path' = IF p = cycleState THEN cycle ELSE <<f.sys>> \o path
        /\ cycle' = IF p = cycleState THEN <<f.sys>> \o path ELSE cycle
        /\ UNCHANGED <<dfs2, cycleState>>
    BY <1>4 DEF Unwind1, Closes
  <2>2. Explored(f)
    BY <2>1 DEF WayBack
  <2>3. /\ p \in Pairs
        /\ IF rest = <<>> THEN p \in ProductInit(sys, aut) ELSE p \in Successors1(Pair(Top(rest)))
    BY <1>0, <2>1, <2>2, CalledPair1
  <2>4. PairsOf(rest) = PairsOf(dfs1) \ {p} /\ p \in PairsOf(dfs1)
    BY <1>d, <2>1, <2>2, PairsPopExplored
  <2>5. rest # <<>> => Explored(Top(rest))
    <3>1. Calls(dfs1, Good1, Waiting)
      BY <1>0 DEF Nested
    <3>2. Pop(dfs1) # <<>> => Top(Pop(dfs1)) \in Waiting
      BY <2>1, <3>1, CallsPop
    <3> QED
      BY <3>2 DEF Waiting, Explored
  <2>6. p[1] = f.sys /\ p[2] = Target(f)
    BY DEF Pair
  <2>7. PairsOf(dfs1)' = PairsOf(rest)
    BY <1>a, <2>1 DEF PairsOf, Explored
  <2>8. \A x : Continues(x)' <=> IF rest = <<>> THEN x \in ProductInit(sys, aut)
                                 ELSE x \in Successors1(Pair(Top(rest)))
    BY <1>a, <2>1 DEF Continues
  <2>9. \A x : Continues(x) => x \in Successors1(p)
    BY <2>1 DEF Continues
  <2> HIDE DEF p, rest
  <2>11. CASE Collecting
    <3>1. PICK w : /\ Walk(w, cycleState) /\ Spells(w, path) /\ Start(w, cycleState) \in Successors1(p)
                   /\ p[2] \in aut.acc \/ Accepting(w)
      <4> HIDE DEF f
      <4> QED
        BY <2>6, <2>9, <2>11 DEF Collecting, f
    <3>2. PICK v : /\ Walk(v, cycleState) /\ v # <<>> /\ Start(v, cycleState) = p /\ v[1] = p
                   /\ Accepting(v)
                   /\ Spells(v, <<f.sys>> \o path)
      BY <1>l, <2>3, <2>6, <3>1
    <3>3. Walk(v, cycleState)' /\ Continues(Start(v, cycleState))'
      BY <1>v, <2>1, <2>3, <2>8, <3>2
    <3>4. CASE p = cycleState
      <4>1. cycleState' \notin PairsOf(dfs1)' /\ dfs2' = <<>>
        BY <2>1, <2>4, <2>7, <3>4
      <4>2. path' = <<>> /\ cycle' = <<f.sys>> \o path
        BY <2>1, <2>11, <3>4 DEF Collecting
      <4>3. /\ Walk(<<>>, cycleState)' /\ Spells(<<>>, path)'
            /\ Continues(Start(<<>>, cycleState))'
        BY <1>a, <2>1, <2>3, <2>8, <3>4, <4>2 DEF Walk, Spells, Start
      <4>4. Walk(v, cycleState)' /\ Accepting(v)'
        BY <1>w, <3>2, <3>3
      <4>5. Spells(v, cycle)'
        BY <3>2, <4>2 DEF Spells
      <4> QED
        BY <2>1, <2>5, <3>2, <3>4, <4>1, <4>3, <4>4, <4>5 DEF WayBack, Closed1, Explored
    <3>5. CASE p # cycleState
      <4>1. cycleState' \in PairsOf(dfs1)' /\ cycle' = <<>>
        BY <2>1, <2>4, <2>7, <2>11, <3>5 DEF Collecting
      <4>2. dfs1' # <<>>
        BY <4>1 DEF PairsOf
      <4>3. Walk(v, cycleState)' /\ Accepting(v)'
        BY <1>w, <3>2, <3>3
      <4>4. Spells(v, path)'
        BY <2>1, <3>2, <3>5 DEF Spells
      <4>5. Continues(Start(v, cycleState))'
        BY <3>3
      <4> QED
        BY <2>1, <2>5, <4>1, <4>2, <4>3, <4>4, <4>5 DEF WayBack, Collecting, Explored
    <3> QED
      BY <3>4, <3>5
  <2>12. CASE Closed1
    <3>1. PICK w, v : /\ Walk(w, cycleState) /\ Spells(w, path)
                      /\ Start(w, cycleState) \in Successors1(p)
                      /\ Walk(v, cycleState) /\ Spells(v, cycle)
                      /\ v # <<>> /\ v[1] = cycleState /\ Accepting(v)
      BY <2>9, <2>12 DEF Closed1
    <3>2. p # cycleState /\ cycleState' \notin PairsOf(dfs1)' /\ dfs2' = <<>>
      BY <2>1, <2>4, <2>7, <2>12 DEF Closed1
    <3>3. PICK u : Walk(u, cycleState) /\ Start(u, cycleState) = p /\ Spells(u, <<f.sys>> \o path)
      BY <1>l, <2>3, <2>6, <3>1
    <3>4. /\ Walk(u, cycleState)' /\ Walk(v, cycleState)' /\ Accepting(v)'
      BY <1>v, <1>w, <2>1, <3>1, <3>3
    <3>5. Continues(Start(u, cycleState))'
      BY <1>v, <2>1, <2>3, <2>8, <3>3
    <3>6. Spells(u, path)' /\ Spells(v, cycle)' /\ v[1] = cycleState'
      BY <2>1, <3>1, <3>2, <3>3 DEF Spells
    <3> QED
      BY <2>1, <2>5, <3>1, <3>2, <3>4, <3>5, <3>6 DEF WayBack, Closed1, Explored
  <2> QED
    BY <2>1, <2>11, <2>12 DEF WayBack
<1>5. CASE (Found \/ UNCHANGED vars) /\ phase' # "search"
  <2>1. UNCHANGED <<dfs1, dfs2, cycleState, path, cycle>>
        /\ \/ phase = "unwind" /\ phase' = "found" /\ dfs1 = <<>>
           \/ phase' = phase
    BY <1>5 DEF Found, vars
  <2>2. Closed1 => Closed1'
    <3> SUFFICES ASSUME Closed1 PROVE Closed1'
      OBVIOUS
    <3>1. PairsOf(dfs1)' = PairsOf(dfs1)
      BY <1>a, <2>1 DEF PairsOf, Explored
    <3>2. PICK w, v : /\ Walk(w, cycleState) /\ Spells(w, path)
                      /\ Continues(Start(w, cycleState))
                      /\ Walk(v, cycleState) /\ Spells(v, cycle)
                      /\ v # <<>> /\ v[1] = cycleState /\ Accepting(v)
      BY DEF Closed1
    <3>3. Continues(Start(w, cycleState))'
      BY <1>a, <2>1, <3>2 DEF Continues, Start, Visited
    <3>4. Walk(w, cycleState)' /\ Walk(v, cycleState)' /\ Accepting(v)'
      BY <1>a, <1>w, <2>1, <3>2 DEF Walk
    <3>5. Spells(w, path)' /\ Spells(v, cycle)' /\ v[1] = cycleState'
      BY <2>1, <3>2 DEF Spells
    <3> QED
      BY <2>1, <3>1, <3>2, <3>3, <3>4, <3>5 DEF Closed1
  <2>3. Collecting /\ phase' = phase => Collecting'
    <3> SUFFICES ASSUME Collecting, phase' = phase PROVE Collecting'
      OBVIOUS
    <3>1. PairsOf(dfs1)' = PairsOf(dfs1)
      BY <1>a, <2>1 DEF PairsOf, Explored
    <3>2. PICK w : /\ Walk(w, cycleState) /\ Spells(w, path) /\ Continues(Start(w, cycleState))
                   /\ Target(Top(dfs1)) \in aut.acc \/ Accepting(w)
      BY DEF Collecting
    <3>3. Continues(Start(w, cycleState))'
      BY <1>a, <2>1, <3>2 DEF Continues, Start, Visited
    <3>4. Walk(w, cycleState)' /\ (Target(Top(dfs1))' \in aut'.acc \/ Accepting(w)')
      BY <1>a, <1>i, <1>w, <2>1, <3>2 DEF Walk
    <3>5. Spells(w, path)'
      BY <2>1, <3>2 DEF Spells
    <3> QED
      BY <2>1, <3>1, <3>3, <3>4, <3>5 DEF Collecting
  <2>4. Collecting => dfs1 # <<>>
    BY DEF Collecting
  <2>5. phase = "found" => dfs1 = <<>>
    BY <1>0 DEF Nested
  <2> QED
    BY <1>5, <2>1, <2>2, <2>3, <2>4, <2>5 DEF WayBack, Explored
<1>6. CASE NoCounterexample
  BY <1>6 DEF NoCounterexample, WayBack
<1>7. ASSUME Next, phase' # "search", ~NoCounterexample
      PROVE  Dfs2Edge \/ Unwind2 \/ Unwind1 \/ Found \/ UNCHANGED vars
  BY <1>7 DEF Next, Search1, Search2, Answer, Done, StartFromInitial, Dfs1Edge, Dfs1Succ,
     Dfs1SuccsDone, Dfs1Return, Dfs2Succ, Dfs2EdgesDone, Dfs2Return, Searching1, Searching2
<1> QED
  BY <1>1, <1>2, <1>3, <1>4, <1>5, <1>6, <1>7

----------------------------------------------------------------------------
(* What is answered at the end of the way back.                            *)

(* From i, step by step, up to n.                                          *)
LEMMA StepByStep ==
  ASSUME NEW n \in Nat, NEW i \in Nat, NEW T, i \in T,
         \A j \in i .. n - 1 : j \in T => j + 1 \in T
  PROVE  \A j \in i .. n : j \in T
<1> DEFINE Bad == {j \in i .. n : j \notin T}
           R == OpToRel(<, Nat)
<1> SUFFICES ASSUME Bad # {} PROVE FALSE
  OBVIOUS
<1>1. PICK m \in Bad : \A y \in Bad : <<y, m>> \notin R
  <2>1. Bad \subseteq Nat
    OBVIOUS
  <2> HIDE DEF Bad, R
  <2> QED
    BY <2>1, NatLessThanWellFounded, WFMin DEF R
<1>2. m # i /\ m - 1 \in i .. n - 1 /\ (m - 1) + 1 = m /\ m - 1 \in i .. n
  OBVIOUS
<1>3. m - 1 \notin T
  BY <1>2
<1>4. m - 1 \in Bad /\ <<m - 1, m>> \in R
  BY <1>2, <1>3 DEF OpToRel
<1> QED
  BY <1>1, <1>4

(* A walk of the product from an initial pair, whose end is its own return *)
(* point at cut + 1, and the words it spells.                              *)
Lasso(all, cut) ==
  /\ all \in Seq(Pairs) /\ cut \in 0 .. Len(all) - 1 /\ all # <<>>
  /\ all[1] \in ProductInit(sys, aut)
  /\ \A k \in 1 .. Len(all) - 1 : all[k + 1] \in Successors1(all[k])
  /\ all[cut + 1] \in Successors1(all[Len(all)])
  /\ \E k \in cut + 1 .. Len(all) : all[k][2] \in aut.acc

LEMMA LassoIsAccepted ==
  ASSUME Nested, NEW all, NEW leadIn \in Seq(sys.states), NEW loop \in Seq(sys.states),
         Lasso(all, Len(leadIn)), Spells(all, leadIn \o loop)
  PROVE  IsBehaviour(sys, leadIn, loop) /\ IsAccepted(sys, aut, leadIn, loop)
<1> DEFINE word == leadIn \o loop
           n == Len(word)
           cut == Len(leadIn)
           N == (1 .. n) \X aut.states
           edges == RunEdges(sys, aut, leadIn, loop)
           from == {1} \X FirstMoves(aut, sys.label[word[1]])
           Node(k) == <<k, all[k][2]>>
           next(k) == After(leadIn, loop, k)
<1>1. /\ n = cut + Len(loop) /\ cut \in Nat /\ n \in Nat /\ Len(loop) \in Nat /\ Len(all) = n
      /\ n > 0 /\ cut < n /\ DOMAIN all = 1 .. n
      /\ \A k \in 1 .. n : word[k] = all[k][1] /\ all[k] \in Pairs
  <2>1. word \in Seq(sys.states) /\ n = cut + Len(loop)
    BY ConcatProperties
  <2>2. Len(all) = n /\ all \in Seq(Pairs) /\ all # <<>> /\ cut \in 0 .. Len(all) - 1
        /\ \A k \in 1 .. Len(all) : word[k] = all[k][1]
    BY DEF Lasso, Spells
  <2> HIDE DEF n, cut, word
  <2>3. n \in Nat /\ cut \in Nat /\ Len(loop) \in Nat
    BY <2>1, <2>2 DEF cut
  <2> QED
    BY <2>1, <2>2, <2>3
<1>2. loop # <<>> /\ loop[1] = word[cut + 1]
  <2>1. Len(loop) > 0 /\ loop # <<>>
    BY <1>1
  <2>2. \A i \in 1 .. Len(leadIn) + Len(loop) :
          word[i] = IF i <= Len(leadIn) THEN leadIn[i] ELSE loop[i - Len(leadIn)]
    BY ConcatProperties
  <2> QED
    BY <1>1, <2>1, <2>2
<1>3. /\ all[1] \in ProductInit(sys, aut)
      /\ \A k \in 1 .. n - 1 : all[k + 1] \in Successors1(all[k])
      /\ all[cut + 1] \in Successors1(all[n])
  BY <1>1 DEF Lasso
<1>4. PICK a \in cut + 1 .. n : all[a][2] \in aut.acc
  BY <1>1 DEF Lasso
<1>5. \A k \in 1 .. n : next(k) = IF k = n THEN cut + 1 ELSE k + 1
  BY DEF After
<1>6. \A k \in 1 .. n : next(k) \in 1 .. n /\ all[next(k)] \in Successors1(all[k])
  <2> SUFFICES ASSUME NEW k \in 1 .. n
               PROVE  next(k) \in 1 .. n /\ all[next(k)] \in Successors1(all[k])
    OBVIOUS
  <2> HIDE DEF n, cut, next
  <2>1. CASE k = n
    BY <1>1, <1>3, <1>5, <2>1
  <2>2. CASE k # n
    <3>1. k \in 1 .. n - 1
      BY <1>1, <2>2
    <3> QED
      BY <1>1, <1>3, <1>5, <2>2, <3>1
  <2> QED
    BY <2>1, <2>2
<1>7. \A x, y : y \in Successors1(x) =>
        y[1] \in SuccessorSet(sys, x[1]) /\ y[2] \in Moves(aut, x[2], sys.label[y[1]])
  BY DEF Successors1, ProductSuccessors
<1>8. IsBehaviour(sys, leadIn, loop)
  <2>1. word[1] = 0
    <3>1. all[1][1] = 0
      BY <1>3 DEF ProductInit
    <3> QED
      BY <1>1, <3>1
  <2>2. ASSUME NEW k \in 1 .. n - 1 PROVE word[k + 1] \in SuccessorSet(sys, word[k])
    <3>1. k \in 1 .. n /\ k + 1 \in 1 .. n
      BY <1>1
    <3> QED
      BY <1>1, <1>3, <1>7, <3>1
  <2>3. loop[1] \in SuccessorSet(sys, word[n])
    <3>1. n \in 1 .. n /\ cut + 1 \in 1 .. n
      BY <1>1
    <3> QED
      BY <1>1, <1>2, <1>3, <1>7, <3>1
  <2> QED
    BY <1>2, <2>1, <2>2, <2>3 DEF IsBehaviour
<1>9. /\ IsFiniteSet(N) /\ edges \in [N -> SUBSET N] /\ from \in SUBSET N
      /\ \A k \in 1 .. n, q \in aut.states :
           edges[<<k, q>>] = {next(k)} \X Moves(aut, q, sys.label[word[next(k)]])
  <2>1. IsFiniteSet(1 .. n) /\ IsFiniteSet(aut.states)
    BY <1>1, FS_Interval, FinitenessAssumption DEF Nested
  <2>2. IsFiniteSet(N)
    BY <2>1, FS_Product
  <2>3. \A q \in aut.states : \A props : Moves(aut, q, props) \subseteq aut.states
    BY AutomataAssumption DEF Nested, Moves
  <2>4. edges = [x \in N |-> {next(x[1])} \X Moves(aut, x[2], sys.label[word[next(x[1])]])]
    BY DEF RunEdges
  <2>5. from \in SUBSET N
    <3>1. \A k \in DOMAIN aut.init : aut.init[k] \in aut.states
      BY AutomataAssumption DEF Nested
    <3>2. 1 \in 1 .. n
      BY <1>1
    <3> QED
      BY <2>3, <3>1, <3>2 DEF FirstMoves
  <2> HIDE DEF edges, next, from, n, word
  <2>6. \A x \in N : {next(x[1])} \X Moves(aut, x[2], sys.label[word[next(x[1])]]) \subseteq N
    BY <1>6, <2>3
  <2>7. edges \in [N -> SUBSET N]
    BY <2>4, <2>6
  <2>8. \A k \in 1 .. n, q \in aut.states :
          edges[<<k, q>>] = {next(k)} \X Moves(aut, q, sys.label[word[next(k)]])
    BY <2>4
  <2> QED
    BY <2>2, <2>5, <2>7, <2>8
<1>10. \A k \in 1 .. n : Node(k) \in N /\ Node(next(k)) \in edges[Node(k)]
  <2> SUFFICES ASSUME NEW k \in 1 .. n
               PROVE  Node(k) \in N /\ Node(next(k)) \in edges[Node(k)]
    OBVIOUS
  <2>1. all[k] \in Pairs /\ all[k][2] \in aut.states /\ next(k) \in 1 .. n
    BY <1>1, <1>6 DEF Pairs
  <2> HIDE DEF edges, next, from, n, word
  <2>2. all[next(k)][2] \in Moves(aut, all[k][2], sys.label[word[next(k)]])
    BY <1>1, <1>6, <1>7, <2>1
  <2> QED
    BY <1>9, <2>1, <2>2
<1>11. \A k \in 1 .. n : Node(k) \in N /\ edges[Node(k)] \in SUBSET N
  <2> HIDE DEF edges, Node, N, n
  <2> QED
    BY <1>9, <1>10
<1>12. Node(1) \in from
  <2>1. all[1][2] \in FirstMoves(aut, sys.label[0]) /\ all[1][1] = 0
    BY <1>3 DEF ProductInit
  <2>2. word[1] = 0
    BY <1>1, <2>1
  <2> QED
    BY <2>1, <2>2
<1> HIDE DEF edges, from, N, word
(* A closed set that contains a node of the run contains the later ones.   *)
<1>13. ASSUME NEW T, Closed(edges, T), NEW i \in 1 .. n, Node(i) \in T
       PROVE  \A j \in i .. n : Node(j) \in T
  <2> DEFINE U == {j \in 1 .. n : Node(j) \in T}
  <2> HIDE DEF n, Node, next
  <2>1. ASSUME NEW j \in i .. n - 1, j \in U PROVE j + 1 \in U
    <3>1. j \in 1 .. n /\ j + 1 \in 1 .. n /\ j # n
      BY <1>1, <2>1
    <3>2. next(j) = j + 1
      BY <1>5, <3>1
    <3>3. Node(j + 1) \in edges[Node(j)]
      BY <1>10, <3>1, <3>2
    <3> QED
      BY <1>13, <2>1, <3>1, <3>3 DEF Closed
  <2>2. n \in Nat /\ i \in Nat /\ i \in U
    BY <1>1, <1>13
  <2> HIDE DEF U
  <2>3. \A j \in i .. n : j \in U
    BY <2>1, <2>2, StepByStep
  <2> QED
    BY <2>3 DEF U
<1>14. Node(a) \in Reach(edges, from)
  <2>1. from \subseteq Reach(edges, from) /\ Closed(edges, Reach(edges, from))
    BY <1>9, ReachLemma
  <2>2. Node(1) \in Reach(edges, from) /\ 1 \in 1 .. n /\ a \in 1 .. n
    BY <1>1, <1>12, <2>1
  <2> HIDE DEF n, Node
  <2> QED
    BY <1>13, <2>1, <2>2
<1>15. Node(a) \in Reach(edges, edges[Node(a)])
  <2> DEFINE T == Reach(edges, edges[Node(a)])
  <2>0. a \in 1 .. n /\ n \in 1 .. n /\ cut + 1 \in 1 .. n /\ a \in cut + 1 .. n
    BY <1>1
  <2>1. edges[Node(a)] \subseteq T /\ Closed(edges, T)
    BY <1>9, <1>11, <2>0, ReachLemma
  <2> HIDE DEF T, n, Node, next, cut
  <2>2. Node(next(a)) \in T
    BY <1>10, <2>0, <2>1
  <2>3. CASE a = n
    <3>1. Node(cut + 1) \in T
      BY <1>5, <2>0, <2>2, <2>3
    <3>2. \A j \in cut + 1 .. n : Node(j) \in T
      BY <1>13, <2>0, <2>1, <3>1
    <3> QED
      BY <2>0, <3>2 DEF T
  <2>4. CASE a # n
    <3>1. a + 1 \in 1 .. n /\ n \in a + 1 .. n /\ Node(a + 1) \in T
      BY <1>1, <1>5, <2>0, <2>2, <2>4
    <3>2. Node(n) \in T
      BY <1>13, <2>1, <3>1
    <3>3. Node(cut + 1) \in edges[Node(n)]
      BY <1>5, <1>10, <2>0
    <3>4. Node(cut + 1) \in T
      BY <2>1, <3>2, <3>3 DEF Closed
    <3>5. \A j \in cut + 1 .. n : Node(j) \in T
      BY <1>13, <2>0, <2>1, <3>4
    <3> QED
      BY <2>0, <3>5 DEF T
  <2> QED
    BY <2>3, <2>4
<1>16. Node(a) \in (1 .. n) \X aut.acc
  BY <1>1, <1>4
<1>17. IsAccepted(sys, aut, leadIn, loop)
  <2> DEFINE x == Node(a)
             good == (1 .. n) \X aut.acc
  <2>1. x \in good \cap Reach(edges, from) /\ x \in Reach(edges, edges[x])
    BY <1>14, <1>15, <1>16
  <2> HIDE DEF x, good
  <2>2. ReachesGoodCycle(edges, from, good)
    BY <2>1 DEF ReachesGoodCycle
  <2> QED
    BY <2>2 DEF IsAccepted, edges, from, good, word
<1> QED
  BY <1>8, <1>17

LEMMA WalksMakeLasso ==
  ASSUME NEW w, NEW v, NEW x, Walk(w, x), Walk(v, x), v # <<>>, v[1] = x, Accepting(v),
         Start(w, x) \in ProductInit(sys, aut),
         NEW leadIn \in Seq(sys.states), NEW loop \in Seq(sys.states),
         Spells(w, leadIn), Spells(v, loop)
  PROVE  Lasso(w \o v, Len(leadIn)) /\ Spells(w \o v, leadIn \o loop)
<1> DEFINE all == w \o v
           word == leadIn \o loop
           m == Len(w)
           n == Len(v)
<1>1. /\ w \in Seq(Pairs) /\ v \in Seq(Pairs) /\ m \in Nat /\ n \in Nat \ {0} /\ x \in Pairs
      /\ \A k \in 1 .. m - 1 : w[k + 1] \in Successors1(w[k])
      /\ w # <<>> => x \in Successors1(w[m])
      /\ \A k \in 1 .. n - 1 : v[k + 1] \in Successors1(v[k])
      /\ x \in Successors1(v[n])
      /\ w = <<>> <=> m = 0
  BY DEF Walk
<1>2. /\ all \in Seq(Pairs) /\ Len(all) = m + n
      /\ \A k \in 1 .. m : all[k] = w[k]
      /\ \A k \in 1 .. n : all[m + k] = v[k]
  <2>1. /\ all \in Seq(Pairs) /\ Len(all) = m + n
        /\ \A i \in 1 .. m + n : all[i] = IF i <= m THEN w[i] ELSE v[i - m]
    BY <1>1, ConcatProperties
  <2> HIDE DEF all, m, n
  <2> QED
    BY <1>1, <2>1
<1>3. /\ Len(word) = m + n
      /\ \A k \in 1 .. m : word[k] = leadIn[k]
      /\ \A k \in 1 .. n : word[m + k] = loop[k]
  <2>1. Len(leadIn) = m /\ Len(loop) = n
    BY DEF Spells
  <2>2. /\ Len(word) = Len(leadIn) + Len(loop)
        /\ \A i \in 1 .. Len(leadIn) + Len(loop) :
             word[i] = IF i <= Len(leadIn) THEN leadIn[i] ELSE loop[i - Len(leadIn)]
    BY ConcatProperties
  <2> HIDE DEF word, m, n
  <2> QED
    BY <1>1, <2>1, <2>2
<1>4. Len(leadIn) = m /\ Len(loop) = n
  BY DEF Spells
<1>5. \A k \in 1 .. m : leadIn[k] = w[k][1]
  BY DEF Spells
<1>6. \A k \in 1 .. n : loop[k] = v[k][1]
  BY DEF Spells
<1>7. PICK a \in 1 .. n : v[a][2] \in aut.acc
  BY DEF Accepting
<1>8. x = all[m + 1]
  BY <1>1, <1>2
<1>9. IF m = 0 THEN x \in ProductInit(sys, aut) ELSE w[1] \in ProductInit(sys, aut)
  BY <1>1 DEF Start
<1> HIDE DEF all, word, m, n
<1>10. \A k \in 1 .. m + n : k \in 1 .. m \/ (k - m \in 1 .. n /\ m + (k - m) = k)
  BY <1>1
<1>11. Spells(all, word)
  <2>1. ASSUME NEW k \in 1 .. m + n PROVE word[k] = all[k][1]
    <3>1. CASE k \in 1 .. m
      BY <1>2, <1>3, <1>5, <3>1
    <3>2. CASE k - m \in 1 .. n /\ m + (k - m) = k
      <4>1. word[m + (k - m)] = loop[k - m] /\ all[m + (k - m)] = v[k - m]
            /\ loop[k - m] = v[k - m][1]
        BY <1>2, <1>3, <1>6, <3>2
      <4> QED
        BY <3>2, <4>1
    <3> QED
      BY <1>10, <3>1, <3>2
  <2> QED
    BY <1>2, <1>3, <2>1 DEF Spells
<1>12. all[1] \in ProductInit(sys, aut)
  BY <1>1, <1>2, <1>8, <1>9
<1>13. ASSUME NEW k \in 1 .. (m + n) - 1 PROVE all[k + 1] \in Successors1(all[k])
  <2>1. CASE k \in 1 .. m - 1
    <3>1. k \in 1 .. m /\ k + 1 \in 1 .. m
      BY <1>1, <2>1
    <3> QED
      BY <1>1, <1>2, <2>1, <3>1
  <2>2. CASE k = m
    <3>1. k \in 1 .. m /\ m # 0
      BY <1>1, <2>2
    <3> QED
      BY <1>1, <1>2, <1>8, <2>2, <3>1
  <2>3. CASE k - m \in 1 .. n - 1
    <3>1. k - m \in 1 .. n /\ (k - m) + 1 \in 1 .. n /\ m + (k - m) = k /\ m + ((k - m) + 1) = k + 1
      BY <1>1, <2>3
    <3>2. all[m + (k - m)] = v[k - m] /\ all[m + ((k - m) + 1)] = v[(k - m) + 1]
      BY <1>2, <3>1
    <3>3. v[(k - m) + 1] \in Successors1(v[k - m])
      BY <1>1, <2>3
    <3> QED
      BY <3>1, <3>2, <3>3
  <2>4. k \in 1 .. m - 1 \/ k = m \/ k - m \in 1 .. n - 1
    BY <1>1
  <2> QED
    BY <2>1, <2>2, <2>3, <2>4
<1>14. all[m + 1] \in Successors1(all[m + n])
  BY <1>1, <1>2, <1>8
<1>15. \E k \in m + 1 .. m + n : all[k][2] \in aut.acc
  <2>1. m + a \in m + 1 .. m + n /\ all[m + a][2] \in aut.acc
    BY <1>1, <1>2, <1>7
  <2> QED
    BY <2>1
<1>16. Lasso(all, m)
  <2>1. m \in 0 .. Len(all) - 1 /\ all # <<>>
    BY <1>1, <1>2
  <2> QED
    BY <1>2, <1>12, <1>13, <1>14, <1>15, <2>1 DEF Lasso
<1> QED
  BY <1>4, <1>11, <1>16 DEF all, word

LEMMA FoundIsRight ==
  ASSUME Nested, Closed1, dfs1 = <<>>
  PROVE  IsBehaviour(sys, path, cycle) /\ IsAccepted(sys, aut, path, cycle)
<1>1. PICK w, v : /\ Walk(w, cycleState) /\ Spells(w, path)
                  /\ Start(w, cycleState) \in ProductInit(sys, aut)
                  /\ Walk(v, cycleState) /\ Spells(v, cycle)
                  /\ v # <<>> /\ v[1] = cycleState /\ Accepting(v)
  BY DEF Closed1, Continues
<1>2. path \in Seq(sys.states) /\ cycle \in Seq(sys.states)
  BY DEF Nested
<1>3. Lasso(w \o v, Len(path)) /\ Spells(w \o v, path \o cycle)
  BY <1>1, <1>2, WalksMakeLasso
<1> QED
  BY <1>2, <1>3, LassoIsAccepted

(* The instance of the abstract specification speaks of the same product.  *)
LEMMA SamePromise ==
  ASSUME NEW sy, NEW au, NEW leadIn, NEW loop
  PROVE  /\ Emptiness!IsBehaviour(sy, leadIn, loop) <=> IsBehaviour(sy, leadIn, loop)
         /\ Emptiness!IsAccepted(sy, au, leadIn, loop) <=> IsAccepted(sy, au, leadIn, loop)
         /\ Emptiness!HasAcceptingCycle(sy, au) <=> HasAcceptingCycle(sy, au)
<1>1. \A edges, from : Emptiness!Reach(edges, from) = Reach(edges, from)
  BY DEF Emptiness!Reach, Reach
<1>2. \A edges, from, good :
        Emptiness!ReachesGoodCycle(edges, from, good) <=> ReachesGoodCycle(edges, from, good)
  BY <1>1 DEF Emptiness!ReachesGoodCycle, ReachesGoodCycle
<1>3. Emptiness!IsBehaviour(sy, leadIn, loop) <=> IsBehaviour(sy, leadIn, loop)
  BY DEF Emptiness!IsBehaviour, IsBehaviour, Emptiness!SuccessorSet, SuccessorSet,
     Emptiness!Successors, Successors
<1>4. \A q, props : Emptiness!Moves(au, q, props) = Moves(au, q, props)
  BY DEF Emptiness!Moves, Moves, Emptiness!Models, Models
<1>5. \A props : Emptiness!FirstMoves(au, props) = FirstMoves(au, props)
  BY <1>4 DEF Emptiness!FirstMoves, FirstMoves
<1>6. Emptiness!RunEdges(sy, au, leadIn, loop) = RunEdges(sy, au, leadIn, loop)
  BY <1>4 DEF Emptiness!RunEdges, RunEdges, Emptiness!After, After
<1>7. Emptiness!ProductEdges(sy, au) = ProductEdges(sy, au)
  <2>1. \A x : Emptiness!ProductSuccessors(sy, au, x) = ProductSuccessors(sy, au, x)
    BY <1>4 DEF Emptiness!ProductSuccessors, ProductSuccessors, Emptiness!SuccessorSet,
       SuccessorSet, Emptiness!Successors, Successors
  <2> QED
    BY <2>1 DEF Emptiness!ProductEdges, ProductEdges
<1>8. Emptiness!ProductInit(sy, au) = ProductInit(sy, au)
  BY <1>5 DEF Emptiness!ProductInit, ProductInit
<1>9. Emptiness!IsAccepted(sy, au, leadIn, loop) <=> IsAccepted(sy, au, leadIn, loop)
  BY <1>2, <1>5, <1>6 DEF Emptiness!IsAccepted, IsAccepted
<1>10. Emptiness!HasAcceptingCycle(sy, au) <=> HasAcceptingCycle(sy, au)
  BY <1>2, <1>7, <1>8 DEF Emptiness!HasAcceptingCycle, HasAcceptingCycle
<1> QED
  BY <1>3, <1>9, <1>10

(* Every step of the search is one of the abstract specification, or none. *)
LEMMA EmptinessStep ==
  SearchInvariant /\ WayBack /\ [Next]_vars => [Emptiness!Next]_(Emptiness!vars)
<1> SUFFICES ASSUME SearchInvariant, WayBack, [Next]_vars
             PROVE  [Emptiness!Next]_(Emptiness!vars)
  OBVIOUS
<1> USE DEF instance, caches, result
<1>0. Nested /\ FirstSearch /\ SecondSearch /\ StackMarksExact /\ FirstSearch' /\ Nested'
  BY SearchInvariantStep, NestedStep DEF SearchInvariant
<1>i. sys' = sys /\ aut' = aut
  BY InstanceFixed
<1>1. CASE Found
  <2>1. /\ phase = "unwind" /\ phase' = "found" /\ dfs1 = <<>> /\ UNCHANGED <<path, cycle>>
    BY <1>1 DEF Found
  <2>2. Closed1
    BY <2>1 DEF WayBack, Collecting
  <2>3. IsBehaviour(sys, path, cycle) /\ IsAccepted(sys, aut, path, cycle)
    BY <1>0, <2>1, <2>2, FoundIsRight
  <2>4. Emptiness!IsBehaviour(sys, path, cycle) /\ Emptiness!IsAccepted(sys, aut, path, cycle)
    BY <2>3, SamePromise
  <2>5. Emptiness!AnswerFound
    BY <1>i, <2>1, <2>4 DEF Emptiness!AnswerFound
  <2> QED
    BY <2>5 DEF Emptiness!Next
<1>2. CASE NoCounterexample
  <2>1. phase = "search" /\ phase' = "none" /\ UNCHANGED <<onDfs1Stack, dfs1Seen, dfs1>> /\ dfs1 = <<>>
    BY <1>2 DEF NoCounterexample
  <2>2. ProductInit(sys, aut) \subseteq dfs1Seen /\ onDfs1Stack = {}
    BY <1>0, <1>i, <2>1 DEF FirstSearch, ProductInit
  <2>3. ~Emptiness!HasAcceptingCycle(sys, aut)
    BY <1>0, <2>2, NothingMissed, SamePromise
  <2>4. Emptiness!AnswerNone
    BY <1>i, <2>1, <2>3 DEF Emptiness!AnswerNone
  <2> QED
    BY <2>4 DEF Emptiness!Next
<1>3. CASE \/ phase \notin {"found", "none"} /\ phase' \notin {"found", "none"}
           \/ UNCHANGED vars
  <2>1. UNCHANGED (Emptiness!vars)
    BY <1>3, <1>i DEF vars, Emptiness!vars
  <2> QED
    BY <2>1
<1> QED
  BY <1>1, <1>2, <1>3
     DEF Next, Search1, Search2, Answer, Done, StartFromInitial, Dfs1Edge, Dfs1Succ,
         Dfs1SuccsDone, Dfs1Return, Dfs2Succ, Dfs2Edge, Dfs2EdgesDone, Dfs2Return, Unwind2,
         Unwind1, Searching1, Searching2

(* The safety part of ImplementsEmptiness: whatever the system and the     *)
(* automaton, the answer "none" is given only when no accepting cycle can  *)
(* be reached, and the path and the cycle that are given are a behaviour   *)
(* of the system that the automaton accepts.                               *)
THEOREM AnswersAreRight ==
  Spec => Emptiness!Init /\ [][Emptiness!Next]_(Emptiness!vars)
<1>1. Init => Emptiness!Init
  BY DEF Init, Emptiness!Init
<1>2. Init => WayBack
  BY WayBackInit
<1>3. SearchInvariant /\ WayBack /\ [Next]_vars => WayBack'
  BY WayBackStep
<1>4. SearchInvariant /\ WayBack /\ [Next]_vars => [Emptiness!Next]_(Emptiness!vars)
  BY EmptinessStep
<1>5. Spec => []SearchInvariant
  BY SearchInvariantHolds
<1> QED
  BY <1>1, <1>2, <1>3, <1>4, <1>5, PTL DEF Spec
=============================================================================
