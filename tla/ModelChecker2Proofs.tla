------------------------ MODULE ModelChecker2Proofs ------------------------
(***************************************************************************)
(* Theorems about the nested depth-first search, for all systems and       *)
(* automata: the types, the correspondence between the marks and the call  *)
(* stack, the faithfulness of the proposition caches and the fact that the *)
(* two stacks are a run of the product.                                    *)
(***************************************************************************)
EXTENDS ModelChecker2, SequenceTheorems, TLAPS

----------------------------------------------------------------------------
(* Stacks.                                                                 *)
LEMMA PopLemma ==
  ASSUME NEW S, NEW s \in Seq(S), s # <<>>
  PROVE  /\ Pop(s) \in Seq(S)
         /\ Len(Pop(s)) = Len(s) - 1
         /\ \A k \in 1 .. Len(s) - 1 : Pop(s)[k] = s[k]
<1> DEFINE n == Len(s) - 1
           sub == SubSeq(s, 1, n)
<1>1. n \in Nat /\ 1 \in Int /\ n \in Int /\ \A k \in 1 .. n : s[k] \in S
  OBVIOUS
<1> HIDE DEF n
<1>2. /\ sub \in Seq(S)
      /\ Len(sub) = IF 1 <= n THEN n - 1 + 1 ELSE 0
      /\ \A k \in 1 .. n - 1 + 1 : sub[k] = s[1 + k - 1]
  BY <1>1, SubSeqProperties
<1> HIDE DEF sub
<1>3. sub \in Seq(S) /\ Len(sub) = n /\ \A k \in 1 .. n : sub[k] = s[k]
  BY <1>1, <1>2
<1> QED
  BY <1>3, Zenon DEF Pop, n, sub

LEMMA TopLemma ==
  ASSUME NEW S, NEW s \in Seq(S), s # <<>>
  PROVE  Top(s) \in S /\ Len(s) \in Nat \ {0} /\ Top(s) = s[Len(s)]
  BY DEF Top

LEMMA SingletonLemma ==
  ASSUME NEW S, NEW e \in S
  PROVE  <<e>> \in Seq(S) /\ <<e>> # <<>> /\ Len(<<e>>) = 1 /\ <<e>>[1] = e /\ Top(<<e>>) = e
<1>1. <<e>> \in Seq(S) /\ Len(<<e>>) = 1 /\ <<e>>[1] = e
  OBVIOUS
<1> QED
  BY <1>1 DEF Top

LEMMA SetTopLemma ==
  ASSUME NEW S, NEW s \in Seq(S), s # <<>>, NEW f \in S
  PROVE  /\ SetTop(s, f) \in Seq(S)
         /\ SetTop(s, f) # <<>>
         /\ Len(SetTop(s, f)) = Len(s)
         /\ Top(SetTop(s, f)) = f
         /\ \A k \in 1 .. Len(s) - 1 : SetTop(s, f)[k] = s[k]
  BY DEF SetTop, Top

LEMMA AppendLemma ==
  ASSUME NEW S, NEW s \in Seq(S), NEW f \in S
  PROVE  /\ Append(s, f) \in Seq(S)
         /\ Append(s, f) # <<>>
         /\ Len(Append(s, f)) = Len(s) + 1
         /\ Top(Append(s, f)) = f
         /\ \A k \in 1 .. Len(s) : Append(s, f)[k] = s[k]
  BY DEF Top

(* A stack of frames of S whose callers (all but the innermost) are in W.  *)
Calls(stack, S, W) ==
  stack \in Seq(S) /\ \A k \in 1 .. Len(stack) - 1 : stack[k] \in W

LEMMA CallsTop ==
  ASSUME NEW S, NEW W, NEW s, Calls(s, S, W), s # <<>>
  PROVE  Top(s) \in S /\ s \in Seq(S)
BY TopLemma DEF Calls

LEMMA CallsSingleton ==
  ASSUME NEW S, NEW W, NEW f \in S
  PROVE  Calls(<<f>>, S, W) /\ <<f>> # <<>> /\ Top(<<f>>) = f
BY SingletonLemma DEF Calls

LEMMA CallsSetTop ==
  ASSUME NEW S, NEW W, NEW s, Calls(s, S, W), s # <<>>, NEW f \in S
  PROVE  Calls(SetTop(s, f), S, W) /\ SetTop(s, f) # <<>> /\ Top(SetTop(s, f)) = f
BY SetTopLemma DEF Calls

LEMMA CallsAppend ==
  ASSUME NEW S, NEW W, NEW s, Calls(s, S, W), s # <<>>, Top(s) \in W, NEW f \in S
  PROVE  Calls(Append(s, f), S, W) /\ Append(s, f) # <<>> /\ Top(Append(s, f)) = f
<1>1. Len(s) \in Nat \ {0} /\ s[Len(s)] \in W /\ \A k \in 1 .. Len(s) - 1 : s[k] \in W
  BY TopLemma DEF Calls
<1>2. \A k \in 1 .. Len(s) : s[k] \in W
  BY <1>1
<1> QED
  BY <1>1, <1>2, AppendLemma DEF Calls

LEMMA CallsPop ==
  ASSUME NEW S, NEW W, NEW s, Calls(s, S, W), s # <<>>
  PROVE  /\ Calls(Pop(s), S, W)
         /\ Pop(s) # <<>> => Top(Pop(s)) \in W
<1> DEFINE t == Pop(s)
<1>1. /\ t \in Seq(S) /\ Len(t) = Len(s) - 1 /\ Len(s) \in Nat \ {0}
      /\ \A k \in 1 .. Len(s) - 1 : t[k] = s[k] /\ s[k] \in W
  BY PopLemma, TopLemma DEF Calls
<1> HIDE DEF t
<1>2. Calls(t, S, W)
  BY <1>1 DEF Calls
<1>3. t # <<>> => Top(t) = t[Len(t)] /\ Len(t) \in Nat \ {0}
  BY <1>1, TopLemma
<1> QED
  BY <1>1, <1>2, <1>3 DEF t

----------------------------------------------------------------------------
(* What the assumptions give for the instance being checked.               *)
LEMMA NextStatesType ==
  ASSUME TypeOK, NEW s \in sys.states
  PROVE  NextStates(s) \in Seq(sys.states) /\ Len(NextStates(s)) \in Nat \ {0}
<1>1. sys.succ[s] \in Seq(sys.states)
  BY SystemsAssumption DEF TypeOK
<1>2. CASE sys.succ[s] = <<>>
  <2>1. NextStates(s) = <<s>>
    BY <1>2 DEF NextStates
  <2>2. <<s>> \in Seq(sys.states) /\ Len(<<s>>) = 1
    BY SingletonLemma
  <2> QED
    BY <2>1, <2>2
<1>3. CASE sys.succ[s] # <<>>
  <2> DEFINE list == sys.succ[s]
  <2>1. list \in Seq(sys.states) /\ list # <<>> /\ NextStates(s) = list
    BY <1>1, <1>3 DEF NextStates
  <2> HIDE DEF list
  <2> QED
    BY <2>1
<1> QED
  BY <1>2, <1>3

LEMMA TransitionType ==
  ASSUME TypeOK, NEW q \in aut.states, NEW t \in DOMAIN Transitions(q)
  PROVE  Transitions(q)[t].to \in aut.states
BY AutomataAssumption DEF TypeOK, Transitions

(* The innermost activation of the first search, with what it has chosen.  *)
LEMMA Top1Lemma ==
  ASSUME TypeOK, dfs1 # <<>>
  PROVE  /\ Top(dfs1) \in Frames1
         /\ Len(dfs1) \in Nat \ {0} /\ Top(dfs1) = dfs1[Len(dfs1)]
         /\ Top(dfs1).t \in DOMAIN Transitions(Top(dfs1).from)
              => Target(Top(dfs1)) \in aut.states /\ Pair(Top(dfs1)) \in Pairs
<1>1. Top(dfs1) \in Frames1 /\ Len(dfs1) \in Nat \ {0} /\ Top(dfs1) = dfs1[Len(dfs1)]
  BY TopLemma DEF TypeOK
<1> QED
  BY <1>1, TransitionType DEF Frames1, Target, Pair, Pairs

LEMMA Top2Lemma ==
  ASSUME TypeOK, dfs2 # <<>>
  PROVE  /\ Top(dfs2) \in Frames2
         /\ Len(dfs2) \in Nat \ {0} /\ Top(dfs2) = dfs2[Len(dfs2)]
BY TopLemma DEF TypeOK

----------------------------------------------------------------------------
(* Types and nesting of the recursion, in the form that is inductive: a    *)
(* frame that waits for a call has chosen something that exists.           *)
Good1 == {f \in Frames1 : Explored(f) => f.t \in DOMAIN Transitions(f.from)}
Good2 == {f \in Frames2 : f.t # 0 => f.i \in DOMAIN NextStates(f.sys)}
Waiting == {f \in Good1 : f.at = "succs"}
Busy == {f \in Good2 : f.t # 0}

Nested ==
  /\ sys \in Systems /\ aut \in Automata
  /\ phase \in {"search", "unwind", "found", "none"}
  /\ nextInit \in 1 .. Len(aut.init) + 1
  /\ Calls(dfs1, Good1, Waiting) /\ Calls(dfs2, Good2, Busy)
  /\ allocated \subseteq sys.states
  /\ dfs1Seen \subseteq Pairs /\ onDfs1Stack \subseteq Pairs /\ dfs2Seen \subseteq Pairs
  /\ path \in Seq(sys.states) /\ cycle \in Seq(sys.states)
  /\ phase = "search" => (dfs2 # <<>> <=> dfs1 # <<>> /\ Top(dfs1).at = "nested")
  /\ phase \in {"found", "none"} => dfs1 = <<>> /\ dfs2 = <<>>

LEMMA NestedImpliesTyped == Nested => TypeOK /\ WellNested
<1> SUFFICES ASSUME Nested PROVE TypeOK /\ WellNested
  OBVIOUS
<1>1. dfs1 \in Seq(Frames1) /\ dfs2 \in Seq(Frames2)
  BY DEF Nested, Calls, Good1, Good2
<1>2. TypeOK
  BY <1>1 DEF Nested, TypeOK
<1>3. \A k \in DOMAIN dfs1 : dfs1[k] \in Good1 /\ (k < Len(dfs1) => dfs1[k] \in Waiting)
  BY DEF Nested, Calls
<1>4. \A k \in DOMAIN dfs2 : dfs2[k] \in Good2
  BY DEF Nested, Calls
<1>5. WellNested
  BY <1>3, <1>4 DEF Nested, WellNested, Good1, Good2, Waiting
<1> QED
  BY <1>2, <1>5

LEMMA NestedInit == Init => Nested
<1> SUFFICES ASSUME Init PROVE Nested
  OBVIOUS
<1>1. 0 \in sys.states /\ Len(aut.init) \in Nat
  BY SystemsAssumption, AutomataAssumption DEF Init
<1>2. Calls(dfs1, Good1, Waiting) /\ Calls(dfs2, Good2, Busy)
  BY DEF Init, Calls
<1> QED
  BY <1>1, <1>2 DEF Init, Nested

(* The innermost activations, typed.                                       *)
LEMMA Top1Good ==
  ASSUME Nested, dfs1 # <<>>
  PROVE  /\ Top(dfs1) \in Good1
         /\ Top(dfs1).t \in DOMAIN Transitions(Top(dfs1).from)
              => Target(Top(dfs1)) \in aut.states /\ Pair(Top(dfs1)) \in Pairs
<1>1. Top(dfs1) \in Good1 /\ TypeOK
  BY CallsTop, NestedImpliesTyped DEF Nested
<1> QED
  BY <1>1, TransitionType DEF Good1, Frames1, Target, Pair, Pairs

LEMMA Top2Good ==
  ASSUME Nested, dfs2 # <<>>
  PROVE  /\ Top(dfs2) \in Good2
         /\ Top(dfs2).i \in DOMAIN NextStates(Top(dfs2).sys) => Next2(Top(dfs2)) \in sys.states
<1>1. Top(dfs2) \in Good2 /\ TypeOK
  BY CallsTop, NestedImpliesTyped DEF Nested
<1>2. Top(dfs2).sys \in sys.states
  BY <1>1 DEF Good2, Frames2
<1>3. NextStates(Top(dfs2).sys) \in Seq(sys.states)
  BY <1>1, <1>2, NextStatesType
<1> QED
  BY <1>1, <1>3 DEF Next2

(* The updates of a frame.                                                 *)
LEMMA LeaveFrame ==
  ASSUME NEW f \in Frames1
  PROVE  LET h == [f EXCEPT !.t = @ + 1, !.at = "edges"]
         IN  h \in Frames1 /\ h.at = "edges"
<1> DEFINE g == [f EXCEPT !.t = @ + 1]
           h == [f EXCEPT !.t = @ + 1, !.at = "edges"]
<1>1. g \in Frames1
  BY DEF Frames1
<1>2. h = [g EXCEPT !.at = "edges"]
  BY DEF Frames1
<1> HIDE DEF g, h
<1> QED
  BY <1>1, <1>2 DEF Frames1, h

LEMMA NextEdge2 ==
  ASSUME NEW f \in Frames2
  PROVE  LET h == [f EXCEPT !.t = @ + 1]
         IN  h \in Frames2 /\ h.i = f.i /\ h.sys = f.sys
BY DEF Frames2

LEMMA NextSuccessor2 ==
  ASSUME NEW f \in Frames2
  PROVE  LET h == [f EXCEPT !.t = 0, !.i = @ + 1]
         IN  h \in Frames2 /\ h.t = 0
<1> DEFINE g == [f EXCEPT !.i = @ + 1]
           h == [f EXCEPT !.t = 0, !.i = @ + 1]
<1>1. g \in Frames2
  BY DEF Frames2
<1>2. h = [g EXCEPT !.t = 0]
  BY DEF Frames2
<1> HIDE DEF g, h
<1> QED
  BY <1>1, <1>2 DEF Frames2, h

LEMMA InstanceFixed == [Next]_vars => sys' = sys /\ aut' = aut
BY DEF Next, Search1, Search2, Answer, Done, vars, instance, StartFromInitial, Dfs1Edge, Dfs1Succ,
   Dfs1SuccsDone, Dfs1Return, Dfs2Succ, Dfs2Edge, Dfs2EdgesDone, Dfs2Return, Unwind2, Unwind1,
   Found, NoCounterexample

LEMMA NestedStep == Nested /\ [Next]_vars => Nested'
<1> SUFFICES ASSUME Nested, [Next]_vars PROVE Nested'
  OBVIOUS
<1> USE DEF instance, caches, result
<1>0. TypeOK
  BY NestedImpliesTyped
(* The sets of frames depend on the instance only, which never changes.    *)
<1>i. sys' = sys /\ aut' = aut
  BY InstanceFixed
<1>g. Good1' = Good1 /\ Good2' = Good2 /\ Waiting' = Waiting /\ Busy' = Busy /\ Pairs' = Pairs
  BY <1>i DEF Good1, Good2, Waiting, Busy, Pairs, Frames1, Frames2, Explored, Transitions, NextStates
<1>1. CASE StartFromInitial
  <2>1. aut.init[nextInit] \in aut.states /\ 0 \in sys.states
        /\ nextInit + 1 \in 1 .. Len(aut.init) + 1
    BY <1>1, SystemsAssumption, AutomataAssumption DEF StartFromInitial, Nested
  <2> DEFINE f == Frame1(0, aut.init[nextInit])
  <2>2. f \in Good1 /\ f.at = "edges"
    BY <2>1 DEF Frame1, Good1, Frames1, Explored
  <2> HIDE DEF f
  <2>3. dfs1' = <<f>>
    BY <1>1 DEF StartFromInitial, f
  <2>4. Calls(dfs1', Good1, Waiting) /\ Top(dfs1') = f
    BY <2>2, <2>3, CallsSingleton
  <2>5. dfs2 = <<>>
    BY <1>1 DEF StartFromInitial, Nested
  <2> QED
    BY <1>1, <1>i, <1>g, <2>1, <2>2, <2>4, <2>5 DEF StartFromInitial, Nested
<1>2. CASE NoCounterexample
  BY <1>2, <1>i, <1>g DEF NoCounterexample, Nested
<1>3. CASE Dfs1Edge
  <2> DEFINE f == Top(dfs1)
  <2>1. /\ f \in Good1 /\ f.at = "edges" /\ f.t \in DOMAIN Transitions(f.from)
        /\ dfs1 # <<>> /\ dfs2 = <<>> /\ phase = "search" /\ Pair(f) \in Pairs
    BY <1>3, Top1Good DEF Dfs1Edge, Searching1
  <2> DEFINE g == [f EXCEPT !.at = "succs", !.i = 1]
             h == [f EXCEPT !.t = @ + 1]
  <2>2. g \in Good1 /\ h \in Good1 /\ g.at # "nested" /\ h.at # "nested"
    <3>1. g \in Frames1 /\ g.t = f.t /\ g.from = f.from /\ g.at = "succs"
      BY <2>1 DEF Good1, Frames1
    <3>2. h \in Frames1 /\ h.at = "edges"
      BY <2>1 DEF Good1, Frames1
    <3> QED
      BY <2>1, <3>1, <3>2 DEF Good1, Explored
  <2>3. dfs1' = SetTop(dfs1, g) \/ dfs1' = SetTop(dfs1, h)
    BY <1>3 DEF Dfs1Edge
  <2> HIDE DEF g, h
  <2>4. Calls(dfs1', Good1, Waiting) /\ Top(dfs1').at # "nested"
    BY <2>1, <2>2, <2>3, CallsSetTop DEF Nested
  <2>5. dfs1Seen' \subseteq Pairs /\ onDfs1Stack' \subseteq Pairs
    BY <1>3, <2>1 DEF Dfs1Edge, Nested
  <2> QED
    BY <1>3, <1>i, <1>g, <2>1, <2>4, <2>5 DEF Dfs1Edge, Nested
<1>4. CASE Dfs1Succ
  <2> DEFINE f == Top(dfs1)
             n == NextStates(f.sys)[f.i]
  <2>1. /\ f \in Good1 /\ f.at = "succs" /\ f.i \in DOMAIN NextStates(f.sys)
        /\ dfs1 # <<>> /\ dfs2 = <<>> /\ phase = "search"
    BY <1>4, Top1Good DEF Dfs1Succ, Searching1, SuccessorsDone
  <2>2. f \in Waiting /\ f.sys \in sys.states /\ Target(f) \in aut.states
    BY <2>1, Top1Good DEF Waiting, Good1, Frames1, Explored
  <2>3. n \in sys.states
    BY <1>0, <2>1, <2>2, NextStatesType
  <2> DEFINE g == Frame1(n, Target(f))
  <2>4. g \in Good1 /\ g.at = "edges"
    BY <2>2, <2>3 DEF Frame1, Good1, Frames1, Explored
  <2>5. dfs1' = Append(dfs1, g) /\ allocated' = allocated \cup {n}
    BY <1>4 DEF Dfs1Succ
  <2> HIDE DEF g, n
  <2>6. Calls(dfs1', Good1, Waiting) /\ Top(dfs1').at = "edges"
    BY <2>1, <2>2, <2>4, <2>5, CallsAppend DEF Nested
  <2> QED
    BY <1>4, <1>i, <1>g, <2>1, <2>3, <2>5, <2>6 DEF Dfs1Succ, Nested
<1>5. CASE Dfs1SuccsDone
  <2> DEFINE f == Top(dfs1)
             g == [f EXCEPT !.at = "nested"]
             h == [f EXCEPT !.t = @ + 1, !.at = "edges"]
  <2>1. /\ f \in Good1 /\ f.at = "succs" /\ dfs1 # <<>> /\ dfs2 = <<>> /\ phase = "search"
    BY <1>5, Top1Good DEF Dfs1SuccsDone, Searching1
  <2>2. f.sys \in sys.states /\ Target(f) \in aut.states /\ Pair(f) \in Pairs
    BY <2>1, Top1Good DEF Good1, Frames1, Explored, Pair, Pairs
  <2>3. g \in Good1 /\ h \in Good1 /\ g.at = "nested" /\ h.at = "edges"
    <3>1. g \in Frames1 /\ g.t = f.t /\ g.from = f.from /\ g.at = "nested"
      BY <2>1 DEF Good1, Frames1
    <3>2. h \in Frames1 /\ h.at = "edges"
      BY <2>1, LeaveFrame DEF Good1
    <3> QED
      BY <2>1, <3>1, <3>2 DEF Good1, Explored
  <2>4. Frame2(f.sys, Target(f)) \in Good2
    BY <2>2 DEF Frame2, Good2, Frames2
  <2> HIDE DEF g, h
  <2>5. CASE Target(f) \in aut.acc
    <3>1. /\ dfs1' = SetTop(dfs1, g) /\ dfs2' = <<Frame2(f.sys, Target(f))>>
          /\ dfs2Seen' = dfs2Seen \cup {Pair(f)} /\ UNCHANGED onDfs1Stack
      BY <1>5, <2>5 DEF Dfs1SuccsDone, g
    <3>2. Calls(dfs1', Good1, Waiting) /\ Top(dfs1').at = "nested" /\ dfs1' # <<>>
      BY <2>1, <2>3, <3>1, CallsSetTop DEF Nested
    <3>3. Calls(dfs2', Good2, Busy) /\ dfs2' # <<>>
      BY <2>4, <3>1, CallsSingleton
    <3> QED
      BY <1>5, <1>i, <1>g, <2>1, <2>2, <3>1, <3>2, <3>3 DEF Dfs1SuccsDone, Nested
  <2>6. CASE Target(f) \notin aut.acc
    <3>1. dfs1' = SetTop(dfs1, h) /\ onDfs1Stack' = onDfs1Stack \ {Pair(f)}
          /\ UNCHANGED <<dfs2, dfs2Seen>>
      BY <1>5, <2>6 DEF Dfs1SuccsDone, LeavePair, h
    <3>2. Calls(dfs1', Good1, Waiting) /\ Top(dfs1').at = "edges"
      BY <2>1, <2>3, <3>1, CallsSetTop DEF Nested
    <3> QED
      BY <1>5, <1>i, <1>g, <2>1, <3>1, <3>2 DEF Dfs1SuccsDone, Nested
  <2> QED
    BY <2>5, <2>6
<1>6. CASE Dfs1Return
  <2> DEFINE rest == Pop(dfs1)
             c == Top(rest)
             g == [c EXCEPT !.i = @ + 1]
  <2>1. dfs1 # <<>> /\ dfs2 = <<>> /\ phase = "search"
        /\ dfs1' = IF rest = <<>> THEN rest ELSE SetTop(rest, g)
    BY <1>6 DEF Dfs1Return, Searching1
  <2>2. Calls(rest, Good1, Waiting) /\ (rest # <<>> => c \in Waiting)
    BY <2>1, CallsPop DEF Nested
  <2>3. c \in Waiting => g \in Waiting /\ g \in Good1 /\ g.at = "succs"
    BY DEF Waiting, Good1, Frames1, Explored
  <2> HIDE DEF rest, g, c
  <2>4. Calls(dfs1', Good1, Waiting) /\ (dfs1' # <<>> => Top(dfs1').at = "succs")
    <3>1. CASE rest = <<>>
      BY <2>1, <2>2, <3>1
    <3>2. CASE rest # <<>>
      BY <2>1, <2>2, <2>3, <3>2, CallsSetTop
    <3> QED
      BY <3>1, <3>2
  <2> QED
    BY <1>6, <1>i, <1>g, <2>1, <2>4 DEF Dfs1Return, Nested
<1>7. CASE Dfs2Succ
  <2> DEFINE f == Top(dfs2)
             g == [f EXCEPT !.t = 1]
  <2>1. f \in Good2 /\ dfs2 # <<>> /\ phase = "search" /\ f.i \in DOMAIN NextStates(f.sys)
    BY <1>7, Top2Good DEF Dfs2Succ, Searching2
  <2>2. g \in Good2
    <3>1. g \in Frames2 /\ g.i = f.i /\ g.sys = f.sys
      BY <2>1 DEF Good2, Frames2
    <3> QED
      BY <2>1, <3>1 DEF Good2
  <2>3. dfs2' = SetTop(dfs2, g)
    BY <1>7 DEF Dfs2Succ
  <2> HIDE DEF g
  <2>4. Calls(dfs2', Good2, Busy) /\ dfs2' # <<>>
    BY <2>1, <2>2, <2>3, CallsSetTop DEF Nested
  <2> QED
    BY <1>7, <1>i, <1>g, <2>1, <2>4 DEF Dfs2Succ, Nested
<1>8. CASE Dfs2Edge
  <2> DEFINE f == Top(dfs2)
             n == Next2(f)
             g == Frame2(n, Target2(f))
             h == [f EXCEPT !.t = @ + 1]
  <2>1. /\ f \in Good2 /\ dfs2 # <<>> /\ dfs1 # <<>> /\ phase = "search"
        /\ f.t \in DOMAIN Transitions(f.prop)
    BY <1>8, Top2Good DEF Dfs2Edge, Searching2, Nested
  <2>2. f.prop \in aut.states /\ f.t \in Nat \ {0} /\ f \in Busy
    BY <2>1, AutomataAssumption DEF Good2, Busy, Frames2, Nested, Transitions
  <2>3. n \in sys.states /\ Target2(f) \in aut.states
    BY <1>0, <2>1, <2>2, Top2Good, TransitionType DEF Good2, Target2
  <2>4. g \in Good2
    BY <2>3 DEF Frame2, Good2, Frames2
  <2>5. h \in Good2
    BY <2>1, <2>2, NextEdge2 DEF Good2
  <2>6. /\ \/ /\ dfs2' = dfs2 /\ phase' = "unwind"
           \/ /\ dfs2' = Append(dfs2, g) \/ dfs2' = SetTop(dfs2, h)
              /\ phase' = phase
        /\ dfs2Seen' = dfs2Seen \cup {<<n, Target2(f)>>} \/ dfs2Seen' = dfs2Seen
    BY <1>8 DEF Dfs2Edge
  <2>7. UNCHANGED <<nextInit, dfs1, allocated, dfs1Seen, onDfs1Stack, path, cycle>>
    BY <1>8 DEF Dfs2Edge
  <2> HIDE DEF f, g, h, n
  <2>8. Calls(dfs2', Good2, Busy) /\ dfs2' # <<>>
    <3>1. Calls(dfs2, Good2, Busy) /\ Top(dfs2) \in Busy
      BY <2>2 DEF Nested, f
    <3>2. CASE dfs2' = dfs2
      BY <2>1, <3>1, <3>2
    <3>3. CASE dfs2' = Append(dfs2, g)
      BY <2>1, <2>4, <3>1, <3>3, CallsAppend
    <3>4. CASE dfs2' = SetTop(dfs2, h)
      BY <2>1, <2>5, <3>1, <3>4, CallsSetTop
    <3> QED
      BY <2>6, <3>2, <3>3, <3>4
  <2>9. dfs2Seen' \subseteq Pairs
    BY <2>3, <2>6 DEF Nested, Pairs
  <2> QED
    BY <1>i, <1>g, <2>1, <2>6, <2>7, <2>8, <2>9 DEF Nested
<1>9. CASE Dfs2EdgesDone
  <2> DEFINE f == Top(dfs2)
             h == [f EXCEPT !.t = 0, !.i = @ + 1]
  <2>1. f \in Good2 /\ dfs2 # <<>> /\ phase = "search"
    BY <1>9, Top2Good DEF Dfs2EdgesDone, Searching2
  <2>2. h \in Good2
    BY <2>1, NextSuccessor2 DEF Good2
  <2>3. dfs2' = SetTop(dfs2, h)
    BY <1>9 DEF Dfs2EdgesDone
  <2> HIDE DEF h
  <2>4. Calls(dfs2', Good2, Busy) /\ dfs2' # <<>>
    BY <2>1, <2>2, <2>3, CallsSetTop DEF Nested
  <2> QED
    BY <1>9, <1>i, <1>g, <2>1, <2>4 DEF Dfs2EdgesDone, Nested
<1>10. CASE Dfs2Return
  <2> DEFINE rest == Pop(dfs2)
             c == Top(rest)
             g == [c EXCEPT !.t = @ + 1]
             f == Top(dfs1)
             h == [f EXCEPT !.t = @ + 1, !.at = "edges"]
  <2>1. dfs2 # <<>> /\ dfs1 # <<>> /\ phase = "search" /\ f \in Good1
    BY <1>10, Top1Good DEF Dfs2Return, Searching2, Nested
  <2>2. Calls(rest, Good2, Busy) /\ (rest # <<>> => c \in Busy)
    BY <2>1, CallsPop DEF Nested
  <2>3. CASE rest = <<>>
    <3>1. dfs2' = <<>> /\ dfs1' = SetTop(dfs1, h) /\ onDfs1Stack' = onDfs1Stack \ {Pair(f)}
      BY <1>10, <2>3 DEF Dfs2Return, LeavePair
    <3>2. h \in Good1 /\ h.at = "edges"
      BY <2>1, LeaveFrame DEF Good1, Explored
    <3> HIDE DEF h
    <3>3. Calls(dfs1', Good1, Waiting) /\ Top(dfs1').at = "edges"
      BY <2>1, <3>1, <3>2, CallsSetTop DEF Nested
    <3>4. Calls(dfs2', Good2, Busy)
      BY <2>2, <2>3, <3>1
    <3> QED
      BY <1>10, <1>i, <1>g, <2>1, <3>1, <3>3, <3>4 DEF Dfs2Return, Nested
  <2>4. CASE rest # <<>>
    <3>1. dfs2' = SetTop(rest, g) /\ dfs1' = dfs1 /\ onDfs1Stack' = onDfs1Stack
      BY <1>10, <2>4 DEF Dfs2Return
    <3>2. g \in Good2
      BY <2>2, <2>4, NextEdge2 DEF Busy, Good2
    <3> HIDE DEF g, rest
    <3>3. Calls(dfs2', Good2, Busy) /\ dfs2' # <<>>
      BY <2>2, <2>4, <3>1, <3>2, CallsSetTop
    <3> QED
      BY <1>10, <1>i, <1>g, <2>1, <3>1, <3>3 DEF Dfs2Return, Nested
  <2> QED
    BY <2>3, <2>4
<1>11. CASE Unwind2
  <2>1. dfs2 # <<>> /\ phase = "unwind" /\ dfs2' = Pop(dfs2) /\ Top(dfs2) \in Good2
    BY <1>11, Top2Good DEF Unwind2
  <2>2. Calls(dfs2', Good2, Busy)
    BY <2>1, CallsPop DEF Nested
  <2>3. Top(dfs2).sys \in sys.states
    BY <2>1 DEF Good2, Frames2
  <2>4. path' \in Seq(sys.states)
    BY <1>11, <2>3, SingletonLemma, ConcatProperties DEF Unwind2, Nested
  <2> QED
    BY <1>11, <1>i, <1>g, <2>1, <2>2, <2>4 DEF Unwind2, Nested
<1>12. CASE Unwind1
  <2> DEFINE longer == <<Top(dfs1).sys>> \o path
  <2>1. dfs1 # <<>> /\ phase = "unwind" /\ dfs1' = Pop(dfs1) /\ Top(dfs1) \in Good1
    BY <1>12, Top1Good DEF Unwind1
  <2>2. Calls(dfs1', Good1, Waiting)
    BY <2>1, CallsPop DEF Nested
  <2>3. Top(dfs1).sys \in sys.states
    BY <2>1 DEF Good1, Frames1
  <2>4. longer \in Seq(sys.states)
    BY <2>3, SingletonLemma, ConcatProperties DEF Nested
  <2>5. path' \in Seq(sys.states) /\ cycle' \in Seq(sys.states)
    BY <1>12, <2>4 DEF Unwind1, Nested
  <2> QED
    BY <1>12, <1>i, <1>g, <2>1, <2>2, <2>5 DEF Unwind1, Nested
<1>13. CASE Found
  BY <1>13, <1>i, <1>g DEF Found, Nested
<1>14. CASE UNCHANGED vars
  BY <1>14, <1>i, <1>g DEF vars, Nested
<1> QED
  BY <1>1, <1>2, <1>3, <1>4, <1>5, <1>6, <1>7, <1>8, <1>9, <1>10, <1>11, <1>12, <1>13, <1>14
     DEF Next, Search1, Search2, Answer, Done

(* Every state of every search is typed and its recursion well nested.     *)
THEOREM TypeCorrect == Spec => []TypeOK
<1>1. Init => Nested
  BY NestedInit
<1>2. Nested /\ [Next]_vars => Nested'
  BY NestedStep
<1>3. Nested => TypeOK
  BY NestedImpliesTyped
<1> QED
  BY <1>1, <1>2, <1>3, PTL DEF Spec

(* The two stacks are those of the mutual recursion: a waiting activation  *)
(* resumes where it called, with what it had chosen still there, and the   *)
(* second search runs exactly while the first one waits for it.            *)
THEOREM RecursionWellNested == Spec => []WellNested
<1>1. Init => Nested
  BY NestedInit
<1>2. Nested /\ [Next]_vars => Nested'
  BY NestedStep
<1>3. Nested => WellNested
  BY NestedImpliesTyped
<1> QED
  BY <1>1, <1>2, <1>3, PTL DEF Spec

----------------------------------------------------------------------------
(* The proposition caches.                                                 *)
CachesOK == /\ PropositionCacheFaithful
            /\ \A x \in testedProps : x = <<x[1], x[2]>>

(* What the caches say of a state, completed by fresh tests, is its label. *)
LEMMA ValuationIsLabel ==
  ASSUME CachesOK, NEW s
  PROVE  Valuation(s) = sys.label[s]
<1>1. ASSUME NEW p \in Valuation(s) PROVE p \in sys.label[s]
  <2>1. p \in sys.label[s] \/ \E x \in trueProps : x[1] = s /\ x[2] = p
    BY DEF Valuation
  <2> QED
    BY <2>1 DEF CachesOK, PropositionCacheFaithful
<1>2. ASSUME NEW p \in sys.label[s] PROVE p \in Valuation(s)
  <2>1. CASE <<s, p>> \in testedProps
    <3>1. <<s, p>> \in trueProps
      BY <2>1 DEF CachesOK, PropositionCacheFaithful
    <3> QED
      BY <3>1 DEF Valuation
  <2>2. CASE <<s, p>> \notin testedProps
    BY <2>2 DEF Valuation
  <2> QED
    BY <2>1, <2>2
<1> QED
  BY <1>1, <1>2

(* The branch the search follows is the one the labels select.             *)
LEMMA BranchIsRight ==
  ASSUME Nested, CachesOK, NEW s \in sys.states, NEW q \in aut.states,
         NEW t \in DOMAIN Transitions(q)
  PROVE  LET guard == Transitions(q)[t].guard
             b == Branch(s, guard)
         IN  b \in guard /\ b.on \subseteq sys.label[s] /\ b.off \cap sys.label[s] = {}
<1> DEFINE guard == Transitions(q)[t].guard
<1>1. \E b \in guard : b.on \subseteq sys.label[s] /\ b.off \cap sys.label[s] = {}
  BY GuardsAssumption DEF Nested, Transitions
<1>2. Branch(s, guard) = CHOOSE b \in guard : b.on \subseteq sys.label[s]
                                               /\ b.off \cap sys.label[s] = {}
  BY ValuationIsLabel DEF Branch
<1> QED
  BY <1>1, <1>2

LEMMA RememberOK ==
  ASSUME Nested, CachesOK, NEW s \in sys.states, NEW q \in aut.states,
         NEW t \in DOMAIN Transitions(q), Remember(s, Transitions(q)[t].guard), sys' = sys
  PROVE  CachesOK'
<1> DEFINE b == Branch(s, Transitions(q)[t].guard)
<1>1. b.on \subseteq sys.label[s] /\ b.off \cap sys.label[s] = {}
  BY BranchIsRight
<1>2. /\ testedProps' = testedProps \cup {<<s, p>> : p \in b.on \cup b.off}
      /\ trueProps' = trueProps \cup {<<s, p>> : p \in b.on}
  BY DEF Remember
<1> HIDE DEF b
<1>3. \A x \in testedProps' : x = <<x[1], x[2]>>
  BY <1>2 DEF CachesOK
<1>4. ASSUME NEW x \in trueProps' PROVE x \in testedProps' /\ x[2] \in sys.label[x[1]]
  BY <1>1, <1>2 DEF CachesOK, PropositionCacheFaithful
<1>5. ASSUME NEW x \in testedProps', x[2] \in sys.label[x[1]] PROVE x \in trueProps'
  <2>1. CASE x \in testedProps
    BY <1>2, <1>5, <2>1 DEF CachesOK, PropositionCacheFaithful
  <2>2. CASE x \notin testedProps
    <3>1. PICK p \in b.on \cup b.off : x = <<s, p>>
      BY <1>2, <2>2
    <3>2. p \in b.on
      BY <1>1, <1>5, <3>1
    <3> QED
      BY <1>2, <3>1, <3>2
  <2> QED
    BY <2>1, <2>2
<1> QED
  BY <1>3, <1>4, <1>5 DEF CachesOK, PropositionCacheFaithful

LEMMA CachesStep == Nested /\ CachesOK /\ [Next]_vars => CachesOK'
<1> SUFFICES ASSUME Nested, CachesOK, [Next]_vars PROVE CachesOK'
  OBVIOUS
<1>1. CASE Dfs1Edge
  <2> DEFINE f == Top(dfs1)
  <2>1. /\ Remember(f.sys, Transitions(f.from)[f.t].guard) /\ sys' = sys
        /\ f.t \in DOMAIN Transitions(f.from) /\ dfs1 # <<>>
    BY <1>1 DEF Dfs1Edge, Guard, Searching1, instance
  <2>2. f.sys \in sys.states /\ f.from \in aut.states
    BY <2>1, Top1Good DEF Good1, Frames1
  <2> QED
    BY <2>1, <2>2, RememberOK
<1>2. CASE Dfs2Edge
  <2> DEFINE f == Top(dfs2)
  <2>1. /\ Remember(Next2(f), Transitions(f.prop)[f.t].guard) /\ sys' = sys
        /\ f.t \in DOMAIN Transitions(f.prop) /\ dfs2 # <<>>
    BY <1>2 DEF Dfs2Edge, Searching2, instance
  <2>2. f.prop \in aut.states /\ f.t # 0
    BY <2>1, Top2Good, AutomataAssumption DEF Good2, Frames2, Nested, Transitions
  <2>3. Next2(f) \in sys.states
    BY <2>1, <2>2, Top2Good DEF Good2
  <2> QED
    BY <2>1, <2>2, <2>3, RememberOK
<1>3. CASE UNCHANGED <<sys, testedProps, trueProps>>
  BY <1>3 DEF CachesOK, PropositionCacheFaithful
<1> QED
  BY <1>1, <1>2, <1>3 DEF Next, Search1, Search2, Answer, Done, vars, instance, caches,
     StartFromInitial, Dfs1Succ, Dfs1SuccsDone, Dfs1Return, Dfs2Succ, Dfs2EdgesDone, Dfs2Return,
     Unwind2, Unwind1, Found, NoCounterexample

(* Whatever the order in which two searches meet the states and the        *)
(* guards, the remembered propositions are those that checkProposition     *)
(* reports.                                                                *)
THEOREM CachesFaithful == Spec => []PropositionCacheFaithful
<1>1. Init => Nested /\ CachesOK
  BY NestedInit DEF Init, CachesOK, PropositionCacheFaithful
<1>2. Nested /\ CachesOK /\ [Next]_vars => (Nested /\ CachesOK)'
  BY NestedStep, CachesStep
<1>3. CachesOK => PropositionCacheFaithful
  BY DEF CachesOK
<1> QED
  BY <1>1, <1>2, <1>3, PTL DEF Spec

----------------------------------------------------------------------------
(* The marks of the first stack.                                           *)
PairsOf(st) == {Pair(st[k]) : k \in {j \in DOMAIN st : Explored(st[j])}}
Distinct(st) ==
  \A j, k \in DOMAIN st :
    Explored(st[j]) /\ Explored(st[k]) /\ Pair(st[j]) = Pair(st[k]) => j = k

(* What replacing the innermost frame does to the set of pairs, by whether *)
(* the old and the new frame hold a pair.                                  *)
LEMMA PairsSetTop ==
  ASSUME NEW S, NEW st \in Seq(S), st # <<>>, NEW g \in S, Distinct(st)
  PROVE  LET new == SetTop(st, g)
             f == Top(st)
         IN  /\ ~Explored(f) /\ Explored(g) /\ Pair(g) \notin PairsOf(st)
                  => PairsOf(new) = PairsOf(st) \cup {Pair(g)} /\ Distinct(new)
             /\ Explored(f) /\ ~Explored(g)
                  => PairsOf(new) = PairsOf(st) \ {Pair(f)} /\ Distinct(new)
             /\ ~Explored(f) /\ ~Explored(g) => PairsOf(new) = PairsOf(st) /\ Distinct(new)
             /\ Explored(f) /\ Explored(g) /\ Pair(f) = Pair(g)
                  => PairsOf(new) = PairsOf(st) /\ Distinct(new)
<1> DEFINE new == SetTop(st, g)
           f == Top(st)
           n == Len(st)
           low == {Pair(st[k]) : k \in {j \in 1 .. n - 1 : Explored(st[j])}}
<1>1. /\ n \in Nat \ {0} /\ f = st[n] /\ DOMAIN st = 1 .. n /\ DOMAIN new = 1 .. n
      /\ new[n] = g /\ \A k \in 1 .. n - 1 : new[k] = st[k]
  <2>1. /\ n \in Nat \ {0} /\ f = st[n] /\ new \in Seq(S) /\ Len(new) = n /\ Top(new) = g
        /\ new # <<>> /\ \A k \in 1 .. n - 1 : new[k] = st[k]
    BY TopLemma, SetTopLemma
  <2> HIDE DEF new, n
  <2>2. Top(new) = new[n] /\ DOMAIN new = 1 .. n
    BY <2>1, TopLemma
  <2>3. DOMAIN st = 1 .. n
    BY DEF n
  <2> QED
    BY <2>1, <2>2, <2>3
<1> HIDE DEF new, f, n
<1>2. \A k \in 1 .. n : k = n \/ k \in 1 .. n - 1
  BY <1>1
<1>3. PairsOf(st) = IF Explored(f) THEN low \cup {Pair(f)} ELSE low
  BY <1>1, <1>2 DEF PairsOf
<1>4. PairsOf(new) = IF Explored(g) THEN low \cup {Pair(g)} ELSE low
  BY <1>1, <1>2 DEF PairsOf
<1>5. Explored(f) => Pair(f) \notin low
  BY <1>1, <1>2 DEF Distinct
<1>6. (Explored(g) => Pair(g) \notin low) => Distinct(new)
  <2> SUFFICES ASSUME Explored(g) => Pair(g) \notin low,
                      NEW j \in 1 .. n, NEW k \in 1 .. n, Explored(new[j]), Explored(new[k]),
                      Pair(new[j]) = Pair(new[k])
               PROVE  j = k
    BY <1>1 DEF Distinct
  <2>1. CASE j = n /\ k \in 1 .. n - 1
    BY <1>1, <2>1
  <2>2. CASE k = n /\ j \in 1 .. n - 1
    BY <1>1, <2>2
  <2>3. CASE j \in 1 .. n - 1 /\ k \in 1 .. n - 1
    BY <1>1, <2>3 DEF Distinct
  <2> QED
    BY <1>2, <2>1, <2>2, <2>3
<1> QED
  BY <1>3, <1>4, <1>5, <1>6 DEF new, f

LEMMA PairsAppend ==
  ASSUME NEW S, NEW st \in Seq(S), NEW g \in S, Distinct(st), ~Explored(g)
  PROVE  PairsOf(Append(st, g)) = PairsOf(st) /\ Distinct(Append(st, g))
<1> DEFINE new == Append(st, g)
           n == Len(st)
<1>1. /\ n \in Nat /\ DOMAIN st = 1 .. n /\ DOMAIN new = 1 .. n + 1
      /\ new[n + 1] = g /\ \A k \in 1 .. n : new[k] = st[k]
  BY AppendProperties
<1> HIDE DEF new, n
<1>2. \A k \in 1 .. n + 1 : k = n + 1 \/ k \in 1 .. n
  BY <1>1
<1> QED
  BY <1>1, <1>2 DEF PairsOf, Distinct, new

LEMMA PairsPop ==
  ASSUME NEW S, NEW st \in Seq(S), st # <<>>, Distinct(st)
  PROVE  /\ ~Explored(Top(st)) => PairsOf(Pop(st)) = PairsOf(st)
         /\ Distinct(Pop(st))
<1> DEFINE new == Pop(st)
           n == Len(st)
<1>1. /\ n \in Nat \ {0} /\ DOMAIN st = 1 .. n /\ DOMAIN new = 1 .. n - 1 /\ Top(st) = st[n]
      /\ \A k \in 1 .. n - 1 : new[k] = st[k]
  BY TopLemma, PopLemma
<1> HIDE DEF new, n
<1>2. \A k \in 1 .. n : k = n \/ k \in 1 .. n - 1
  BY <1>1
<1> QED
  BY <1>1, <1>2 DEF PairsOf, Distinct, new

LEMMA MarksStep == Nested /\ StackMarksExact /\ [Next]_vars => StackMarksExact'
<1> SUFFICES ASSUME Nested, StackMarksExact, [Next]_vars PROVE StackMarksExact'
  OBVIOUS
<1> USE DEF instance, caches, result
<1>0. dfs1 \in Seq(Good1) /\ Distinct(dfs1)
      /\ (phase = "search" => onDfs1Stack = PairsOf(dfs1) /\ onDfs1Stack \subseteq dfs1Seen)
  BY DEF Nested, Calls, StackMarksExact, Distinct, PairsOf, Dfs1Pairs
<1>i. sys' = sys /\ aut' = aut
  BY InstanceFixed
<1>m. SUFFICES /\ Distinct(dfs1')
               /\ phase' = "search" => onDfs1Stack' = PairsOf(dfs1') /\ onDfs1Stack' \subseteq dfs1Seen'
  BY <1>i DEF StackMarksExact, Distinct, PairsOf, Dfs1Pairs, Pair, Target, Transitions, Explored
<1>e. PairsOf(<<>>) = {} /\ Distinct(<<>>)
  BY DEF PairsOf, Distinct
(* Leaving the pair of the innermost activation.                           *)
<1>l. ASSUME LeavePair(Top(dfs1)), dfs1 # <<>>, Explored(Top(dfs1)), phase = "search"
      PROVE  Distinct(dfs1') /\ onDfs1Stack' = PairsOf(dfs1') /\ onDfs1Stack' \subseteq dfs1Seen
  <2> DEFINE f == Top(dfs1)
             h == [f EXCEPT !.t = @ + 1, !.at = "edges"]
  <2>1. h \in Good1 /\ ~Explored(h)
    BY <1>l, Top1Good, LeaveFrame DEF Good1, Explored
  <2>2. dfs1' = SetTop(dfs1, h) /\ onDfs1Stack' = onDfs1Stack \ {Pair(f)}
    BY <1>l DEF LeavePair
  <2> HIDE DEF h
  <2>3. PairsOf(dfs1') = PairsOf(dfs1) \ {Pair(f)} /\ Distinct(dfs1')
    BY <1>0, <1>l, <2>1, <2>2, PairsSetTop
  <2> QED
    BY <1>0, <1>l, <2>2, <2>3
<1>1. CASE StartFromInitial
  <2> DEFINE f == Frame1(0, aut.init[nextInit])
  <2>1. ~Explored(f)
    BY DEF Explored, Frame1
  <2> HIDE DEF f
  <2>2. dfs1' = <<f>> /\ dfs1 = <<>> /\ UNCHANGED <<phase, onDfs1Stack, dfs1Seen>>
    BY <1>1 DEF StartFromInitial, f
  <2>3. DOMAIN <<f>> = {1} /\ <<f>>[1] = f
    OBVIOUS
  <2>4. PairsOf(<<f>>) = {} /\ Distinct(<<f>>)
    BY <2>1, <2>3 DEF PairsOf, Distinct
  <2> QED
    BY <1>0, <1>e, <2>2, <2>4
<1>2. CASE Dfs1Edge
  <2> DEFINE f == Top(dfs1)
             g == [f EXCEPT !.at = "succs", !.i = 1]
             h == [f EXCEPT !.t = @ + 1]
  <2>1. /\ f \in Good1 /\ ~Explored(f) /\ dfs1 # <<>> /\ phase = "search" /\ phase' = phase
        /\ f.t \in DOMAIN Transitions(f.from) /\ f.at = "edges"
    BY <1>2, Top1Good DEF Dfs1Edge, Searching1, Explored
  <2>2. /\ g \in Good1 /\ Explored(g) /\ Pair(g) = Pair(f)
        /\ h \in Good1 /\ ~Explored(h)
    <3>1. g \in Frames1 /\ g.t = f.t /\ g.from = f.from /\ g.sys = f.sys /\ g.at = "succs"
      BY <2>1 DEF Good1, Frames1
    <3>2. h \in Frames1 /\ h.at = "edges"
      BY <2>1 DEF Good1, Frames1
    <3> QED
      BY <2>1, <3>1, <3>2 DEF Good1, Explored, Pair, Target
  <2>3. \/ /\ dfs1' = SetTop(dfs1, g) /\ Pair(f) \notin dfs1Seen
           /\ onDfs1Stack' = onDfs1Stack \cup {Pair(f)} /\ dfs1Seen' = dfs1Seen \cup {Pair(f)}
        \/ dfs1' = SetTop(dfs1, h) /\ UNCHANGED <<onDfs1Stack, dfs1Seen>>
    BY <1>2 DEF Dfs1Edge
  <2> HIDE DEF f, g, h
  <2>4. CASE dfs1' = SetTop(dfs1, g) /\ Pair(f) \notin dfs1Seen
             /\ onDfs1Stack' = onDfs1Stack \cup {Pair(f)} /\ dfs1Seen' = dfs1Seen \cup {Pair(f)}
    <3>1. Pair(g) \notin PairsOf(dfs1)
      BY <1>0, <2>1, <2>2, <2>4
    <3>2. PairsOf(dfs1') = PairsOf(dfs1) \cup {Pair(g)} /\ Distinct(dfs1')
      BY <1>0, <2>1, <2>2, <2>4, <3>1, PairsSetTop DEF f
    <3> QED
      BY <1>0, <2>1, <2>2, <2>4, <3>2
  <2>5. CASE dfs1' = SetTop(dfs1, h) /\ UNCHANGED <<onDfs1Stack, dfs1Seen>>
    <3>1. PairsOf(dfs1') = PairsOf(dfs1) /\ Distinct(dfs1')
      BY <1>0, <2>1, <2>2, <2>5, PairsSetTop DEF f
    <3> QED
      BY <1>0, <2>1, <2>5, <3>1
  <2> QED
    BY <2>3, <2>4, <2>5
<1>3. CASE Dfs1Succ
  <2> DEFINE f == Top(dfs1)
             g == Frame1(NextStates(f.sys)[f.i], Target(f))
  <2>1. dfs1' = Append(dfs1, g) /\ UNCHANGED <<phase, onDfs1Stack, dfs1Seen>>
    BY <1>3 DEF Dfs1Succ
  <2>2. ~Explored(g)
    BY DEF Frame1, Explored
  <2>3. f \in Good1 /\ Explored(f) /\ f.i \in DOMAIN NextStates(f.sys) /\ TypeOK
    BY <1>3, Top1Good, NestedImpliesTyped DEF Dfs1Succ, Searching1, SuccessorsDone, Explored
  <2>4. f.sys \in sys.states /\ Target(f) \in aut.states
    BY <1>3, <2>3, Top1Good DEF Good1, Frames1, Dfs1Succ, Searching1
  <2>5. g \in Good1
    BY <2>2, <2>3, <2>4, NextStatesType DEF Frame1, Good1, Frames1
  <2> HIDE DEF g
  <2>6. PairsOf(dfs1') = PairsOf(dfs1) /\ Distinct(dfs1')
    BY <1>0, <2>1, <2>2, <2>5, PairsAppend
  <2> QED
    BY <1>0, <2>1, <2>6
<1>4. CASE Dfs1SuccsDone
  <2> DEFINE f == Top(dfs1)
             g == [f EXCEPT !.at = "nested"]
  <2>1. /\ f \in Good1 /\ f.at = "succs" /\ dfs1 # <<>> /\ phase = "search" /\ Explored(f)
        /\ UNCHANGED <<phase, dfs1Seen>>
    BY <1>4, Top1Good DEF Dfs1SuccsDone, Searching1, Explored
  <2>2. CASE LeavePair(f)
    BY <1>l, <2>1, <2>2
  <2>3. CASE dfs1' = SetTop(dfs1, g) /\ UNCHANGED onDfs1Stack
    <3>1. g \in Frames1 /\ g.t = f.t /\ g.from = f.from /\ g.sys = f.sys /\ g.at = "nested"
      BY <2>1 DEF Good1, Frames1
    <3>2. g \in Good1 /\ Explored(g) /\ Pair(f) = Pair(g)
      BY <2>1, <3>1 DEF Good1, Explored, Pair, Target
    <3> HIDE DEF g
    <3>3. PairsOf(dfs1') = PairsOf(dfs1) /\ Distinct(dfs1')
      BY <1>0, <2>1, <2>3, <3>2, PairsSetTop
    <3> QED
      BY <1>0, <2>1, <2>3, <3>3
  <2> QED
    BY <1>4, <2>2, <2>3 DEF Dfs1SuccsDone
<1>5. CASE Dfs1Return
  <2> DEFINE rest == Pop(dfs1)
             c == Top(rest)
             g == [c EXCEPT !.i = @ + 1]
  <2>1. /\ dfs1 # <<>> /\ ~Explored(Top(dfs1)) /\ UNCHANGED <<phase, onDfs1Stack, dfs1Seen>>
        /\ dfs1' = IF rest = <<>> THEN rest ELSE SetTop(rest, g)
    BY <1>5 DEF Dfs1Return, Searching1, Explored
  <2>2. /\ Calls(rest, Good1, Waiting) /\ (rest # <<>> => c \in Waiting)
        /\ PairsOf(rest) = PairsOf(dfs1) /\ Distinct(rest)
    BY <1>0, <2>1, CallsPop, PairsPop DEF Nested
  <2>3. c \in Waiting => g \in Frames1 /\ g.t = c.t /\ g.from = c.from /\ g.sys = c.sys /\ g.at = c.at
    BY DEF Waiting, Good1, Frames1
  <2>4. c \in Waiting => g \in Good1 /\ Explored(g) /\ Explored(c) /\ Pair(g) = Pair(c)
    BY <2>3 DEF Waiting, Good1, Explored, Pair, Target
  <2> HIDE DEF rest, g, c
  <2>5. PairsOf(dfs1') = PairsOf(dfs1) /\ Distinct(dfs1')
    <3>1. CASE rest = <<>>
      BY <2>1, <2>2, <3>1
    <3>2. CASE rest # <<>>
      <4>1. rest \in Seq(Good1) /\ c = Top(rest)
        BY <2>2 DEF Calls, c
      <4> QED
        BY <2>1, <2>2, <2>4, <3>2, <4>1, PairsSetTop
    <3> QED
      BY <3>1, <3>2
  <2> QED
    BY <1>0, <2>1, <2>5
<1>6. CASE Dfs2Return
  <2>1. /\ dfs1 # <<>> /\ Explored(Top(dfs1)) /\ phase = "search" /\ UNCHANGED <<phase, dfs1Seen>>
    BY <1>6 DEF Dfs2Return, Searching2, Nested, Explored
  <2>2. CASE LeavePair(Top(dfs1))
    BY <1>l, <2>1, <2>2
  <2>3. CASE UNCHANGED <<dfs1, onDfs1Stack>>
    BY <1>0, <2>1, <2>3
  <2> QED
    BY <1>6, <2>2, <2>3 DEF Dfs2Return
<1>7. CASE Unwind1
  <2>1. dfs1 # <<>> /\ dfs1' = Pop(dfs1) /\ phase' # "search"
    BY <1>7 DEF Unwind1
  <2> QED
    BY <1>0, <2>1, PairsPop
<1>8. CASE UNCHANGED <<dfs1, onDfs1Stack, dfs1Seen>> /\ (phase' = phase \/ phase' # "search")
  BY <1>0, <1>8
<1> QED
  BY <1>1, <1>2, <1>3, <1>4, <1>5, <1>6, <1>7, <1>8
     DEF Next, Search1, Search2, Answer, Done, vars, Dfs2Succ, Dfs2Edge, Dfs2EdgesDone, Unwind2,
         Found, NoCounterexample

(* The marks that the second search trusts are at every moment the pairs   *)
(* of the activations of the first one.                                    *)
THEOREM MarksExact == Spec => []StackMarksExact
<1>1. Init => Nested /\ StackMarksExact
  BY NestedInit DEF Init, StackMarksExact, Dfs1Pairs
<1>2. Nested /\ StackMarksExact /\ [Next]_vars => (Nested /\ StackMarksExact)'
  BY NestedStep, MarksStep
<1> QED
  BY <1>1, <1>2, PTL DEF Spec

----------------------------------------------------------------------------
(* The two stacks are a run.  A chain starts in B and goes from a frame to *)
(* the next by L.                                                          *)
Chain(st, S, B, L) ==
  /\ st \in Seq(S)
  /\ st # <<>> => st[1] \in B
  /\ \A k \in 1 .. Len(st) - 1 : <<st[k], st[k + 1]>> \in L

LEMMA ChainEmpty == ASSUME NEW S, NEW B, NEW L PROVE Chain(<<>>, S, B, L)
BY DEF Chain

LEMMA ChainSingleton ==
  ASSUME NEW S, NEW B, NEW L, NEW f \in S, f \in B
  PROVE  Chain(<<f>>, S, B, L)
BY SingletonLemma DEF Chain

LEMMA ChainSetTop ==
  ASSUME NEW S, NEW B, NEW L, NEW st, Chain(st, S, B, L), st # <<>>, NEW g \in S,
         Top(st) \in B => g \in B,
         \A c \in S : <<c, Top(st)>> \in L => <<c, g>> \in L
  PROVE  Chain(SetTop(st, g), S, B, L)
<1> DEFINE new == SetTop(st, g)
           n == Len(st)
<1>1. /\ n \in Nat \ {0} /\ Top(st) = st[n] /\ new \in Seq(S) /\ Len(new) = n /\ new # <<>>
      /\ \A k \in 1 .. n - 1 : new[k] = st[k]
  BY TopLemma, SetTopLemma DEF Chain
<1>s. \A k \in 1 .. n - 1 : st[k] \in S
  BY <1>1 DEF Chain
<1>2. new[n] = g
  <2>1. Top(new) = g
    BY SetTopLemma DEF Chain
  <2> HIDE DEF new, n
  <2> QED
    BY <1>1, <2>1 DEF Top
<1> HIDE DEF new
<1>3. /\ st[1] \in B /\ \A k \in 1 .. n - 1 : <<st[k], st[k + 1]>> \in L
  BY DEF Chain, n
<1> HIDE DEF n
<1>4. new[1] \in B
  <2>1. CASE n = 1
    BY <1>1, <1>2, <1>3, <2>1
  <2>2. CASE n # 1
    BY <1>1, <1>3, <2>2
  <2> QED
    BY <2>1, <2>2
<1>5. ASSUME NEW k \in 1 .. n - 1 PROVE <<new[k], new[k + 1]>> \in L
  <2>1. CASE k = n - 1
    <3>1. k + 1 = n /\ new[k] = st[k] /\ st[k] \in S /\ <<st[k], Top(st)>> \in L
      BY <1>1, <1>3, <1>s, <2>1
    <3> QED
      BY <1>2, <3>1
  <2>2. CASE k # n - 1
    <3>1. k + 1 \in 1 .. n - 1
      BY <1>1, <2>2
    <3> QED
      BY <1>1, <1>3, <3>1
  <2> QED
    BY <2>1, <2>2
<1> QED
  BY <1>1, <1>4, <1>5 DEF Chain, new

LEMMA ChainAppend ==
  ASSUME NEW S, NEW B, NEW L, NEW st, Chain(st, S, B, L), st # <<>>, NEW g \in S,
         <<Top(st), g>> \in L
  PROVE  Chain(Append(st, g), S, B, L)
<1> DEFINE new == Append(st, g)
           n == Len(st)
<1>1. /\ n \in Nat \ {0} /\ Top(st) = st[n] /\ new \in Seq(S) /\ Len(new) = n + 1
      /\ new[n + 1] = g /\ \A k \in 1 .. n : new[k] = st[k]
  BY TopLemma, AppendProperties DEF Chain
<1>2. st[1] \in B /\ \A k \in 1 .. n - 1 : <<st[k], st[k + 1]>> \in L
  BY DEF Chain
<1> HIDE DEF new, n
<1>3. ASSUME NEW k \in 1 .. n PROVE <<new[k], new[k + 1]>> \in L
  <2>1. CASE k = n
    BY <1>1, <2>1
  <2>2. CASE k # n
    BY <1>1, <1>2, <2>2
  <2> QED
    BY <2>1, <2>2
<1> QED
  BY <1>1, <1>2, <1>3 DEF Chain, new

LEMMA ChainPop ==
  ASSUME NEW S, NEW B, NEW L, NEW st, Chain(st, S, B, L), st # <<>>
  PROVE  Chain(Pop(st), S, B, L)
<1> DEFINE new == Pop(st)
           n == Len(st)
<1>1. /\ n \in Nat \ {0} /\ new \in Seq(S) /\ Len(new) = n - 1
      /\ \A k \in 1 .. n - 1 : new[k] = st[k]
  BY TopLemma, PopLemma DEF Chain
<1>2. st[1] \in B /\ \A k \in 1 .. n - 1 : <<st[k], st[k + 1]>> \in L
  BY DEF Chain
<1> HIDE DEF new, n
<1>3. new # <<>> => new[1] = st[1]
  BY <1>1
<1>4. ASSUME NEW k \in 1 .. (n - 1) - 1 PROVE <<new[k], new[k + 1]>> \in L
  BY <1>1, <1>2, SMTT(30)
<1> QED
  BY <1>1, <1>2, <1>3, <1>4 DEF Chain, new

(* The activations of the two searches, the roots of their stacks and the  *)
(* calls: StacksAreARun as two chains.                                     *)
Activations1 ==
  {f \in Good1 : Explored(f) => Target(f) \in Moves(aut, f.from, sys.label[f.sys])}
Roots1 == {f \in Activations1 : f.sys = 0}
Links1 ==
  {x \in Activations1 \X Activations1 :
     /\ Explored(x[1])
     /\ x[2].sys \in SuccessorSet(sys, x[1].sys) /\ x[2].from = Target(x[1])}
Roots2 == {f \in Good2 : dfs1 # <<>> /\ <<f.sys, f.prop>> = Pair(Top(dfs1))}
Links2 ==
  {x \in Good2 \X Good2 :
     <<x[2].sys, x[2].prop>> \in ProductSuccessors(sys, aut, <<x[1].sys, x[1].prop>>)}
Run1(st) == Chain(st, Activations1, Roots1, Links1)
Run2(st) == Chain(st, Good2, Roots2, Links2)
StacksRun == Run1(dfs1) /\ Run2(dfs2)

LEMMA StacksRunImplies == Nested /\ StacksRun => StacksAreARun
<1> SUFFICES ASSUME Nested, StacksRun PROVE StacksAreARun
  OBVIOUS
<1>1. ASSUME NEW k \in DOMAIN dfs1
      PROVE  LET f == dfs1[k]
             IN  /\ Explored(f) => Target(f) \in Moves(aut, f.from, sys.label[f.sys])
                 /\ IF k = 1 THEN f.sys = 0
                    ELSE /\ f.sys \in SuccessorSet(sys, dfs1[k - 1].sys)
                         /\ f.from = Target(dfs1[k - 1]) /\ Explored(dfs1[k - 1])
  <2>1. dfs1[k] \in Activations1 /\ k \in 1 .. Len(dfs1) /\ dfs1 # <<>>
    BY DEF StacksRun, Run1, Chain
  <2>2. CASE k = 1
    <3>1. dfs1[k] \in Roots1
      BY <2>1, <2>2 DEF StacksRun, Run1, Chain
    <3> QED
      BY <2>1, <2>2, <3>1 DEF Activations1, Roots1
  <2>3. CASE k # 1
    <3>1. k - 1 \in 1 .. Len(dfs1) - 1 /\ (k - 1) + 1 = k
      BY <2>1, <2>3
    <3>2. <<dfs1[k - 1], dfs1[k]>> \in Links1
      BY <3>1 DEF StacksRun, Run1, Chain
    <3> QED
      BY <2>1, <2>3, <3>2 DEF Activations1, Links1
  <2> QED
    BY <2>2, <2>3
<1>2. ASSUME NEW k \in DOMAIN dfs2
      PROVE  LET f == dfs2[k]
                 caller == IF k = 1 THEN Pair(Top(dfs1))
                           ELSE <<dfs2[k - 1].sys, dfs2[k - 1].prop>>
             IN  IF k = 1 THEN <<f.sys, f.prop>> = caller
                 ELSE <<f.sys, f.prop>> \in ProductSuccessors(sys, aut, caller)
  <2>1. k \in 1 .. Len(dfs2) /\ dfs2 # <<>>
    BY DEF StacksRun, Run2, Chain
  <2>2. CASE k = 1
    <3>1. dfs2[k] \in Roots2
      BY <2>1, <2>2 DEF StacksRun, Run2, Chain
    <3> QED
      BY <2>2, <3>1 DEF Roots2
  <2>3. CASE k # 1
    <3>1. k - 1 \in 1 .. Len(dfs2) - 1 /\ (k - 1) + 1 = k
      BY <2>1, <2>3
    <3>2. <<dfs2[k - 1], dfs2[k]>> \in Links2
      BY <3>1 DEF StacksRun, Run2, Chain
    <3> QED
      BY <2>3, <3>2 DEF Links2
  <2> QED
    BY <2>2, <2>3
<1> QED
  BY <1>1, <1>2 DEF StacksAreARun

(* Replacing an activation by one for the same pair of states.             *)
LEMMA Replace1 ==
  ASSUME NEW st, Run1(st), st # <<>>, NEW g \in Activations1,
         g.sys = Top(st).sys, g.from = Top(st).from
  PROVE  Run1(SetTop(st, g))
<1>1. Top(st) \in Roots1 => g \in Roots1
  BY DEF Roots1
<1>2. \A c \in Activations1 : <<c, Top(st)>> \in Links1 => <<c, g>> \in Links1
  BY DEF Links1
<1> QED
  BY <1>1, <1>2, ChainSetTop DEF Run1

LEMMA Replace2 ==
  ASSUME NEW st, Run2(st), st # <<>>, NEW g \in Good2,
         g.sys = Top(st).sys, g.prop = Top(st).prop
  PROVE  Run2(SetTop(st, g))
<1>1. Top(st) \in Roots2 => g \in Roots2
  BY DEF Roots2
<1>2. \A c \in Good2 : <<c, Top(st)>> \in Links2 => <<c, g>> \in Links2
  BY DEF Links2
<1> QED
  BY <1>1, <1>2, ChainSetTop DEF Run2

(* A guard that the search takes is one that the labels satisfy.           *)
LEMMA SatisfiedMoves ==
  ASSUME Nested, CachesOK, NEW s \in sys.states, NEW q \in aut.states,
         NEW t \in DOMAIN Transitions(q), Satisfies(s, Transitions(q)[t].guard)
  PROVE  Transitions(q)[t].to \in Moves(aut, q, sys.label[s])
<1> DEFINE guard == Transitions(q)[t].guard
           b == Branch(s, guard)
<1>1. b \in guard /\ b.on \subseteq sys.label[s] /\ b.off \cap sys.label[s] = {} /\ b.val
  BY BranchIsRight DEF Satisfies
<1>2. Models(sys.label[s], guard)
  BY <1>1 DEF Models
<1> QED
  BY <1>2 DEF Moves, Transitions

LEMMA NextIsSuccessor ==
  ASSUME NEW s, NEW i \in DOMAIN NextStates(s)
  PROVE  NextStates(s)[i] \in SuccessorSet(sys, s)
BY DEF NextStates, SuccessorSet, Successors


LEMMA StacksRunStep == Nested /\ CachesOK /\ StacksRun /\ [Next]_vars => StacksRun'
<1> SUFFICES ASSUME Nested, CachesOK, StacksRun, [Next]_vars PROVE StacksRun'
  OBVIOUS
<1> USE DEF instance, caches, result
<1>0. Run1(dfs1) /\ Run2(dfs2) /\ TypeOK
  BY NestedImpliesTyped DEF StacksRun
<1>i. sys' = sys /\ aut' = aut
  BY InstanceFixed
<1>g. Good1' = Good1 /\ Good2' = Good2
  BY <1>i DEF Good1, Good2, Frames1, Frames2, Explored, Transitions, NextStates
<1>h. Activations1' = Activations1 /\ Roots1' = Roots1 /\ Links1' = Links1 /\ Links2' = Links2
  BY <1>i, <1>g DEF Activations1, Roots1, Links1, Links2, Explored, Target, Transitions
(* The roots of the second stack only change with the first one.           *)
<1>r. dfs1' = dfs1 => Roots2' = Roots2
  BY <1>i, <1>g DEF Roots2, Pair, Target, Transitions
<1>m. SUFFICES /\ Run1(dfs1')
               /\ \/ dfs2' = <<>>
                  \/ dfs1' = dfs1 /\ Run2(dfs2')
                  \/ Chain(dfs2', Good2, Roots2', Links2)
  <2>1. Chain(dfs1', Activations1', Roots1', Links1') <=> Run1(dfs1')
    BY <1>h DEF Run1
  <2>2. dfs2' = <<>> => Chain(dfs2', Good2', Roots2', Links2')
    BY ChainEmpty
  <2>3. dfs1' = dfs1 /\ Run2(dfs2') => Chain(dfs2', Good2', Roots2', Links2')
    BY <1>g, <1>h, <1>r DEF Run2
  <2>4. Chain(dfs2', Good2, Roots2', Links2) => Chain(dfs2', Good2', Roots2', Links2')
    BY <1>g, <1>h
  <2> QED
    BY <2>1, <2>2, <2>3, <2>4 DEF StacksRun, Run1, Run2
<1>a. dfs1 # <<>> => Top(dfs1) \in Activations1
  BY <1>0, TopLemma DEF Run1, Chain
<1>b. dfs2 # <<>> => Top(dfs2) \in Good2
  BY Top2Good
(* Leaving the pair of the innermost activation.                           *)
<1>l. ASSUME LeavePair(Top(dfs1)), dfs1 # <<>> PROVE Run1(dfs1')
  <2> DEFINE f == Top(dfs1)
             h == [f EXCEPT !.t = @ + 1, !.at = "edges"]
  <2>1. f \in Frames1
    BY <1>l, <1>a DEF Activations1, Good1
  <2>2. h \in Frames1 /\ h.at = "edges" /\ h.sys = f.sys /\ h.from = f.from
    <3>1. h \in Frames1 /\ h.at = "edges"
      BY <2>1, LeaveFrame
    <3> QED
      BY <2>1, <3>1 DEF Frames1
  <2>3. dfs1' = SetTop(dfs1, h)
    BY <1>l DEF LeavePair
  <2> HIDE DEF h
  <2>4. h \in Activations1
    BY <2>2 DEF Activations1, Good1, Explored
  <2> QED
    BY <1>0, <1>l, <2>2, <2>3, <2>4, Replace1
<1>1. CASE StartFromInitial
  <2> DEFINE f == Frame1(0, aut.init[nextInit])
  <2>1. aut.init[nextInit] \in aut.states /\ 0 \in sys.states
    BY <1>1, SystemsAssumption, AutomataAssumption DEF StartFromInitial, Nested
  <2>2. f \in Roots1 /\ f \in Activations1
    BY <2>1 DEF Frame1, Roots1, Activations1, Good1, Frames1, Explored
  <2> HIDE DEF f
  <2>3. dfs1' = <<f>> /\ dfs2' = <<>>
    BY <1>1 DEF StartFromInitial, Nested, f
  <2>4. Run1(<<f>>)
    BY <2>2, ChainSingleton DEF Run1
  <2> QED
    BY <2>3, <2>4
<1>2. CASE Dfs1Edge
  <2> DEFINE f == Top(dfs1)
             g == [f EXCEPT !.at = "succs", !.i = 1]
             h == [f EXCEPT !.t = @ + 1]
  <2>1. /\ f \in Frames1 /\ dfs1 # <<>> /\ dfs2' = <<>> /\ f.at = "edges"
        /\ f.t \in DOMAIN Transitions(f.from)
    BY <1>2, <1>a DEF Dfs1Edge, Searching1, Activations1, Good1
  <2>2. /\ g \in Frames1 /\ g.t = f.t /\ g.from = f.from /\ g.sys = f.sys
        /\ h \in Frames1 /\ h.from = f.from /\ h.sys = f.sys /\ h.at = "edges"
    <3>1. g \in Frames1 /\ g.t = f.t /\ g.from = f.from /\ g.sys = f.sys
      BY <2>1 DEF Frames1
    <3>2. h \in Frames1 /\ h.from = f.from /\ h.sys = f.sys /\ h.at = "edges"
      BY <2>1 DEF Frames1
    <3> QED
      BY <3>1, <3>2
  <2>3. \/ Satisfies(f.sys, Transitions(f.from)[f.t].guard) /\ dfs1' = SetTop(dfs1, g)
        \/ dfs1' = SetTop(dfs1, h)
    BY <1>2 DEF Dfs1Edge, Guard
  <2>4. Satisfies(f.sys, Transitions(f.from)[f.t].guard)
          => Target(f) \in Moves(aut, f.from, sys.label[f.sys])
    BY <2>1, SatisfiedMoves DEF Frames1, Target
  <2> HIDE DEF g, h
  <2>5. CASE Satisfies(f.sys, Transitions(f.from)[f.t].guard) /\ dfs1' = SetTop(dfs1, g)
    <3>1. g \in Activations1
      BY <2>1, <2>2, <2>4, <2>5 DEF Activations1, Good1, Target
    <3>2. Run1(SetTop(dfs1, g))
      BY <1>0, <2>1, <2>2, <3>1, Replace1
    <3> QED
      BY <2>1, <2>5, <3>2
  <2>6. CASE dfs1' = SetTop(dfs1, h)
    <3>1. h \in Activations1
      BY <2>2 DEF Activations1, Good1, Explored
    <3>2. Run1(SetTop(dfs1, h))
      BY <1>0, <2>1, <2>2, <3>1, Replace1
    <3> QED
      BY <2>1, <2>6, <3>2
  <2> QED
    BY <2>3, <2>5, <2>6
<1>3. CASE Dfs1Succ
  <2> DEFINE f == Top(dfs1)
             n == NextStates(f.sys)[f.i]
             g == Frame1(n, Target(f))
  <2>1. /\ dfs1' = Append(dfs1, g) /\ dfs1 # <<>> /\ dfs2' = <<>> /\ f.at = "succs"
        /\ f.i \in DOMAIN NextStates(f.sys)
    BY <1>3 DEF Dfs1Succ, Searching1, SuccessorsDone
  <2>2. f \in Activations1 /\ Explored(f) /\ f.sys \in sys.states /\ Target(f) \in aut.states
    BY <1>a, <2>1, Top1Good DEF Explored, Activations1, Good1, Frames1
  <2>3. n \in sys.states /\ n \in SuccessorSet(sys, f.sys)
    BY <1>0, <2>1, <2>2, NextStatesType, NextIsSuccessor
  <2> HIDE DEF n
  <2>4. g \in Activations1 /\ g.sys = n /\ g.from = Target(f)
    BY <2>2, <2>3 DEF Frame1, Activations1, Good1, Frames1, Explored
  <2> HIDE DEF g, f
  <2>5. <<f, g>> \in Links1
    BY <2>2, <2>3, <2>4 DEF Links1
  <2>6. Run1(Append(dfs1, g))
    BY <1>0, <2>1, <2>4, <2>5, ChainAppend DEF Run1, f
  <2> QED
    BY <2>1, <2>6
<1>4. CASE Dfs1SuccsDone
  <2> DEFINE f == Top(dfs1)
             g == [f EXCEPT !.at = "nested"]
             e == Frame2(f.sys, Target(f))
  <2>1. /\ dfs1 # <<>> /\ dfs2 = <<>> /\ f \in Activations1 /\ f.at = "succs"
        /\ f.sys \in sys.states /\ Target(f) \in aut.states
    BY <1>4, <1>a, Top1Good DEF Dfs1SuccsDone, Searching1, Explored, Activations1, Good1, Frames1
  <2>2. CASE LeavePair(f) /\ dfs2' = dfs2
    <3>1. Run1(dfs1')
      BY <1>l, <2>1, <2>2
    <3> QED
      BY <2>1, <2>2, <3>1
  <2>3. CASE dfs1' = SetTop(dfs1, g) /\ dfs2' = <<e>>
    <3>1. g \in Frames1 /\ g.t = f.t /\ g.from = f.from /\ g.sys = f.sys /\ g.at = "nested"
      BY <2>1 DEF Activations1, Good1, Frames1
    <3>2. g \in Activations1 /\ Pair(g) = Pair(f) /\ Pair(f) = <<f.sys, Target(f)>>
      BY <2>1, <3>1 DEF Activations1, Good1, Explored, Target, Pair
    <3>3. e \in Good2 /\ <<e.sys, e.prop>> = Pair(f)
      BY <2>1, <3>2 DEF Frame2, Good2, Frames2
    <3> HIDE DEF g, e
    <3>4. Run1(dfs1')
      BY <1>0, <2>1, <2>3, <3>1, <3>2, Replace1
    <3>5. dfs1' # <<>> /\ Top(dfs1') = g
      BY <1>0, <2>1, <2>3, <3>2, SetTopLemma DEF Run1, Chain
    <3>6. Pair(Top(dfs1))' = Pair(g)
      BY <1>i, <3>5 DEF Pair, Target, Transitions
    <3>7. e \in Roots2'
      BY <1>g, <3>2, <3>3, <3>5, <3>6 DEF Roots2
    <3> QED
      BY <2>3, <3>3, <3>4, <3>7, ChainSingleton
  <2> QED
    BY <1>4, <2>2, <2>3 DEF Dfs1SuccsDone
<1>5. CASE Dfs1Return
  <2> DEFINE rest == Pop(dfs1)
             c == Top(rest)
             g == [c EXCEPT !.i = @ + 1]
  <2>1. dfs1 # <<>> /\ dfs2' = <<>> /\ dfs1' = IF rest = <<>> THEN rest ELSE SetTop(rest, g)
    BY <1>5 DEF Dfs1Return, Searching1
  <2>2. Run1(rest)
    BY <1>0, <2>1, ChainPop DEF Run1
  <2>3. rest # <<>> => c \in Activations1
    <3> HIDE DEF rest
    <3> QED
      BY <2>2, TopLemma DEF Run1, Chain
  <2>4. c \in Activations1 => /\ g \in Frames1 /\ g.t = c.t /\ g.from = c.from /\ g.sys = c.sys
                              /\ g.at = c.at
    BY DEF Activations1, Good1, Frames1
  <2>5. c \in Activations1 => g \in Activations1
    BY <2>4 DEF Activations1, Good1, Explored, Target
  <2> HIDE DEF rest, g
  <2>6. rest # <<>> => Run1(SetTop(rest, g))
    BY <2>2, <2>3, <2>4, <2>5, Replace1
  <2> QED
    BY <2>1, <2>2, <2>6
<1>6. CASE Dfs2Succ
  <2> DEFINE f == Top(dfs2)
             g == [f EXCEPT !.t = 1]
  <2>1. /\ dfs2 # <<>> /\ f \in Good2 /\ f.i \in DOMAIN NextStates(f.sys)
        /\ dfs2' = SetTop(dfs2, g) /\ dfs1' = dfs1
    BY <1>6, <1>b DEF Dfs2Succ, Searching2
  <2>2. g \in Good2 /\ g.sys = f.sys /\ g.prop = f.prop
    BY <2>1 DEF Good2, Frames2
  <2> HIDE DEF g
  <2> QED
    BY <1>0, <2>1, <2>2, Replace2
<1>7. CASE Dfs2Edge
  <2> DEFINE f == Top(dfs2)
             n == Next2(f)
             h == [f EXCEPT !.t = @ + 1]
             e == Frame2(n, Target2(f))
  <2>1. /\ dfs2 # <<>> /\ f \in Good2 /\ f.t \in DOMAIN Transitions(f.prop) /\ dfs1' = dfs1
        /\ \/ dfs2' = dfs2
           \/ Satisfies(n, Transitions(f.prop)[f.t].guard) /\ dfs2' = Append(dfs2, e)
           \/ dfs2' = SetTop(dfs2, h)
    BY <1>7, <1>b DEF Dfs2Edge, Searching2
  <2>2. /\ f.sys \in sys.states /\ f.prop \in aut.states /\ f.t # 0
        /\ f.i \in DOMAIN NextStates(f.sys)
    BY <2>1, AutomataAssumption DEF Good2, Frames2, Nested, Transitions
  <2>3. n \in sys.states /\ n \in SuccessorSet(sys, f.sys) /\ Target2(f) \in aut.states
    BY <1>0, <2>1, <2>2, NextStatesType, NextIsSuccessor, TransitionType DEF Next2, Target2
  <2>4. CASE Satisfies(n, Transitions(f.prop)[f.t].guard) /\ dfs2' = Append(dfs2, e)
    <3>1. Target2(f) \in Moves(aut, f.prop, sys.label[n])
      BY <2>1, <2>2, <2>3, <2>4, SatisfiedMoves DEF Target2
    <3>2. <<n, Target2(f)>> \in ProductSuccessors(sys, aut, <<f.sys, f.prop>>)
      BY <2>3, <3>1 DEF ProductSuccessors
    <3>3. e \in Good2 /\ e.sys = n /\ e.prop = Target2(f)
      BY <2>3 DEF Frame2, Good2, Frames2
    <3> HIDE DEF e, n
    <3>4. <<f, e>> \in Links2
      BY <2>1, <3>2, <3>3 DEF Links2
    <3> HIDE DEF f
    <3> QED
      BY <1>0, <2>1, <2>4, <3>3, <3>4, ChainAppend DEF Run1, Run2, f
  <2>5. CASE dfs2' = SetTop(dfs2, h)
    <3>1. h \in Good2 /\ h.sys = f.sys /\ h.prop = f.prop
      BY <2>1, <2>2 DEF Good2, Frames2
    <3> HIDE DEF h
    <3> QED
      BY <1>0, <2>1, <2>5, <3>1, Replace2
  <2> QED
    BY <1>0, <2>1, <2>4, <2>5
<1>8. CASE Dfs2EdgesDone
  <2> DEFINE f == Top(dfs2)
             g == [f EXCEPT !.t = 0, !.i = @ + 1]
  <2>1. dfs2 # <<>> /\ f \in Frames2 /\ dfs2' = SetTop(dfs2, g) /\ dfs1' = dfs1
    BY <1>8, <1>b DEF Dfs2EdgesDone, Searching2, Good2
  <2>2. g \in Frames2 /\ g.t = 0
    BY <2>1, NextSuccessor2
  <2>3. g.sys = f.sys /\ g.prop = f.prop
    BY <2>1 DEF Frames2
  <2> HIDE DEF g
  <2>4. g \in Good2
    BY <2>2 DEF Good2
  <2> QED
    BY <1>0, <2>1, <2>3, <2>4, Replace2
<1>9. CASE Dfs2Return
  <2> DEFINE rest == Pop(dfs2)
             c == Top(rest)
             g == [c EXCEPT !.t = @ + 1]
  <2>1. /\ dfs2 # <<>>
        /\ \/ rest = <<>> /\ dfs2' = rest /\ LeavePair(Top(dfs1))
           \/ rest # <<>> /\ dfs2' = SetTop(rest, g) /\ dfs1' = dfs1
    BY <1>9 DEF Dfs2Return, Searching2
  <2>2. Run2(rest) /\ Calls(rest, Good2, Busy) /\ (rest # <<>> => c \in Busy)
    BY <1>0, <2>1, ChainPop, CallsPop DEF Run2, Nested
  <2>3. CASE rest = <<>> /\ dfs2' = rest /\ LeavePair(Top(dfs1))
    <3>1. dfs1 # <<>>
      BY <1>9, <2>1 DEF Dfs2Return, Searching2, Nested
    <3>2. Run1(dfs1')
      BY <1>l, <2>3, <3>1
    <3> QED
      BY <2>3, <3>2
  <2>4. CASE rest # <<>> /\ dfs2' = SetTop(rest, g) /\ dfs1' = dfs1
    <3>1. c \in Frames2 /\ c.i \in DOMAIN NextStates(c.sys)
      BY <2>2, <2>4 DEF Busy, Good2
    <3>2. g \in Frames2 /\ g.i = c.i /\ g.sys = c.sys /\ g.prop = c.prop
      BY <3>1 DEF Frames2
    <3> HIDE DEF g, rest
    <3>3. g \in Good2
      BY <3>1, <3>2 DEF Good2
    <3> QED
      BY <1>0, <2>2, <2>4, <3>2, <3>3, Replace2
  <2> QED
    BY <2>1, <2>3, <2>4
<1>10. CASE Unwind2
  <2>1. dfs2 # <<>> /\ dfs2' = Pop(dfs2) /\ dfs1' = dfs1
    BY <1>10 DEF Unwind2
  <2> QED
    BY <1>0, <2>1, ChainPop DEF Run2
<1>11. CASE Unwind1
  <2>1. dfs1 # <<>> /\ dfs1' = Pop(dfs1) /\ dfs2' = <<>>
    BY <1>11 DEF Unwind1
  <2>2. Run1(Pop(dfs1))
    BY <1>0, <2>1, ChainPop DEF Run1
  <2> QED
    BY <2>1, <2>2
<1>12. CASE UNCHANGED <<dfs1, dfs2>>
  BY <1>0, <1>12
<1> QED
  BY <1>1, <1>2, <1>3, <1>4, <1>5, <1>6, <1>7, <1>8, <1>9, <1>10, <1>11, <1>12
     DEF Next, Search1, Search2, Answer, Done, vars, Found, NoCounterexample

(* The stacks of the recursion always spell a run of the product over the  *)
(* true labels.                                                            *)
THEOREM StacksSpellRun == Spec => []StacksAreARun
<1>1. Init => Nested /\ CachesOK /\ StacksRun
  BY NestedInit, ChainEmpty
     DEF Init, CachesOK, PropositionCacheFaithful, StacksRun, Run1, Run2
<1>2. Nested /\ CachesOK /\ StacksRun /\ [Next]_vars => (Nested /\ CachesOK /\ StacksRun)'
  BY NestedStep, CachesStep, StacksRunStep
<1>3. Nested /\ StacksRun => StacksAreARun
  BY StacksRunImplies
<1> QED
  BY <1>1, <1>2, <1>3, PTL DEF Spec
=============================================================================
