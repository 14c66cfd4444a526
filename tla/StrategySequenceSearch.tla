----------------------- MODULE StrategySequenceSearch -----------------------
(***************************************************************************)
(* The clients of the graph of StrategyTransitionGraph.  The model checker *)
(* has self loops made and asks in any order.  The command search ...      *)
(* using (class StrategySequenceSearch), which the rest is about, searches *)
(* a graph that is built without self loops.                               *)
(*                                                                         *)
(* States are walked through by their numbers.  Before a state is shown,   *)
(* exploreState looks depth first whether the strategy may still finish or *)
(* go on forever from it, which may create states far from the one that is *)
(* walked through.  Each turn of a loop is a step; a request for a         *)
(* successor that is not known takes the steps of getNextState.  A state   *)
(* shown always matches the pattern.                                       *)
(*                                                                         *)
(* LastDecides and StaleCount are mutants of the operator that follows     *)
(* them.                                                                   *)
(***************************************************************************)
EXTENDS StrategyTransitionGraph

CONSTANTS
  Depths,         \* types among "oneStep", "atLeastOneStep", "anySteps", "normalForm"
                  \* -> the bounds that are given; 0 for no bound
  FirstIndex      \* the term with the number 0 in the table of terms: Start if it has
                  \* no subterms, as these are inserted before it

VARIABLES
  searchType, maxDepth,
  stateInfo,      \* state number -> [parent, depth, flag]
  frames,         \* the calls of exploreState: [state, index, flag]
  place,          \* where findNextInterestingState goes on when there are none
  explore, nextArc,
  nrStates,       \* its local count of states
  seenSolutions,
  found, done, outcomes   \* the terms shown, see SolutionEnumeration

graphVars == vars
givenVars == <<searchType, maxDepth, outcomes>>
walkVars == <<explore, nextArc, nrStates>>
shownVars == <<seenSolutions, found, done>>
searchVars == <<graphVars, givenVars, stateInfo, frames, place, walkVars, shownVars>>

----------------------------------------------------------------------------
(* What is searched for, by the meaning of the strategy alone.             *)
After(points) == {m[2] : m \in UNION {Moves(p) : p \in points}}
RECURSIVE Reached(_)
Reached(points) ==
  IF After(points) \subseteq points THEN points ELSE Reached(points \cup After(points))
RECURSIVE UpTo(_, _)
UpTo(points, n) == IF n = 0 THEN points ELSE points \cup UpTo(After(points), n - 1)

(* From these points the strategy stops somewhere or goes on forever.      *)
RECURSIVE Surviving(_)
Surviving(points) ==
  LET left == {p \in points : MayStop(p) \/ After({p}) \cap points # {}}
  IN  IF left = points THEN points ELSE Surviving(left)

(* The points of the kind that is searched for.                            *)
FirstPoint == <<Start, <<strategy>>>>
Wanted(type) ==
  IF type = "normalForm" THEN {p \in Reached({FirstPoint}) : MayStop(p)}
  ELSE Surviving(Reached({FirstPoint}))

(* The terms of these points that are reached by at most n steps, or by    *)
(* any number if n is 0.                                                   *)
TermsWithin(type, n) ==
  LET mayStay == type \in {"anySteps", "normalForm"}
      from == IF mayStay THEN {FirstPoint} ELSE After({FirstPoint})
      near == IF n = 0 THEN Reached(from) ELSE UpTo(from, IF mayStay THEN n ELSE n - 1)
  IN  {p[1] : p \in Wanted(type) \cap near}

(* What a search may show.  The depth of a state is that of the path by    *)
(* which it was found, which may be longer than another one: beyond a      *)
(* bound of 1, nearer terms may be missed.                                 *)
Promised(type, n) ==
  IF n = 0 THEN {TermsWithin(type, 0)}
  ELSE {TermsWithin(type, 1) \cup more : more \in SUBSET TermsWithin(type, n)}

----------------------------------------------------------------------------
NoSearch == "none"

SearchInit ==
  /\ Init
  /\ searchType \in IF makeSelfLoops THEN {NoSearch} ELSE DOMAIN Depths
  /\ maxDepth \in CASE searchType = NoSearch -> {0}
                    [] searchType = "oneStep" -> {1}
                    [] OTHER -> Depths[searchType]
  /\ stateInfo = <<[parent |-> 0, depth |-> 0, flag |-> "pending"]>>
  /\ frames = <<>> /\ place = IF makeSelfLoops THEN "none" ELSE "start"
  /\ explore = 0 /\ nextArc = 0 /\ nrStates = 0
  /\ seenSolutions = {} /\ found = <<>> /\ done = FALSE
  /\ outcomes = IF makeSelfLoops THEN {{}} ELSE Promised(searchType, maxDepth)

(* SystemAutomaton::getNextState: nothing happens but the request.         *)
ModelCheckerAsks(s) ==
  /\ makeSelfLoops
  /\ Ask(s)
  /\ UNCHANGED <<givenVars, stateInfo, frames, place, walkVars, shownVars>>

Known(s, i) == i < Len(Sub(s).next)
Answered(s, i) == pc # "run" /\ (Known(s, i) \/ (pc = "exhausted" /\ asked = s))

(* getNextState does not know the successor that is needed now.            *)
Request(s, i) ==
  /\ pc # "run" /\ ~Answered(s, i)
  /\ Ask(s)
  /\ UNCHANGED <<givenVars, stateInfo, frames, place, walkVars, shownVars>>
ServeRequest == Serve /\ UNCHANGED <<givenVars, stateInfo, frames, place, walkVars, shownVars>>

Told(parent) ==
  Append(stateInfo, [parent |-> parent, depth |-> stateInfo[parent].depth + 1, flag |-> "pending"])

----------------------------------------------------------------------------
(* exploreState.                                                           *)
Frame(s) == [state |-> s, index |-> 0, flag |-> "failed"]
Entered(info, s) == [info EXCEPT ![s].flag = "loop"]

(* The flag of a state, when that of a successor is known.                 *)
LastDecides(flag, child) == child
Joined(flag, child) == IF child = "failed" THEN flag ELSE child

Call(info, calls, s, then) ==
  /\ stateInfo' = Entered(info, s)
  /\ frames' = Append(calls, Frame(s))
  /\ place' = then

Top == Last(frames)
NrTop == Len(frames)
Looking == frames # <<>> /\ Top.flag # "solution"
AskInDepth == Looking /\ Request(Top.state, Top.index)

SuccessorInDepth ==
  /\ Looking /\ Answered(Top.state, Top.index) /\ Known(Top.state, Top.index)
  /\ \E t \in {Sub(Top.state).next[Top.index + 1]} :
       LET info == IF t = Len(stateInfo) + 1 THEN Told(Top.state) ELSE stateInfo
           calls == [frames EXCEPT ![NrTop].index = @ + 1]
           Decide(flag) ==
             stateInfo' = info /\ frames' = [calls EXCEPT ![NrTop].flag = flag] /\ UNCHANGED place
       IN  IF Sub(Top.state).hasSolution THEN Decide("solution")
           ELSE IF info[t].flag = "pending" THEN Call(info, calls, t, place)
           ELSE Decide(Joined(Top.flag, info[t].flag))
  /\ UNCHANGED <<graphVars, givenVars, walkVars, shownVars>>

ReturnFlag ==
  /\ frames # <<>>
  /\ Looking => Answered(Top.state, Top.index) /\ ~Known(Top.state, Top.index)
  /\ \E flag \in {IF Sub(Top.state).hasSolution THEN "solution" ELSE Top.flag} :
       /\ stateInfo' = [stateInfo EXCEPT ![Top.state].flag = flag]
       /\ frames' = IF NrTop = 1 THEN <<>>
                    ELSE [Front(frames) EXCEPT ![NrTop - 1].flag = Joined(@, flag)]
  /\ UNCHANGED <<graphVars, givenVars, place, walkVars, shownVars>>

----------------------------------------------------------------------------
(* findNextInterestingState, called again when a state was shown.          *)
ValidState(info, s) == info[s].flag \in {"solution", "loop"} /\ Sub(s).nr = s
TermOf(s) == graph.key[s][1]

NewSolution(s) ==
  /\ seenSolutions' = seenSolutions \cup {TermOf(s)}
  /\ found' = IF TermOf(s) \in seenSolutions THEN found ELSE Append(found, TermOf(s))
Quiet == UNCHANGED <<seenSolutions, found>>

StartSearch ==
  /\ place = "start"
  /\ IF searchType = "anySteps" THEN Call(stateInfo, frames, 1, "initial")
     ELSE place' = "states" /\ UNCHANGED <<stateInfo, frames>>
  /\ UNCHANGED <<graphVars, givenVars, walkVars, shownVars>>

InitialState ==
  /\ place = "initial" /\ frames = <<>>
  /\ place' = "states"
  /\ IF stateInfo[1].flag \in {"solution", "loop"}
     THEN seenSolutions' = {FirstIndex} /\ found' = <<Start>>
     ELSE Quiet
  /\ UNCHANGED <<graphVars, givenVars, stateInfo, frames, walkVars, done>>

NextState ==
  /\ place = "states" /\ frames = <<>>
  /\ explore' = explore + 1
  /\ IF explore = Len(graph.seen)
     THEN place' = "end" /\ done' = TRUE /\ UNCHANGED <<stateInfo, frames>>
     ELSE /\ IF stateInfo[explore'].flag = "pending" THEN Call(stateInfo, frames, explore', "state")
             ELSE place' = "state" /\ UNCHANGED <<stateInfo, frames>>
          /\ UNCHANGED done
  /\ UNCHANGED <<graphVars, givenVars, nextArc, nrStates, seenSolutions, found>>

NormalFormNeeded == searchType = "normalForm"
AtLimit(s) == maxDepth > 0 /\ stateInfo[s].depth >= maxDepth
Skipped(s) ==
  \/ ~ValidState(stateInfo, s)
  \/ AtLimit(s) /\ (NormalFormNeeded \/ stateInfo[s].depth # maxDepth)

VisitState ==
  /\ place = "state" /\ frames = <<>>
  /\ IF Skipped(explore) THEN place' = "states" /\ UNCHANGED <<nextArc, nrStates>>
     ELSE place' = "arcs" /\ nextArc' = 0 /\ nrStates' = Len(graph.seen)
  /\ UNCHANGED <<graphVars, givenVars, stateInfo, frames, explore, shownVars>>

Walking == place = "arcs" /\ frames = <<>>
AskForArc == Walking /\ Request(explore, nextArc)

(* The successor t is shown; the search then goes on with the same state.  *)
ShowSuccessor(info, t) ==
  IF ~NormalFormNeeded /\ ValidState(info, t) THEN NewSolution(t) ELSE Quiet

NextArc ==
  /\ Walking /\ Answered(explore, nextArc) /\ Known(explore, nextArc)
  /\ nextArc' = nextArc + 1
  /\ \E t \in {Sub(explore).next[nextArc + 1]} :
       LET new == t = nrStates + 1
           info == IF new THEN Told(explore) ELSE stateInfo
       IN  /\ nrStates' = IF new THEN t ELSE nrStates
           /\ IF AtLimit(explore)
              THEN /\ stateInfo' = info /\ UNCHANGED frames /\ Quiet
                   /\ place' = IF Sub(explore).hasSolution THEN "lastArc" ELSE "arcs"
              ELSE IF info[t].flag = "pending" THEN Call(info, frames, t, "arc") /\ Quiet
              ELSE /\ stateInfo' = info /\ UNCHANGED <<frames, place>>
                   /\ ShowSuccessor(info, t)
  /\ UNCHANGED <<graphVars, givenVars, explore, done>>

(* The exploration of a successor may have added states.                   *)
StaleCount == nrStates
Recounted == Len(graph.seen)
ArcExplored ==
  /\ place = "arc" /\ frames = <<>>
  /\ place' = "arcs" /\ nrStates' = Recounted
  /\ ShowSuccessor(stateInfo, Sub(explore).next[nextArc])
  /\ UNCHANGED <<graphVars, givenVars, stateInfo, frames, explore, nextArc, done>>

NoMoreArcs ==
  /\ \/ Walking /\ Answered(explore, nextArc) /\ ~Known(explore, nextArc)
     \/ place = "lastArc"
  /\ place' = "states"
  /\ IF NormalFormNeeded /\ Sub(explore).hasSolution THEN NewSolution(explore) ELSE Quiet
  /\ UNCHANGED <<graphVars, givenVars, stateInfo, frames, walkVars, done>>

SearchNext ==
  \/ ServeRequest \/ AskInDepth \/ SuccessorInDepth \/ ReturnFlag
  \/ StartSearch \/ InitialState \/ NextState \/ VisitState
  \/ AskForArc \/ NextArc \/ ArcExplored \/ NoMoreArcs

(* The caller asks for solutions until there are no more, and the model    *)
(* checker may stop asking: without a search, all of SearchNext is Serve.  *)
ClientNext == SearchNext \/ \E s \in DOMAIN graph.seen : ModelCheckerAsks(s)
ClientSpec == SearchInit /\ [][ClientNext]_searchVars /\ WF_searchVars(SearchNext)

----------------------------------------------------------------------------
(* The search shows the terms that the strategy allows, each one once, and *)
(* says that there are no more only when it has shown them all: those of   *)
(* states from which the strategy stops somewhere or goes on forever, or   *)
(* where it may stop if normal forms are searched for.  Within a bound, it *)
(* shows nothing that is farther, but not always all that is nearer: see   *)
(* Promised (findNextInterestingState and exploreState).                   *)
Enumeration == INSTANCE SolutionEnumeration
Enumerates == Enumeration!Spec

(* Whatever created it and however often it was absorbed, each state has a *)
(* parent with a transition to it, from which the path that is shown to    *)
(* the user is rebuilt (getStateTransition), and is one step deeper; no    *)
(* state is created without being noted here, neither by exploreState nor  *)
(* by the walk through the states.                                         *)
PathsKnown ==
  /\ place = "arcs" /\ frames = <<>> => nrStates = Len(stateInfo)
  /\ frames = <<>> /\ place \in {"states", "state", "end"} => Len(stateInfo) = Len(graph.seen)
  /\ \A s \in 2 .. Len(stateInfo) :
       /\ stateInfo[s].depth = stateInfo[stateInfo[s].parent].depth + 1
       /\ ArcsTo(Sub(stateInfo[s].parent), s) # {}

(* Absorbing a state is an "(Optional optimization, saves an State object  *)
(* and processing)" (strategyTransitionGraph.cc:595): when a state that    *)
(* may be shown is absorbed, the absorber may be shown in its place.       *)
AbsorberServes ==
  place = "end" => \A s \in DOMAIN stateInfo :
    stateInfo[s].flag \in {"solution", "loop"} => ValidState(stateInfo, Sub(s).nr)

(* Both explorations end, although the graph has cycles and is being built *)
(* by the requests of either (flags IN_LOOP of exploreState).              *)
Ends == ~makeSelfLoops => <>done
=============================================================================
