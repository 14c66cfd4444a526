------------------------- MODULE ProductEmptiness --------------------------
(***************************************************************************)
(* What ModelChecker2::findCounterexample promises to its callers: it      *)
(* answers, it answers "none" only when no behaviour of the system is      *)
(* accepted by the automaton, and otherwise it gives, as a lead-in and a   *)
(* cycle of system states, one that is.                                    *)
(***************************************************************************)
EXTENDS BuchiProduct

VARIABLES sys, aut, answer, leadIn, loop

vars == <<sys, aut, answer, leadIn, loop>>

Init == answer = "searching" /\ leadIn = <<>> /\ loop = <<>>

AnswerFound ==
  /\ answer = "searching" /\ answer' = "found"
  /\ IsBehaviour(sys, leadIn', loop')
  /\ IsAccepted(sys, aut, leadIn', loop')
  /\ UNCHANGED <<sys, aut>>

AnswerNone ==
  /\ answer = "searching" /\ answer' = "none"
  /\ ~HasAcceptingCycle(sys, aut)
  /\ UNCHANGED <<sys, aut, leadIn, loop>>

Next == AnswerFound \/ AnswerNone

Spec == Init /\ [][Next]_vars /\ <>(answer # "searching")
=============================================================================
