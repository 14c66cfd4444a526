-------------------------- MODULE MCStrategicSearch --------------------------
(***************************************************************************)
(* Instances of StrategicSearch: atoms a, b, c and pairs of them; and the  *)
(* table of contexts on its own, with two values for the variables of a    *)
(* context and two groups of tail calls.                                   *)
(***************************************************************************)
EXTENDS StrategicSearch, VariableBindingsManager

A == <<"a">>
B == <<"b">>
C == <<"c">>
AA == <<"a", "a">>
AB == <<"a", "b">>
None == <<>>

Plain(rule) == [op |-> "rule", rule |-> rule, ground |-> None, variable |-> 0, strategies |-> <<>>]
With(rule, variable) == [Plain(rule) EXCEPT !.variable = variable]
If(rule, strategies) == [Plain(rule) EXCEPT !.strategies = strategies]
InOrder(args) == [op |-> "seq", args |-> args]
OneOf(args) == [op |-> "alt", args |-> args]
Star(child) == [op |-> "star", child |-> child]
Plus(child, star) == [op |-> "plus", child |-> child, star |-> star]
One(child) == [op |-> "one", child |-> child]
Match(pattern, variable) == [op |-> "test", pattern |-> pattern, ground |-> None, variable |-> variable]
Branch(initial, onSuccess, success, onFailure, failure) ==
  [op |-> "branch", initial |-> initial, onSuccess |-> onSuccess, success |-> success,
   onFailure |-> onFailure, failure |-> failure]
Not(e) == Branch(e, "FAIL", "none", "IDLE", "none")
Test(e) == Branch(e, "IDLE", "none", "FAIL", "none")
Try(e) == Branch(e, "PASS_THRU", "none", "IDLE", "none")
Normal(e) == Branch(e, "ITERATE", "none", "IDLE", "none")
Cond(e, f, g) == Branch(e, "NEW_STRATEGY", f, "NEW_STRATEGY", g)
Invoke(strategy, ground, variable) ==
  [op |-> "call", strategy |-> strategy, ground |-> ground, variable |-> variable]
Inside(pattern, variable, strategies) ==
  [op |-> "matchrew", pattern |-> pattern, ground |-> None, variable |-> variable,
   strategies |-> strategies]

----------------------------------------------------------------------------
Atoms == {A, B, C}
Triple == <<"a", "a", "a">>

(* A cycle between a and b, a step with two results, a last step; to[x]    *)
(* leads to x, and the condition of cr is solved from its own term.        *)
MCRewrites ==
  [r |-> {<<None, A, B>>, <<None, B, A>>},
   q |-> {<<None, A, B>>, <<None, A, C>>},
   s |-> {<<None, B, C>>},
   to |-> {<<x, t, x>> : x \in Atoms, t \in Atoms},
   cr |-> {<<None, A, A>>}]
(* a result a does not match, b matches twice                              *)
MCFragments == [cr |-> {<<B, B>>, <<B, A>>, <<C, C>>}]
MCTests == [is |-> {<<x, x>> : x \in Atoms}, isb |-> {<<None, B>>}]

MCPatterns ==
  [pair |-> {[argument |-> None, term |-> AB, values |-> <<A>>, subterms |-> <<A, B>>],
             [argument |-> None, term |-> AB, values |-> <<B>>, subterms |-> <<B, A>>]},
   first |-> {[argument |-> None, term |-> AB, values |-> <<B>>, subterms |-> <<A>>],
              [argument |-> None, term |-> AB, values |-> <<A>>, subterms |-> <<B>>]},
   like |-> {[argument |-> A, term |-> AB, values |-> <<>>, subterms |-> <<A, B>>]},
   triple |-> {[argument |-> None, term |-> Triple, values |-> <<>>, subterms |-> <<A, A, A>>]}]
MCRebuild == [pair |-> <<1, 2>>, first |-> <<1, -1>>, like |-> <<2, 1>>, triple |-> <<1, 2, 3>>]

MCExpr ==
  [r |-> Plain("r"), q |-> Plain("q"), s |-> Plain("s"), tox |-> With("to", 1),
   idle |-> [op |-> "idle"], fail |-> [op |-> "fail"], isx |-> Match("is", 1), isb |-> Match("isb", 0),
   \* (r | q) ; r *        (idle *) ; r +
   rs |-> Star("r"), rq |-> OneOf(<<"r", "q">>), rqrs |-> InOrder(<<"rq", "rs">>),
   is |-> Star("idle"), rp |-> Plus("r", "rs"), isrp |-> InOrder(<<"is", "rp">>),
   \* (r | q) !     the cycle is left at c
   norm |-> Normal("rq"),
   \* not(s) ; try(q) ; (s ? idle : r) ; not(isb) | test(q) ; isb | fail
   ns |-> Not("s"), tq |-> Try("q"), sir |-> Cond("s", "idle", "r"), nb |-> Not("isb"),
   left |-> InOrder(<<"ns", "tq", "sir", "nb">>), testq |-> Test("rp"),
   right |-> InOrder(<<"testq", "q", "isb">>), cond |-> OneOf(<<"left", "right", "fail">>),
   \* one(q) ; try(s) | one(q)
   oneq |-> One("q"), ts |-> Try("s"), ots |-> InOrder(<<"oneq", "ts">>),
   ones |-> OneOf(<<"ots", "oneq">>),
   \* cr{q, r *}
   crl |-> If("cr", <<"q", "rs">>),
   \* back := idle | (r ; back)         back ; back
   back |-> Invoke("back", None, 0), rback |-> InOrder(<<"r", "back">>),
   backs |-> OneOf(<<"idle", "rback">>), bb |-> InOrder(<<"back", "back">>),
   \* loop(x) := loop(x)     go(b) := s     go(x) := to[x] ; isx     loop(b) | go(c) | go(b)
   loopx |-> Invoke("loop", None, 1), loopb |-> Invoke("loop", B, 0), toxisx |-> InOrder(<<"tox", "isx">>),
   goc |-> Invoke("go", C, 0), gob |-> Invoke("go", B, 0), ends |-> OneOf(<<"loopb", "goc", "gob">>),
   \* pick(x) := to[x] or go(x) with x one of b, c         one(pick(a)) ; not(s)
   picka |-> Invoke("pick", A, 0), gox |-> Invoke("go", None, 1), pickx |-> OneOf(<<"tox", "gox">>),
   opicka |-> Test("picka"), picks |-> InOrder(<<"opicka", "picka", "ns">>),
   \* matchrew <x, y> by x using (q | idle), y using r *
   qi |-> OneOf(<<"q", "idle">>), both |-> Inside("pair", 0, <<"qi", "rs">>),
   \* matchrew <x, y> s.t. y is kept by x using to[y] | go(y)
   kept |-> Inside("first", 0, <<"pickx">>),
   \* with(x) := matchrew <x, y> by x using (r | isx), y using go(x)    test(with(a)) ; with(a)
   rx |-> OneOf(<<"r", "isx">>), like |-> Inside("like", 1, <<"rx", "gox">>),
   witha |-> Invoke("with", A, 0), twith |-> Test("both"), withs |-> InOrder(<<"twith", "witha", "kept">>),
   \* matchrew <x, y, z> by x using r *, y using q, z using (q | idle)
   three |-> Inside("triple", 0, <<"rs", "q", "qi">>),
   \* two of them
   rqrs_crl |-> InOrder(<<"rqrs", "crl">>), rqrs_norm |-> InOrder(<<"rqrs", "norm">>),
   rqrs_cond |-> InOrder(<<"rqrs", "cond">>), rqrs_picks |-> InOrder(<<"rqrs", "picks">>),
   rqrs_ones |-> InOrder(<<"rqrs", "ones">>), isrp_bb |-> InOrder(<<"isrp", "bb">>),
   bb_norm |-> InOrder(<<"bb", "norm">>), crl_rqrs |-> InOrder(<<"crl", "rqrs">>),
   bb_picks |-> InOrder(<<"bb", "picks">>), ones_norm |-> InOrder(<<"ones", "norm">>),
   rqrs_ends |-> InOrder(<<"rqrs", "ends">>), both_kept |-> InOrder(<<"both", "kept">>),
   both_withs |-> InOrder(<<"both", "withs">>), kept_withs |-> InOrder(<<"kept", "withs">>),
   withs_both |-> InOrder(<<"withs", "both">>), crl_or_norm |-> OneOf(<<"crl", "norm">>),
   picks_or_cond |-> OneOf(<<"picks", "cond">>), bb_or_rqrs |-> OneOf(<<"bb", "rqrs">>),
   ones_or_crl |-> OneOf(<<"ones", "crl">>), isrp_or_picks |-> OneOf(<<"isrp", "picks">>),
   ends_or_norm |-> OneOf(<<"ends", "norm">>), ends_or_picks |-> OneOf(<<"ends", "picks">>),
   both_or_withs |-> OneOf(<<"both", "withs">>), kept_or_both |-> OneOf(<<"kept", "both">>)]

Always(rhs) == [rhs |-> rhs, matches |-> {<<x, <<x>>>> : x \in Atoms}]
MCStrategies ==
  [back |-> [simple |-> TRUE, definitions |-> <<[rhs |-> "backs", matches |-> {<<None, None>>}]>>],
   loop |-> [simple |-> FALSE, definitions |-> <<Always("loopx")>>],
   go |-> [simple |-> FALSE,
           definitions |-> <<[rhs |-> "s", matches |-> {<<B, None>>}], Always("toxisx")>>],
   pick |-> [simple |-> FALSE,
             definitions |-> <<[rhs |-> "pickx", matches |-> {<<A, <<B>>>>, <<A, <<C>>>>}]>>],
   with |-> [simple |-> FALSE, definitions |-> <<Always("like")>>]]


OnAtoms ==
  {"rqrs", "isrp", "norm", "cond", "ones", "crl", "bb", "picks", "ends", "rqrs_crl", "rqrs_norm",
   "rqrs_cond", "rqrs_picks", "rqrs_ones", "isrp_bb", "bb_norm", "crl_rqrs", "bb_picks",
   "ones_norm", "rqrs_ends", "crl_or_norm", "picks_or_cond", "bb_or_rqrs", "ones_or_crl",
   "isrp_or_picks", "ends_or_norm", "ends_or_picks"}
OnPairs ==
  {"both", "kept", "withs", "both_kept", "both_withs", "kept_withs", "withs_both", "both_or_withs",
   "kept_or_both"}
MCRoots == OnAtoms \cup OnPairs \cup {"three"}
MCEndless == {"ends", "rqrs_ends", "ends_or_norm", "ends_or_picks"}
MCStart ==
  [e \in MCRoots |-> IF e = "three" THEN Triple ELSE IF e \in OnPairs THEN AB ELSE A]

Meaning == INSTANCE StrategyResults WITH Terms <- Atoms
MCMeanings(expression, term) == Meaning!Outcomes(expression, term)

----------------------------------------------------------------------------
MCValues == {<<"v">>, <<"w">>}

VARIABLE subject    \* "search", or "table": one of the two is used, by itself

(* The liveness of the searches says nothing of the table.                 *)
MCInit ==
  /\ Init /\ TableInit
  /\ subject \in {"search", "table"}
  /\ subject = "table" => search = "fair" /\ root = "rqrs"
MCNext ==
  \/ subject = "search" /\ Next /\ UNCHANGED <<tableVars, subject>>
  \/ subject = "table" /\ TableNext /\ UNCHANGED <<vars, subject>>
MCSpec == MCInit /\ [][MCNext]_<<vars, tableVars, subject>> /\ Progress
=============================================================================
