--------------------- MODULE MCStrategyTransitionGraph ---------------------
(***************************************************************************)
(* Instances of StrategyTransitionGraph and its clients: four terms, five  *)
(* rules, and the nodes of some strategies, with cycles, sharing and       *)
(* recursion, ways of different lengths to one term, and steps after which *)
(* a strategy fails.  A call is the node named as the strategy.            *)
(***************************************************************************)
EXTENDS StrategySequenceSearch

Rule(r) == <<"rule", <<r>>>>
Idle == <<"idle", <<>>>>
OneOf(args) == <<"alt", args>>
InOrder(args) == <<"seq", args>>
Star(e) == <<"star", <<e>>>>
Plus(e, star) == <<"plus", <<e, star>>>>
Procedure(rhs) == <<"call", <<rhs>>>>

(* A cycle between a and b, a step with two results, a loop on a; t leads  *)
(* from a to d by b or c.                                                  *)
MCRewrites ==
  [r |-> [a |-> <<"b">>, b |-> <<"a">>, c |-> <<>>, d |-> <<>>],
   q |-> [a |-> <<"b", "c">>, b |-> <<>>, c |-> <<>>, d |-> <<>>],
   t |-> [a |-> <<"b", "c">>, b |-> <<"c">>, c |-> <<"d">>, d |-> <<>>],
   l |-> [a |-> <<"a">>, b |-> <<>>, c |-> <<>>, d |-> <<>>]]

MCExpr ==
  [r1 |-> Rule("r"), r2 |-> Rule("r"), q1 |-> Rule("q"), q2 |-> Rule("q"), t1 |-> Rule("t"),
   t2 |-> Rule("t"), l1 |-> Rule("l"), l2 |-> Rule("l"), l3 |-> Rule("l"), i |-> Idle, j |-> Idle,
   f |-> <<"fail", <<>>>>,
   \* r *     (q | r) *     idle *     (r | idle) *     (r *) *     r +     fail | q
   rs |-> Star("r1"), qr |-> OneOf(<<"q1", "r1">>), qrs |-> Star("qr"), is |-> Star("i"),
   ri |-> OneOf(<<"r1", "i">>), ris |-> Star("ri"), rss |-> Star("rs"), rp |-> Plus("r1", "rs"),
   mixed |-> OneOf(<<"f", "q1">>),
   \* t *     q ; fail | t ; t     t * ; l     r * ; t ; t ; r
   ts |-> Star("t1"),
   qf |-> InOrder(<<"q1", "f">>), tt |-> InOrder(<<"t1", "t2">>), some |-> OneOf(<<"qf", "tt">>),
   tsl |-> InOrder(<<"ts", "l1">>), rtsl |-> InOrder(<<"rs", "tt", "r1">>),
   irs |-> OneOf(<<"i", "rs">>), irt |-> OneOf(<<"i", "tt">>), f1 |-> InOrder(<<"t1", "irt">>),
   \* x := r ; x | idle     z := r ; z     y := t ; y | r
   rx |-> InOrder(<<"r1", "x">>), xr |-> OneOf(<<"rx", "i">>), x |-> Procedure("xr"),
   rz |-> InOrder(<<"r1", "z">>), z |-> Procedure("rz"),
   ty |-> InOrder(<<"t1", "y">>), yr |-> OneOf(<<"ty", "r1">>), y |-> Procedure("yr"),
   \* once := r      two states that do the same: (l ; once) | (l ; idle ; once)
   once |-> Procedure("r1"), lo |-> InOrder(<<"l1", "once">>), io |-> InOrder(<<"i", "once">>),
   lio |-> InOrder(<<"l2", "io">>), same |-> OneOf(<<"lo", "lio">>),
   \* again := once       (l ; once) | (l ; (r | idle ; again))
   again |-> Procedure("once"), ia |-> InOrder(<<"j", "again">>), ria |-> OneOf(<<"r2", "ia">>),
   lra |-> InOrder(<<"l3", "ria">>), late |-> OneOf(<<"lo", "lra">>),
   \* u := v | r     v := u | q
   ur |-> OneOf(<<"v", "r1">>), u |-> Procedure("ur"), vr |-> OneOf(<<"u", "q1">>), v |-> Procedure("vr"),
   \* (l ; once) | (l ; (idle | (idle ; idle ; once)))
   iio |-> InOrder(<<"i", "i", "once">>), stop |-> OneOf(<<"i", "iio">>), ls |-> InOrder(<<"l2", "stop">>),
   stops |-> OneOf(<<"lo", "ls">>),
   \* dead := r ; fail      (t ; dead) | (t ; (idle | (idle ; idle ; dead)))
   rf |-> InOrder(<<"r1", "f">>), dead |-> Procedure("rf"), td |-> InOrder(<<"t1", "dead">>),
   iid |-> InOrder(<<"i", "i", "dead">>), stop2 |-> OneOf(<<"i", "iid">>), ts2 |-> InOrder(<<"t2", "stop2">>),
   failed |-> OneOf(<<"td", "ts2">>),
   \* g := r | q    h := g    (l ; g) | (l ; idle ; g) | (l ; (r | h))
   gr |-> OneOf(<<"r1", "q1">>), g |-> Procedure("gr"), h |-> Procedure("g"), ig |-> InOrder(<<"i", "g">>),
   rh |-> OneOf(<<"r2", "h">>), lg |-> InOrder(<<"l1", "g">>), lig |-> InOrder(<<"l2", "ig">>),
   lrh |-> InOrder(<<"l3", "rh">>), stale |-> OneOf(<<"lg", "lig", "lrh">>)]

Checked == {"rs", "qrs", "rp", "is", "ris", "mixed", "x", "same", "late", "u"}
Searched ==
  {"rs", "ts", "qrs", "some", "tsl", "rtsl", "z", "y", "same", "u", "irs", "irt", "f1"}
MCRoots == [makesSelfLoops \in BOOLEAN |-> IF makesSelfLoops THEN Checked ELSE Searched]

(* Normal forms within a bound are left to a run of their own.             *)
MCDepths ==
  [oneStep |-> {1}, atLeastOneStep |-> {0, 1, 3}, anySteps |-> {0, 2, 3}, normalForm |-> {0}]

(* The instances of the counterexamples.                                   *)
NestedIteration == [makesSelfLoops \in {TRUE} |-> {"rss"}]
StaleDependency == [makesSelfLoops \in {TRUE} |-> {"stale"}]
AbsorbedSolution == [makesSelfLoops \in {FALSE} |-> {"failed"}]
Iteration == [makesSelfLoops \in {FALSE} |-> {"rs"}]
NormalFormsWithin == [normalForm |-> 1 .. 3]
FromTheStart == [anySteps |-> {0}]
=============================================================================
