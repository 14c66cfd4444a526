--------------------------- MODULE BuchiProduct ----------------------------
(***************************************************************************)
(* What the model checker is about, said without any search: the           *)
(* synchronous product of a transition system and a Buchi automaton, the   *)
(* words the automaton accepts, and the accepting cycles of the product.   *)
(*                                                                         *)
(* A system is [states, succ, label]: 0 is the initial state, succ[s] the  *)
(* sequence of successors of s, label[s] the propositions true in s.       *)
(* An automaton is [states, init, trans, acc]: init and every trans[q] are *)
(* sequences; a transition is [guard, to]; a guard is a BDD, given as the  *)
(* set of its root-to-leaf branches [on, off, val].                        *)
(***************************************************************************)
EXTENDS Naturals, Sequences, FiniteSets

(* A maximal behaviour of the system stutters for ever in a deadlock.      *)
Successors(sy, s) == IF sy.succ[s] = <<>> THEN <<s>> ELSE sy.succ[s]
SuccessorSet(sy, s) == {Successors(sy, s)[i] : i \in DOMAIN Successors(sy, s)}

Models(props, guard) ==
  \E b \in guard : b.val /\ b.on \subseteq props /\ b.off \cap props = {}

(* The states that q can be left for on reading props.                     *)
Moves(au, q, props) ==
  {au.trans[q][t].to : t \in {u \in DOMAIN au.trans[q] : Models(props, au.trans[q][u].guard)}}

FirstMoves(au, props) == UNION {Moves(au, au.init[k], props) : k \in DOMAIN au.init}

(* <<s, q>>: the automaton is in q after reading s.                        *)
ProductSuccessors(sy, au, x) ==
  UNION {{n} \X Moves(au, x[2], sy.label[n]) : n \in SuccessorSet(sy, x[1])}

ProductInit(sy, au) == {0} \X FirstMoves(au, sy.label[0])

(* A graph is given by its edges: a function from the nodes to sets of     *)
(* nodes.  The nodes that can be reached from a set of them, itself        *)
(* included.                                                               *)
Reach(edges, from) ==
  LET closure[seen \in SUBSET DOMAIN edges] ==
        LET more == seen \cup UNION {edges[x] : x \in seen}
        IN  IF more = seen THEN seen ELSE closure[more]
  IN  closure[from]

(* Some cycle that can be reached from a set goes through a good node.     *)
ReachesGoodCycle(edges, from, good) ==
  \E x \in good \cap Reach(edges, from) : x \in Reach(edges, edges[x])

ProductEdges(sy, au) ==
  [x \in sy.states \X au.states |-> ProductSuccessors(sy, au, x)]

HasAcceptingCycle(sy, au) ==
  ReachesGoodCycle(ProductEdges(sy, au), ProductInit(sy, au), sy.states \X au.acc)

(* leadIn, then loop for ever, is a behaviour of the system.               *)
IsBehaviour(sy, leadIn, loop) ==
  LET word == leadIn \o loop
  IN  /\ loop # <<>>
      /\ word[1] = 0
      /\ \A k \in 1 .. Len(word) - 1 : word[k + 1] \in SuccessorSet(sy, word[k])
      /\ loop[1] \in SuccessorSet(sy, word[Len(word)])

(* What the automaton does on reading that word: in a node <<k, q>> it is  *)
(* in q after reading the k-th state of the word.                          *)
After(leadIn, loop, k) == IF k = Len(leadIn \o loop) THEN Len(leadIn) + 1 ELSE k + 1
RunEdges(sy, au, leadIn, loop) ==
  [x \in (1 .. Len(leadIn \o loop)) \X au.states |->
     LET k == After(leadIn, loop, x[1])
     IN  {k} \X Moves(au, x[2], sy.label[(leadIn \o loop)[k]])]

(* It accepts the word: a run over it goes through an accepting state for  *)
(* ever.                                                                   *)
IsAccepted(sy, au, leadIn, loop) ==
  ReachesGoodCycle(RunEdges(sy, au, leadIn, loop),
                   {1} \X FirstMoves(au, sy.label[(leadIn \o loop)[1]]),
                   (1 .. Len(leadIn \o loop)) \X au.acc)
=============================================================================
