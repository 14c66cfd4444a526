------------------------ MODULE StrategicSearchProofs ------------------------
(***************************************************************************)
(* Proofs about the searches of a strategy: between two runs the lists of  *)
(* executions and processes are exact and the variable contexts of the     *)
(* tasks are live, for all strategies, rules, patterns and terms.          *)
(***************************************************************************)
EXTENDS StrategicSearch, ListProofs

----------------------------------------------------------------------------
(* The invariant.  A graph has executions that finished, U, which are not  *)
(* in the list of their owner anymore and will be deleted at the end of    *)
(* the run; tasks that may have no slaves, K; and tasks that were told so  *)
(* and have closed their contexts, H.  P are the processes that there were *)
(* before the run.                                                         *)
TaskKinds == {"root", "branch", "one", "call", "rewrite", "child", "subterm"}
Branches == {x \in DOMAIN Expr : Expr[x].op = "branch"}
Matchrews == {x \in DOMAIN Expr : Expr[x].op = "matchrew"}

GoodTask(e) ==
  /\ {"kind", "owner", "slaves", "seen", "vars", "pending"} \subseteq DOMAIN e
  /\ e.kind \in TaskKinds
  /\ e.pending \in Stacks
  /\ e.kind = "root" => {"solution", "exhausted"} \subseteq DOMAIN e
  /\ e.kind = "branch" => "expression" \in DOMAIN e /\ e.expression \in Branches
  /\ e.kind = "rewrite" => "strategies" \in DOMAIN e /\ e.strategies \in Stacks
GoodProcess(e) ==
  /\ {"kind", "owner"} \subseteq DOMAIN e
  /\ e.kind \in {"decomposition", "application", "match", "call", "matchrew", "remaining"}
  /\ e.kind # "remaining" => "pending" \in DOMAIN e /\ e.pending \in Stacks
  /\ e.kind \in {"application", "match"} => "strategies" \in DOMAIN e /\ e.strategies \in Stacks
  /\ e.kind = "call" =>
       /\ {"strategy", "tail", "todo"} \subseteq DOMAIN e /\ e.strategy \in DOMAIN Strategies
       /\ DOMAIN e.todo = DOMAIN Strategies[e.strategy].definitions
  /\ e.kind = "matchrew" => "expression" \in DOMAIN e /\ e.expression \in Matchrews
GoodEntry(e) == IF IsTask(e) THEN GoodTask(e) ELSE GoodProcess(e)

(* The slaves of a matchrew are its child tasks and its combinations.      *)
Inner(e) == e.kind = (IF IsTask(e) THEN "child" ELSE "remaining")

(* A call in tail position ends a call.                                    *)
Behind(e) == ~IsTask(e) /\ e.kind = "call" /\ e.tail

Nodes(g) == DOMAIN g.heap
TasksOf(g) == {x \in Nodes(g) : IsTask(g.heap[x])}
Children(g, U, t) == {x \in Nodes(g) \ U : Owner(g, x) = t}

Entries(g) ==
  /\ g = [heap |-> g.heap, ahead |-> g.ahead, bindings |-> g.bindings]
  /\ IsFiniteSet(Nodes(g)) /\ Nodes(g) \subseteq Nat
  /\ \A x \in Nodes(g) : GoodEntry(g.heap[x])
  /\ ROOT \in TasksOf(g) /\ Owner(g, ROOT) = NONE
  /\ \A t \in TasksOf(g) : g.heap[t].kind = "root" <=> t = ROOT

(* The lists of slaves are exact.                                          *)
Linked(g, U) ==
  /\ U \subseteq Nodes(g) \ {ROOT}
  /\ \A t \in TasksOf(g) :
       /\ Slaves(g, t) \in Seq(Nodes(g)) /\ IsInjective(Slaves(g, t))
       /\ ToSet(Slaves(g, t)) = Children(g, U, t)

(* The executions are a tree: whoever is followed from owner to owner, the *)
(* root is met.                                                            *)
Owned(g) ==
  /\ \A x \in Nodes(g) \ {ROOT} :
       /\ Owner(g, x) \in TasksOf(g)
       /\ g.heap[Owner(g, x)].kind = "subterm" <=> Inner(g.heap[x])
       /\ Behind(g.heap[x]) => g.heap[Owner(g, x)].kind = "call"
  /\ \A X \in SUBSET (Nodes(g) \ {ROOT}) : X # {} => \E x \in X : Owner(g, x) \notin X

(* The processes are those of before and those inserted in the list.       *)
Listed(g, P) ==
  /\ g.ahead \in Seq(Nodes(g)) /\ IsInjective(g.ahead)
  /\ ToSet(g.ahead) \cap P = {}
  /\ ToSet(g.ahead) \cup P = Nodes(g) \ TasksOf(g)

(* A task has slaves.                                                      *)
Busy(g, K) == \A t \in TasksOf(g) \ ({ROOT} \cup K) : Slaves(g, t) # <<>>

(* The cells that are not free have one user, and the cache is right.      *)
GoodTable(b) ==
  /\ b = [table |-> b.table, free |-> b.free, current |-> b.current,
          substitution |-> b.substitution]
  /\ b.table \in Seq(Range(b.table))
  /\ b.free \in Seq(Contexts(b)) /\ IsInjective(b.free)
  /\ \A c \in Contexts(b) : b.table[c].users = (IF c \in ToSet(b.free) THEN 0 ELSE 1)
  /\ b.current # EMPTY_CONTEXT =>
       Open(b, b.current) /\ b.substitution = b.table[b.current].values

(* Contexts are opened for one matchrew or call, and the other tasks use   *)
(* those of their owners.                                                  *)
Holders(g, H) ==
  {t \in TasksOf(g) : /\ g.heap[t].vars # EMPTY_CONTEXT
                      /\ g.heap[t].kind = "subterm" \/ (g.heap[t].kind = "call" /\ t \notin H)}
Held(g, H) ==
  /\ GoodTable(g.bindings)
  /\ \A t \in Holders(g, H) : Open(g.bindings, g.heap[t].vars)
  /\ \A s, t \in Holders(g, H) : g.heap[s].vars = g.heap[t].vars => s = t
Inherited(g) ==
  /\ g.heap[ROOT].vars = EMPTY_CONTEXT
  /\ \A t \in TasksOf(g) : g.heap[t].kind \notin {"root", "subterm", "call"} =>
       g.heap[t].vars = VarsOf(g, t)

Growing(g, P, U, K, H) ==
  /\ Entries(g) /\ Linked(g, U) /\ Owned(g)
  /\ Listed(g, P) /\ Busy(g, K)
  /\ Held(g, H) /\ Inherited(g)

Settled(g, P) ==
  /\ Growing(g, P, {}, {}, {})
  /\ Len(g.heap[ROOT].solution) <= 1
  /\ g.heap[ROOT].exhausted <=> Slaves(g, ROOT) = <<>>

(* What holds between two runs.                                            *)
Inv ==
  /\ Settled(tree, ToSet(queue))
  /\ tree.ahead = <<>>
  /\ queue \in Seq(Nodes(tree)) /\ IsInjective(queue)
  /\ pc \in {"idle", "search"} /\ done \in BOOLEAN /\ search \in {"fair", "depth"}
  /\ pc = "search" => tree.heap[ROOT].solution = <<>>

----------------------------------------------------------------------------
(* A new execution.                                                        *)
LEMMA FreshLemma ==
  ASSUME NEW g, Entries(g)
  PROVE  FreshId(g) \in Nat /\ FreshId(g) \notin Nodes(g) /\ FreshId(g) # ROOT
<1>1. PICK D : D = Nodes(g)
  OBVIOUS
<1>2. IsFiniteSet(D) /\ D \subseteq Nat /\ 0 \in D
  BY <1>1 DEF Entries, TasksOf, ROOT
<1>3. PICK n \in Nat : n = Cardinality(D)
  BY <1>2, FS_CardinalityType
<1>4. (1 .. n) \ D # {}
  <2> SUFFICES ASSUME 1 .. n \subseteq D PROVE FALSE
    OBVIOUS
  <2>1. 0 .. n \in SUBSET D
    BY <1>2
  <2>2. Cardinality(0 .. n) = n + 1
    BY FS_Interval
  <2>3. Cardinality(0 .. n) <= n
    BY <1>2, <1>3, <2>1, FS_Subset
  <2> QED
    BY <2>2, <2>3
<1>5. Min((1 .. n) \ D) \in (1 .. n) \ D
  BY <1>4, MinLemma
<1>6. FreshId(g) = Min((1 .. n) \ D)
  BY <1>1, <1>3 DEF FreshId, Nodes
<1> QED
  BY <1>1, <1>5, <1>6 DEF ROOT

(* h is g with a new slave f of a task, somewhere in its list.             *)
Inserts(g, h, f, e) ==
  /\ f \in Nat /\ f \notin Nodes(g) /\ f # ROOT
  /\ h = [heap |-> h.heap, ahead |-> h.ahead, bindings |-> h.bindings]
  /\ Nodes(h) = Nodes(g) \cup {f}
  /\ h.heap[f] = e
  /\ h.bindings = g.bindings
  /\ \A x \in Nodes(g) \ {e.owner} : h.heap[x] = g.heap[x]
  /\ \E list \in Seq(Nodes(h)) :
       /\ IsInjective(list) /\ ToSet(list) = ToSet(Slaves(g, e.owner)) \cup {f}
       /\ h.heap[e.owner] = [g.heap[e.owner] EXCEPT !.slaves = list]

LEMMA NewExecutionLemma ==
  ASSUME NEW g, NEW U, NEW e, NEW sibling, Entries(g), Linked(g, U), e.owner \in TasksOf(g),
         sibling = Alone \/ sibling \in ToSet(Slaves(g, e.owner))
  PROVE  /\ Inserts(g, NewExecution(g, sibling, e), FreshId(g), e)
         /\ NewExecution(g, sibling, e).ahead = g.ahead
<1>1. PICK f : f = FreshId(g)
  OBVIOUS
<1>2. f \in Nat /\ f \notin Nodes(g) /\ f # ROOT
  BY <1>1, FreshLemma
<1>3. PICK o, heap, slaves : o = e.owner /\ heap = g.heap /\ slaves = Slaves(g, o)
  OBVIOUS
<1>4. /\ o \in DOMAIN heap /\ slaves = heap[o].slaves /\ "slaves" \in DOMAIN heap[o]
      /\ slaves \in Seq(DOMAIN heap) /\ IsInjective(slaves)
  BY <1>3 DEF Linked, TasksOf, Nodes, Slaves, IsTask
<1>5. PICK at : at = IF sibling = Alone THEN Len(slaves) + 1
                     ELSE SelectInSeq(slaves, LAMBDA s : s = sibling)
  OBVIOUS
<1>6. at \in 1 .. Len(slaves) + 1
  <2>1. Len(slaves) \in Nat
    BY <1>4, LenProperties
  <2>2. CASE sibling = Alone
    BY <1>5, <2>1, <2>2
  <2>3. CASE sibling # Alone
    <3>1. SelectInSeq(slaves, LAMBDA s : s = sibling) \in 1 .. Len(slaves)
      BY <1>3, <1>4, <2>3, PositionLemma
    <3> QED
      BY <1>5, <2>1, <2>3, <3>1
  <2> QED
    BY <2>2, <2>3
<1>7. PICK list : list = InsertAt(slaves, at, f)
  OBVIOUS
<1>8. PICK N : N = DOMAIN heap \cup {f}
  OBVIOUS
<1>9. ToSet(slaves) \subseteq DOMAIN heap /\ ToSet(slaves) \subseteq N /\ f \in N
  BY <1>4, <1>8, ToSetLemma
<1>10. f \notin ToSet(slaves)
  BY <1>2, <1>3, <1>9 DEF Nodes
<1>11. slaves \in Seq(N)
  BY <1>4, <1>9, WithinLemma
<1>12. list \in Seq(N) /\ IsInjective(list) /\ ToSet(list) = ToSet(slaves) \cup {f}
  BY <1>4, <1>6, <1>7, <1>9, <1>10, <1>11, InsertedLemma
<1>13. PICK h : h = NewExecution(g, sibling, e)
  OBVIOUS
<1>14. /\ h = [g EXCEPT !.heap = Adding([heap EXCEPT ![o].slaves = list], f, e)]
  BY <1>1, <1>3, <1>5, <1>7, <1>13 DEF NewExecution
<1>15. PICK new : new = [x \in N |-> IF x = f THEN e
                                     ELSE IF x = o THEN [heap[o] EXCEPT !.slaves = list] ELSE heap[x]]
  OBVIOUS
<1>16. Adding([heap EXCEPT ![o].slaves = list], f, e) = new
  <2>1. f \notin DOMAIN heap
    BY <1>2, <1>3 DEF Nodes
  <2>2. PICK m : m = [heap EXCEPT ![o].slaves = list]
    OBVIOUS
  <2>3. /\ DOMAIN m = DOMAIN heap
        /\ \A x \in DOMAIN heap : m[x] = IF x = o THEN [heap[o] EXCEPT !.slaves = list] ELSE heap[x]
    BY <2>2
  <2>4. \A x \in N : (IF x = f THEN e ELSE m[x])
                    = IF x = f THEN e ELSE IF x = o THEN [heap[o] EXCEPT !.slaves = list] ELSE heap[x]
    BY <1>8, <2>1, <2>3
  <2>5. Adding(m, f, e) = new
    BY <1>8, <1>15, <2>3, <2>4 DEF Adding
  <2> QED
    BY <2>2, <2>5
<1>17. h = [heap |-> new, ahead |-> g.ahead, bindings |-> g.bindings]
  <2>1. g = [heap |-> g.heap, ahead |-> g.ahead, bindings |-> g.bindings]
    BY DEF Entries
  <2> QED
    BY <1>14, <1>16, <2>1
<1>18. h.heap = new /\ h.ahead = g.ahead /\ h.bindings = g.bindings /\ DOMAIN new = N
  BY <1>15, <1>17
<1>19. /\ new[f] = e /\ o # f
       /\ new[o] = [heap[o] EXCEPT !.slaves = list]
       /\ \A x \in DOMAIN heap \ {o} : new[x] = heap[x]
  BY <1>2, <1>3, <1>4, <1>8, <1>15 DEF Nodes
<1> QED
  BY <1>1, <1>2, <1>3, <1>8, <1>12, <1>13, <1>17, <1>18, <1>19 DEF Inserts, Nodes

(* What it leaves.                                                         *)
LEMMA InsertsKeeps ==
  ASSUME NEW g, NEW h, NEW f, NEW e, Entries(g), Inserts(g, h, f, e), e.owner \in TasksOf(g)
  PROVE  /\ \A x \in Nodes(g) :
              /\ x \in Nodes(h) /\ x # f
              /\ Owner(h, x) = Owner(g, x) /\ h.heap[x].kind = g.heap[x].kind
              /\ IsTask(h.heap[x]) <=> IsTask(g.heap[x])
              /\ IsTask(g.heap[x]) => h.heap[x].vars = g.heap[x].vars
              /\ x # e.owner => h.heap[x] = g.heap[x]
         /\ Nodes(h) = Nodes(g) \cup {f}
         /\ TasksOf(h) = TasksOf(g) \cup (IF IsTask(e) THEN {f} ELSE {})
         /\ e.owner \in Nodes(g) /\ e.owner # f
         /\ GoodEntry(h.heap[e.owner])
         /\ h.heap[ROOT].solution = g.heap[ROOT].solution
         /\ h.heap[ROOT].exhausted = g.heap[ROOT].exhausted
<1>1. PICK o : o = e.owner
  OBVIOUS
<1>2. PICK list : h.heap[o] = [g.heap[o] EXCEPT !.slaves = list]
  BY <1>1 DEF Inserts
<1>3. o \in Nodes(g) /\ IsTask(g.heap[o]) /\ GoodTask(g.heap[o]) /\ o # f
  BY <1>1 DEF Entries, TasksOf, GoodEntry, Inserts
<1>4. PICK u, v : u = g.heap[o] /\ v = h.heap[o]
  OBVIOUS
<1>5. v = [u EXCEPT !.slaves = list] /\ GoodTask(u)
  BY <1>2, <1>3, <1>4
<1>6. /\ DOMAIN v = DOMAIN u /\ v.owner = u.owner /\ v.kind = u.kind /\ v.vars = u.vars
      /\ v.pending = u.pending
      /\ u.kind = "branch" => v.expression = u.expression
      /\ u.kind = "rewrite" => v.strategies = u.strategies
      /\ u.kind = "root" => v.solution = u.solution /\ v.exhausted = u.exhausted
  BY <1>5 DEF GoodTask
<1>7. GoodTask(v) /\ IsTask(v)
  <2>1. GoodTask(v)
    BY <1>5, <1>6 DEF GoodTask
  <2> QED
    BY <1>3, <1>4, <1>6, <2>1 DEF IsTask
<1>8. \A x \in Nodes(g) : x # o => h.heap[x] = g.heap[x]
  BY <1>1 DEF Inserts
<1>9. Nodes(h) = Nodes(g) \cup {f} /\ f \notin Nodes(g) /\ h.heap[f] = e
  BY DEF Inserts
<1>10. \A x \in Nodes(g) :
              /\ x \in Nodes(h) /\ x # f
              /\ Owner(h, x) = Owner(g, x) /\ h.heap[x].kind = g.heap[x].kind
              /\ IsTask(h.heap[x]) <=> IsTask(g.heap[x])
              /\ IsTask(g.heap[x]) => h.heap[x].vars = g.heap[x].vars
              /\ x # o => h.heap[x] = g.heap[x]
  <2> TAKE x \in Nodes(g)
  <2>1. x \in Nodes(h) /\ x # f
    BY <1>9
  <2>2. CASE x = o
    BY <1>3, <1>4, <1>6, <1>7, <2>1, <2>2 DEF Owner
  <2>3. CASE x # o
    BY <1>8, <2>1, <2>3 DEF Owner
  <2> QED
    BY <2>2, <2>3
<1>11. TasksOf(h) = TasksOf(g) \cup (IF IsTask(e) THEN {f} ELSE {})
  BY <1>9, <1>10 DEF TasksOf
<1>12. ROOT \in Nodes(g) /\ g.heap[ROOT].kind = "root"
  BY DEF Entries, TasksOf
<1>13. h.heap[ROOT].solution = g.heap[ROOT].solution /\ h.heap[ROOT].exhausted = g.heap[ROOT].exhausted
  BY <1>4, <1>6, <1>8, <1>12
<1>14. GoodEntry(h.heap[o])
  BY <1>4, <1>7 DEF GoodEntry
<1> QED
  BY <1>1, <1>3, <1>9, <1>10, <1>11, <1>13, <1>14

(* The context of a new task is its own, or that of its owner.             *)
GoodVars(g, H, e) ==
  IF e.kind \in {"subterm", "call"}
  THEN e.vars # EMPTY_CONTEXT =>
         Open(g.bindings, e.vars) /\ \A t \in Holders(g, H) : g.heap[t].vars # e.vars
  ELSE e.vars = g.heap[e.owner].vars

(* What is to be known of a new execution.                                 *)
Fits(g, H, e) ==
  /\ GoodEntry(e) /\ e.owner \in TasksOf(g)
  /\ g.heap[e.owner].kind = "subterm" <=> Inner(e)
  /\ Behind(e) => g.heap[e.owner].kind = "call"
  /\ IsTask(e) => e.slaves = <<>> /\ e.kind # "root" /\ GoodVars(g, H, e)

LEMMA InsertedEntries ==
  ASSUME NEW g, NEW h, NEW f, NEW e, NEW H, Entries(g), Inserts(g, h, f, e), Fits(g, H, e)
  PROVE  Entries(h)
<1>1. e.owner \in TasksOf(g) /\ GoodEntry(e) /\ (IsTask(e) => e.kind # "root")
  BY DEF Fits
<1>2. PICK o : o = e.owner
  OBVIOUS
<1>3. /\ h = [heap |-> h.heap, ahead |-> h.ahead, bindings |-> h.bindings]
      /\ Nodes(h) = Nodes(g) \cup {f} /\ f \in Nat /\ f # ROOT /\ f \notin Nodes(g) /\ h.heap[f] = e
  BY DEF Inserts
<1>4. IsFiniteSet(Nodes(h)) /\ Nodes(h) \subseteq Nat
  BY <1>3, FS_AddElement DEF Entries
<1>5. \A x \in Nodes(g) :
        /\ Owner(h, x) = Owner(g, x) /\ h.heap[x].kind = g.heap[x].kind
        /\ IsTask(h.heap[x]) <=> IsTask(g.heap[x])
        /\ x # o => h.heap[x] = g.heap[x]
  BY <1>1, <1>2, InsertsKeeps
<1>6. GoodEntry(h.heap[o])
  BY <1>1, <1>2, InsertsKeeps
<1>7. \A x \in Nodes(h) : GoodEntry(h.heap[x])
  <2> TAKE x \in Nodes(h)
  <2>1. x = f \/ x = o \/ (x \in Nodes(g) /\ x # o)
    BY <1>3
  <2>2. \A y \in Nodes(g) : GoodEntry(g.heap[y])
    BY DEF Entries
  <2> QED
    BY <1>1, <1>3, <1>5, <1>6, <2>1, <2>2
<1>8. TasksOf(h) = TasksOf(g) \cup (IF IsTask(e) THEN {f} ELSE {}) /\ TasksOf(g) \subseteq Nodes(g)
  BY <1>1, InsertsKeeps DEF TasksOf
<1>9. ROOT \in TasksOf(h) /\ Owner(h, ROOT) = NONE
  BY <1>5, <1>8 DEF Entries
<1>10. \A t \in TasksOf(h) : h.heap[t].kind = "root" <=> t = ROOT
  <2> TAKE t \in TasksOf(h)
  <2>1. CASE t = f
    BY <1>1, <1>3, <1>8, <2>1
  <2>2. CASE t # f
    BY <1>5, <1>8, <2>2 DEF Entries
  <2> QED
    BY <2>1, <2>2
<1> QED
  BY <1>3, <1>4, <1>7, <1>9, <1>10 DEF Entries

LEMMA InsertedLinked ==
  ASSUME NEW g, NEW h, NEW f, NEW e, NEW H, NEW U, Entries(g), Linked(g, U), Owned(g),
         Inserts(g, h, f, e), Fits(g, H, e)
  PROVE  Linked(h, U) /\ Slaves(h, e.owner) # <<>> /\ (\A t \in TasksOf(g) \ {e.owner} : Slaves(h, t) = Slaves(g, t))
<1>1. PICK o : o = e.owner
  OBVIOUS
<1>2. o \in TasksOf(g) /\ o \in Nodes(g) /\ (IsTask(e) => e.slaves = <<>>)
  BY <1>1 DEF Fits, TasksOf
<1>3. Nodes(h) = Nodes(g) \cup {f} /\ f \notin Nodes(g) /\ h.heap[f] = e /\ f # ROOT /\ f \in Nat
  BY DEF Inserts
<1>4. \A x \in Nodes(g) : Owner(h, x) = Owner(g, x) /\ (x # o => h.heap[x] = g.heap[x])
  BY <1>1, <1>2, InsertsKeeps
<1>5. TasksOf(h) = TasksOf(g) \cup (IF IsTask(e) THEN {f} ELSE {}) /\ TasksOf(g) \subseteq Nodes(g)
  BY <1>1, <1>2, InsertsKeeps DEF TasksOf
<1>6. PICK list \in Seq(Nodes(h)) :
        /\ IsInjective(list) /\ ToSet(list) = ToSet(Slaves(g, o)) \cup {f}
        /\ h.heap[o] = [g.heap[o] EXCEPT !.slaves = list]
  BY <1>1 DEF Inserts
<1>7. Slaves(h, o) = list
  <2>1. "slaves" \in DOMAIN g.heap[o]
    BY <1>2 DEF TasksOf, IsTask
  <2> QED
    BY <1>6, <2>1 DEF Slaves
<1>8. U \subseteq Nodes(h) \ {ROOT} /\ f \notin U
  BY <1>3 DEF Linked
<1>9. Owner(h, f) = o
  BY <1>1, <1>3 DEF Owner
<1>10. \A t : Children(h, U, t) = Children(g, U, t) \cup (IF t = o THEN {f} ELSE {})
  BY <1>3, <1>4, <1>8, <1>9 DEF Children
<1>11. \A t \in TasksOf(g) : /\ Slaves(g, t) \in Seq(Nodes(g)) /\ IsInjective(Slaves(g, t))
                             /\ ToSet(Slaves(g, t)) = Children(g, U, t)
  BY DEF Linked
<1>12. \A t \in TasksOf(g) \ {o} : Slaves(h, t) = Slaves(g, t)
  BY <1>4, <1>5 DEF Slaves
<1>13. \A t \in TasksOf(h) : /\ Slaves(h, t) \in Seq(Nodes(h)) /\ IsInjective(Slaves(h, t))
                             /\ ToSet(Slaves(h, t)) = Children(h, U, t)
  <2> TAKE t \in TasksOf(h)
  <2>1. CASE t = o
    BY <1>2, <1>6, <1>7, <1>10, <1>11, <2>1
  <2>2. CASE t \in TasksOf(g) \ {o}
    <3>1. Slaves(h, t) = Slaves(g, t) /\ ToSet(Slaves(h, t)) = Children(h, U, t) /\ IsInjective(Slaves(h, t))
      BY <1>10, <1>11, <1>12, <2>2
    <3>2. Slaves(h, t) \in Seq(Nodes(g)) /\ ToSet(Slaves(h, t)) \subseteq Nodes(h)
      BY <1>3, <1>11, <2>2, <3>1 DEF Children
    <3> QED
      BY <3>1, <3>2, WithinLemma
  <2>3. CASE IsTask(e) /\ t = f
    <3>1. Slaves(h, t) = <<>>
      BY <1>2, <1>3, <2>3 DEF Slaves
    <3>2. \A x \in Nodes(g) : Owner(g, x) # f
      <4> TAKE x \in Nodes(g)
      <4>1. x # ROOT => Owner(g, x) \in TasksOf(g)
        BY DEF Owned
      <4>2. Owner(g, ROOT) = NONE /\ NONE # f
        BY <1>3 DEF Entries, NONE
      <4> QED
        BY <1>3, <1>5, <4>1, <4>2
    <3>3. Children(g, U, f) = {} /\ f # o
      BY <1>2, <1>3, <3>2 DEF Children
    <3> QED
      BY <1>10, <2>3, <3>1, <3>3, EmptyList
  <2> QED
    BY <1>5, <2>1, <2>2, <2>3
<1>14. list # <<>>
  BY <1>6, NonEmptyList
<1> QED
  BY <1>1, <1>7, <1>8, <1>12, <1>13, <1>14 DEF Linked

LEMMA InsertedOwned ==
  ASSUME NEW g, NEW h, NEW f, NEW e, NEW H, Entries(g), Owned(g), Inserts(g, h, f, e), Fits(g, H, e)
  PROVE  Owned(h)
<1>1. PICK o : o = e.owner
  OBVIOUS
<1>2. /\ o \in TasksOf(g) /\ o \in Nodes(g) /\ (g.heap[o].kind = "subterm" <=> Inner(e))
      /\ Behind(e) => g.heap[o].kind = "call"
  BY <1>1 DEF Fits, TasksOf
<1>3. Nodes(h) = Nodes(g) \cup {f} /\ f \notin Nodes(g) /\ h.heap[f] = e
  BY DEF Inserts
<1>4. /\ \A x \in Nodes(g) : /\ Owner(h, x) = Owner(g, x) /\ h.heap[x].kind = g.heap[x].kind
                             /\ IsTask(h.heap[x]) <=> IsTask(g.heap[x])
                             /\ x # o => h.heap[x] = g.heap[x]
      /\ TasksOf(g) \subseteq TasksOf(h) /\ TasksOf(g) \subseteq Nodes(g)
  BY <1>1, <1>2, InsertsKeeps DEF TasksOf
<1>5. Owner(h, f) = o
  BY <1>1, <1>3 DEF Owner
<1>6. ASSUME NEW x \in Nodes(h) \ {ROOT}
      PROVE  /\ Owner(h, x) \in TasksOf(h)
             /\ h.heap[Owner(h, x)].kind = "subterm" <=> Inner(h.heap[x])
             /\ Behind(h.heap[x]) => h.heap[Owner(h, x)].kind = "call"
  <2>1. CASE x = f
    BY <1>2, <1>3, <1>4, <1>5, <2>1
  <2>2. CASE x # f
    <3>1. x \in Nodes(g) \ {ROOT}
      BY <1>3, <2>2
    <3>2. /\ Owner(g, x) \in TasksOf(g) /\ (g.heap[Owner(g, x)].kind = "subterm" <=> Inner(g.heap[x]))
          /\ Behind(g.heap[x]) => g.heap[Owner(g, x)].kind = "call"
      BY <3>1 DEF Owned
    <3>3. /\ Inner(h.heap[x]) <=> Inner(g.heap[x])
          /\ Behind(h.heap[x]) => Behind(g.heap[x])
      <4>1. x # o => h.heap[x] = g.heap[x]
        BY <1>4, <3>1
      <4>2. x = o => IsTask(h.heap[x])
        BY <1>2, <1>4, <3>1 DEF TasksOf
      <4> QED
        BY <1>4, <3>1, <4>1, <4>2 DEF Inner, Behind
    <3> QED
      BY <1>4, <3>1, <3>2, <3>3
  <2> QED
    BY <2>1, <2>2
<1>7. ASSUME NEW X \in SUBSET (Nodes(h) \ {ROOT}), X # {}
      PROVE  \E x \in X : Owner(h, x) \notin X
  <2>1. CASE X = {f}
    BY <1>2, <1>3, <1>5, <2>1
  <2>2. CASE X # {f}
    <3>1. X \ {f} \in SUBSET (Nodes(g) \ {ROOT}) /\ X \ {f} # {}
      BY <1>3, <1>7, <2>2
    <3>2. PICK x \in X \ {f} : Owner(g, x) \notin X \ {f}
      BY <3>1 DEF Owned
    <3>3. x \in Nodes(g) \ {ROOT}
      BY <3>1, <3>2
    <3>4. Owner(g, x) \in Nodes(g) /\ Owner(h, x) = Owner(g, x)
      BY <1>4, <3>3 DEF Owned
    <3> QED
      BY <1>3, <3>2, <3>4
  <2> QED
    BY <2>1, <2>2
<1> QED
  BY <1>6, <1>7 DEF Owned

LEMMA InsertedListed ==
  ASSUME NEW g, NEW h, NEW f, NEW e, NEW H, NEW P, Entries(g), Listed(g, P), Inserts(g, h, f, e),
         Fits(g, H, e), h.ahead = IF IsTask(e) THEN g.ahead ELSE Append(g.ahead, f)
  PROVE  Listed(h, P)
<1>1. Nodes(h) = Nodes(g) \cup {f} /\ f \notin Nodes(g) /\ f \in Nodes(h)
  BY DEF Inserts
<1>2. TasksOf(h) = TasksOf(g) \cup (IF IsTask(e) THEN {f} ELSE {}) /\ TasksOf(g) \subseteq Nodes(g)
  BY InsertsKeeps DEF TasksOf, Fits
<1>3. /\ g.ahead \in Seq(Nodes(g)) /\ IsInjective(g.ahead)
      /\ ToSet(g.ahead) \cap P = {}
      /\ ToSet(g.ahead) \cup P = Nodes(g) \ TasksOf(g)
  BY DEF Listed
<1>4. g.ahead \in Seq(Nodes(h)) /\ f \notin ToSet(g.ahead) /\ f \notin P
  <2>1. ToSet(g.ahead) \subseteq Nodes(g)
    BY <1>3
  <2> QED
    BY <1>1, <1>3, <2>1, WithinLemma
<1>5. CASE IsTask(e)
  <2>1. ToSet(h.ahead) \cup P = Nodes(h) \ TasksOf(h)
    BY <1>1, <1>2, <1>3, <1>5
  <2> QED
    BY <1>3, <1>4, <1>5, <2>1 DEF Listed
<1>6. CASE ~IsTask(e)
  <2>1. /\ h.ahead \in Seq(Nodes(h)) /\ IsInjective(h.ahead)
        /\ ToSet(h.ahead) = ToSet(g.ahead) \cup {f}
    BY <1>1, <1>3, <1>4, <1>6, AppendedLemma
  <2>2. ToSet(h.ahead) \cup P = Nodes(h) \ TasksOf(h)
    BY <1>1, <1>2, <1>3, <1>6, <2>1
  <2>3. ToSet(h.ahead) \cap P = {}
    BY <1>3, <1>4, <2>1
  <2> QED
    BY <2>1, <2>2, <2>3 DEF Listed
<1> QED
  BY <1>5, <1>6

LEMMA InsertedHeld ==
  ASSUME NEW g, NEW h, NEW f, NEW e, NEW H, Entries(g), Owned(g), Held(g, H), Inherited(g),
         Inserts(g, h, f, e), Fits(g, H, e)
  PROVE  Held(h, H) /\ Inherited(h)
<1>1. PICK o : o = e.owner
  OBVIOUS
<1>2. /\ o \in TasksOf(g)
      /\ IsTask(e) => e.kind # "root" /\ GoodVars(g, H, e)
  BY <1>1 DEF Fits
<1>3. Nodes(h) = Nodes(g) \cup {f} /\ f \notin Nodes(g) /\ h.heap[f] = e /\ h.bindings = g.bindings
  BY DEF Inserts
<1>4. TasksOf(h) = TasksOf(g) \cup (IF IsTask(e) THEN {f} ELSE {}) /\ TasksOf(g) \subseteq Nodes(g)
  BY <1>1, <1>2, InsertsKeeps DEF TasksOf
<1>5. \A t \in TasksOf(g) : /\ h.heap[t].kind = g.heap[t].kind /\ h.heap[t].vars = g.heap[t].vars
                            /\ Owner(h, t) = Owner(g, t)
  BY <1>1, <1>2, InsertsKeeps DEF TasksOf
<1>6. Holders(h, H) = Holders(g, H) \cup (IF f \in Holders(h, H) THEN {f} ELSE {})
  BY <1>3, <1>4, <1>5 DEF Holders
<1>7. Holders(g, H) \subseteq TasksOf(g)
  BY DEF Holders
<1>8. f \in Holders(h, H) =>
        Open(g.bindings, e.vars) /\ \A t \in Holders(g, H) : g.heap[t].vars # e.vars
  BY <1>2, <1>3, <1>4 DEF Holders, GoodVars
<1>9. \A t \in Holders(h, H) : Open(h.bindings, h.heap[t].vars)
  BY <1>3, <1>5, <1>6, <1>7, <1>8 DEF Held
<1>10. \A s, t \in Holders(h, H) : h.heap[s].vars = h.heap[t].vars => s = t
  <2>1. \A s, t \in Holders(g, H) : g.heap[s].vars = g.heap[t].vars => s = t
    BY DEF Held
  <2> QED
    BY <1>3, <1>5, <1>6, <1>7, <1>8, <2>1
<1>11. \A t \in TasksOf(h) : h.heap[t].kind \notin {"root", "subterm", "call"} =>
         h.heap[t].vars = VarsOf(h, t)
  <2> TAKE t \in TasksOf(h)
  <2> HAVE h.heap[t].kind \notin {"root", "subterm", "call"}
  <2>1. CASE t = f /\ IsTask(e)
    <3>1. e.vars = g.heap[o].vars /\ Owner(h, f) = o
      BY <1>1, <1>2, <1>3, <2>1 DEF GoodVars, Owner
    <3> QED
      BY <1>2, <1>3, <1>5, <2>1, <3>1 DEF VarsOf
  <2>2. CASE t \in TasksOf(g)
    <3>1. g.heap[t].vars = g.heap[Owner(g, t)].vars /\ t # ROOT
      BY <1>5, <2>2 DEF Inherited, VarsOf, Entries
    <3>2. Owner(g, t) \in TasksOf(g)
      BY <1>4, <2>2, <3>1 DEF Owned
    <3> QED
      BY <1>5, <2>2, <3>1, <3>2 DEF VarsOf
  <2> QED
    BY <1>4, <2>1, <2>2
<1>12. h.heap[ROOT].vars = EMPTY_CONTEXT
  BY <1>5 DEF Inherited, Entries
<1> QED
  BY <1>3, <1>9, <1>10, <1>11, <1>12 DEF Held, Inherited

LEMMA InsertedGrowing ==
  ASSUME NEW g, NEW h, NEW f, NEW e, NEW P, NEW U, NEW K, NEW H, Growing(g, P, U, K, H),
         Inserts(g, h, f, e), Fits(g, H, e),
         h.ahead = IF IsTask(e) THEN g.ahead ELSE Append(g.ahead, f)
  PROVE  Growing(h, P, U, (K \ {e.owner}) \cup (IF IsTask(e) THEN {f} ELSE {}), H)
<1>1. Entries(g) /\ Linked(g, U) /\ Owned(g) /\ Listed(g, P) /\ Busy(g, K) /\ Held(g, H) /\ Inherited(g)
  BY DEF Growing
<1>2. Entries(h)
  BY <1>1, InsertedEntries
<1>3. /\ Linked(h, U) /\ Slaves(h, e.owner) # <<>>
      /\ \A t \in TasksOf(g) \ {e.owner} : Slaves(h, t) = Slaves(g, t)
  BY <1>1, InsertedLinked
<1>4. Owned(h)
  BY <1>1, InsertedOwned
<1>5. Listed(h, P)
  BY <1>1, InsertedListed
<1>6. Held(h, H) /\ Inherited(h)
  BY <1>1, InsertedHeld
<1>7. Busy(h, (K \ {e.owner}) \cup (IF IsTask(e) THEN {f} ELSE {}))
  <2>1. TasksOf(h) = TasksOf(g) \cup (IF IsTask(e) THEN {f} ELSE {})
    BY <1>1, InsertsKeeps DEF Fits
  <2>2. \A t \in TasksOf(g) \ ({ROOT} \cup K) : Slaves(g, t) # <<>>
    BY <1>1 DEF Busy
  <2>3. \A t \in TasksOf(h) \ ({ROOT} \cup ((K \ {e.owner}) \cup (IF IsTask(e) THEN {f} ELSE {}))) :
          t = e.owner \/ t \in TasksOf(g) \ ({ROOT} \cup K \cup {e.owner})
    BY <2>1
  <2>4. \A t \in TasksOf(h) \ ({ROOT} \cup ((K \ {e.owner}) \cup (IF IsTask(e) THEN {f} ELSE {}))) :
          Slaves(h, t) # <<>>
    BY <1>3, <2>2, <2>3
  <2> QED
    BY <2>4 DEF Busy
<1> QED
  BY <1>2, <1>3, <1>4, <1>5, <1>6, <1>7 DEF Growing

----------------------------------------------------------------------------
(* Processes and tasks that are created.                                   *)

(* What a run keeps of the executions there were, as long as it deletes    *)
(* none.                                                                   *)
Extends(g, h) ==
  /\ Nodes(g) \subseteq Nodes(h)
  /\ \A x \in Nodes(g) :
       /\ IsTask(h.heap[x]) <=> IsTask(g.heap[x])
       /\ Owner(h, x) = Owner(g, x) /\ h.heap[x].kind = g.heap[x].kind
       /\ IsTask(g.heap[x]) => h.heap[x].vars = g.heap[x].vars
  /\ h.heap[ROOT].solution = g.heap[ROOT].solution
  /\ h.heap[ROOT].exhausted = g.heap[ROOT].exhausted

LEMMA ExtendsLemma ==
  ASSUME NEW g, NEW h, Extends(g, h)
  PROVE  /\ TasksOf(g) \subseteq TasksOf(h)
         /\ \A x \in Nodes(g) : x \in Nodes(h) /\ Owner(h, x) = Owner(g, x) /\ h.heap[x].kind = g.heap[x].kind
         /\ \A x \in Nodes(g) : x \in TasksOf(h) <=> x \in TasksOf(g)
         /\ \A x \in Nodes(g) : Inner(h.heap[x]) <=> Inner(g.heap[x])
         /\ \A U, t : Children(g, U, t) \subseteq Children(h, U, t)
BY DEF Extends, TasksOf, Inner, Children

LEMMA ExtendsTransitive ==
  ASSUME NEW g, NEW h, NEW k, ROOT \in Nodes(g), Extends(g, h), Extends(h, k)
  PROVE  Extends(g, k)
BY DEF Extends

LEMMA GrowingRoot ==
  ASSUME NEW g, NEW P, NEW U, NEW K, NEW H, Growing(g, P, U, K, H)
  PROVE  ROOT \in Nodes(g) /\ Extends(g, g)
BY DEF Growing, Entries, TasksOf, Extends

LEMMA BusyWider ==
  ASSUME NEW g, NEW P, NEW U, NEW K, NEW H, NEW L, Growing(g, P, U, K, H),
         \A t \in K : t \in L \/ t \notin TasksOf(g) \/ t = ROOT \/ Slaves(g, t) # <<>>
  PROVE  Growing(g, P, U, L, H)
BY DEF Growing, Busy

LEMMA InsertedExtends ==
  ASSUME NEW g, NEW h, NEW f, NEW e, Entries(g), Inserts(g, h, f, e), e.owner \in TasksOf(g)
  PROVE  Extends(g, h)
BY InsertsKeeps DEF Extends

(* A place in the list of slaves.                                          *)
Place(g, U, sibling, owner) == sibling = Alone \/ sibling \in Children(g, U, owner)

LEMMA NewExecutionGrows ==
  ASSUME NEW g, NEW P, NEW U, NEW K, NEW H, NEW e, NEW sibling, Growing(g, P, U, K, H),
         Fits(g, H, e), IsTask(e), Place(g, U, sibling, e.owner)
  PROVE  /\ Inserts(g, NewExecution(g, sibling, e), FreshId(g), e)
         /\ Extends(g, NewExecution(g, sibling, e))
         /\ Growing(NewExecution(g, sibling, e), P, U, (K \ {e.owner}) \cup {FreshId(g)}, H)
<1>1. Entries(g) /\ Linked(g, U) /\ e.owner \in TasksOf(g)
  BY DEF Growing, Fits
<1>2. sibling = Alone \/ sibling \in ToSet(Slaves(g, e.owner))
  BY <1>1 DEF Place, Linked
<1>3. PICK h, f : h = NewExecution(g, sibling, e) /\ f = FreshId(g)
  OBVIOUS
<1>4. Inserts(g, h, f, e) /\ h.ahead = g.ahead
  BY <1>1, <1>2, <1>3, NewExecutionLemma
<1>5. Growing(h, P, U, (K \ {e.owner}) \cup {f}, H)
  BY <1>4, InsertedGrowing
<1> QED
  BY <1>1, <1>3, <1>4, <1>5, InsertedExtends

LEMMA NewProcessGrows ==
  ASSUME NEW g, NEW P, NEW U, NEW K, NEW H, NEW e, NEW sibling, Growing(g, P, U, K, H),
         Fits(g, H, e), ~IsTask(e), Place(g, U, sibling, e.owner)
  PROVE  /\ Extends(g, NewProcess(g, sibling, e))
         /\ Growing(NewProcess(g, sibling, e), P, U, K \ {e.owner}, H)
<1>1. Entries(g) /\ Linked(g, U) /\ e.owner \in TasksOf(g)
  BY DEF Growing, Fits
<1>2. sibling = Alone \/ sibling \in ToSet(Slaves(g, e.owner))
  BY <1>1 DEF Place, Linked
<1>3. PICK n, f : n = NewExecution(g, sibling, e) /\ f = FreshId(g)
  OBVIOUS
<1>4. Inserts(g, n, f, e) /\ n.ahead = g.ahead
  BY <1>1, <1>2, <1>3, NewExecutionLemma
<1>5. PICK h : h = NewProcess(g, sibling, e)
  OBVIOUS
<1>6. /\ h.heap = n.heap /\ h.bindings = n.bindings /\ h.ahead = Append(g.ahead, f)
      /\ h = [heap |-> h.heap, ahead |-> h.ahead, bindings |-> h.bindings]
  <2>1. n = [heap |-> n.heap, ahead |-> n.ahead, bindings |-> n.bindings]
    BY <1>4 DEF Inserts
  <2>2. h = [n EXCEPT !.ahead = Append(n.ahead, f)]
    BY <1>3, <1>5 DEF NewProcess
  <2> QED
    BY <1>4, <2>1, <2>2
<1>7. Inserts(g, h, f, e)
  <2>1. Nodes(h) = Nodes(n)
    BY <1>6 DEF Nodes
  <2> QED
    BY <1>4, <1>6, <2>1 DEF Inserts
<1>8. Growing(h, P, U, (K \ {e.owner}) \cup {}, H)
  BY <1>6, <1>7, InsertedGrowing
<1>9. (K \ {e.owner}) \cup {} = K \ {e.owner}
  OBVIOUS
<1> QED
  BY <1>1, <1>5, <1>7, <1>8, <1>9, InsertedExtends

LEMMA NewDecompositionGrows ==
  ASSUME NEW g, NEW P, NEW U, NEW K, NEW H, NEW owner, NEW sibling, NEW dag, NEW pending,
         Growing(g, P, U, K, H), owner \in TasksOf(g), g.heap[owner].kind # "subterm",
         Place(g, U, sibling, owner), pending \in Stacks
  PROVE  /\ Extends(g, NewDecomposition(g, owner, sibling, dag, pending))
         /\ Growing(NewDecomposition(g, owner, sibling, dag, pending), P, U, K \ {owner}, H)
<1>1. PICK e : e = [kind |-> "decomposition", owner |-> owner, dag |-> dag, pending |-> pending]
  OBVIOUS
<1>2. ~IsTask(e) /\ e.owner = owner
  BY <1>1 DEF IsTask
<1>3. Fits(g, H, e)
  <2>1. GoodProcess(e) /\ ~Inner(e) /\ ~Behind(e)
    BY <1>1, <1>2 DEF GoodProcess, Inner, Behind
  <2> QED
    BY <1>2, <2>1 DEF Fits, GoodEntry
<1> QED
  BY <1>1, <1>2, <1>3, NewProcessGrows DEF NewDecomposition

(* A task with its first process.                                          *)
LEMMA NewTaskGrows ==
  ASSUME NEW g, NEW P, NEW U, NEW K, NEW H, NEW task, NEW sibling, NEW dag, NEW strategy,
         Growing(g, P, U, K, H), Fits(g, H, task), IsTask(task), task.kind # "subterm",
         Place(g, U, sibling, task.owner), strategy \in DOMAIN Expr
  PROVE  /\ Extends(g, NewTask(g, sibling, task, dag, strategy))
         /\ Growing(NewTask(g, sibling, task, dag, strategy), P, U, K \ {task.owner}, H)
<1>1. PICK n, f : n = NewExecution(g, sibling, task) /\ f = FreshId(g)
  OBVIOUS
<1>2. /\ Inserts(g, n, f, task) /\ Extends(g, n)
      /\ Growing(n, P, U, (K \ {task.owner}) \cup {f}, H)
  BY <1>1, NewExecutionGrows
<1>3. f \in TasksOf(n) /\ n.heap[f].kind # "subterm"
  BY <1>2 DEF Inserts, TasksOf
<1>4. <<strategy>> \in Stacks
  BY SingleLemma DEF Stacks
<1>5. PICK h : h = NewTask(g, sibling, task, dag, strategy)
  OBVIOUS
<1>6. h = NewDecomposition(n, f, Alone, dag, <<strategy>>)
  BY <1>1, <1>5 DEF NewTask
<1>7. Extends(n, h) /\ Growing(h, P, U, ((K \ {task.owner}) \cup {f}) \ {f}, H)
  BY <1>2, <1>3, <1>4, <1>6, NewDecompositionGrows DEF Place
<1>8. Growing(h, P, U, K \ {task.owner}, H)
  BY <1>7, BusyWider
<1> QED
  BY <1>2, <1>5, <1>7, <1>8, GrowingRoot, ExtendsTransitive

LEMMA TaskFields ==
  ASSUME NEW kind, NEW owner, NEW inherited, NEW pending, NEW more, NEW e,
         \/ e = Task(kind, owner, inherited, pending)
         \/ e = Extended(Task(kind, owner, inherited, pending), more)
  PROVE  /\ IsTask(e) /\ e.kind = kind /\ e.owner = owner /\ e.vars = inherited /\ e.pending = pending
         /\ e.slaves = <<>>
         /\ {"kind", "owner", "slaves", "seen", "vars", "pending"} \subseteq DOMAIN e
<1>1. PICK t : t = Task(kind, owner, inherited, pending)
  OBVIOUS
<1>2. /\ t.kind = kind /\ t.owner = owner /\ t.vars = inherited /\ t.pending = pending /\ t.slaves = <<>>
      /\ DOMAIN t = {"kind", "owner", "slaves", "seen", "vars", "pending"}
  BY <1>1 DEF Task
<1>3. CASE e = t
  BY <1>2, <1>3 DEF IsTask
<1>4. CASE e = Extended(t, more)
  <2>1. e = [x \in DOMAIN t \cup DOMAIN more |-> IF x \in DOMAIN t THEN t[x] ELSE more[x]]
    BY <1>4 DEF Extended
  <2>2. DOMAIN t \subseteq DOMAIN e /\ \A x \in DOMAIN t : e[x] = t[x]
    BY <2>1
  <2> QED
    BY <1>2, <2>2 DEF IsTask
<1> QED
  BY <1>1, <1>3, <1>4

LEMMA MoreFields ==
  ASSUME NEW kind, NEW owner, NEW inherited, NEW pending, NEW more, NEW x,
         x \in DOMAIN more, x \notin {"kind", "owner", "slaves", "seen", "vars", "pending"},
         NEW e, e = Extended(Task(kind, owner, inherited, pending), more)
  PROVE  x \in DOMAIN e /\ e[x] = more[x]
BY DEF Extended, Task

(* The executions that may have siblings like those of a strategy.         *)
Outside(g, U, x) == x \in Nodes(g) \ U /\ x # ROOT /\ ~Inner(g.heap[x])

LEMMA OutsideLemma ==
  ASSUME NEW g, NEW P, NEW U, NEW K, NEW H, NEW x, Growing(g, P, U, K, H), Outside(g, U, x)
  PROVE  /\ Owner(g, x) \in TasksOf(g) /\ g.heap[Owner(g, x)].kind # "subterm"
         /\ Owner(g, x) \in Nodes(g)
         /\ Place(g, U, x, Owner(g, x))
         /\ \A h : Extends(g, h) => Outside(h, U, x)
<1>1. Owner(g, x) \in TasksOf(g) /\ g.heap[Owner(g, x)].kind # "subterm"
  BY DEF Growing, Owned, Outside
<1>2. Place(g, U, x, Owner(g, x))
  BY DEF Place, Outside, Children
<1>3. \A h : Extends(g, h) => Outside(h, U, x)
  BY ExtendsLemma DEF Outside
<1> QED
  BY <1>1, <1>2, <1>3 DEF TasksOf

LEMMA ResumeOwnerGrows ==
  ASSUME NEW g, NEW P, NEW U, NEW K, NEW H, NEW task, NEW dag, NEW pending, Growing(g, P, U, K, H),
         Outside(g, U, task), pending \in Stacks
  PROVE  /\ Extends(g, ResumeOwner(g, task, dag, pending))
         /\ Growing(ResumeOwner(g, task, dag, pending), P, U, K, H)
<1>1. PICK h : h = ResumeOwner(g, task, dag, pending)
  OBVIOUS
<1>2. h = NewDecomposition(g, Owner(g, task), task, dag, pending)
  BY <1>1 DEF ResumeOwner
<1>3. Extends(g, h) /\ Growing(h, P, U, K \ {Owner(g, task)}, H)
  BY <1>2, OutsideLemma, NewDecompositionGrows
<1> QED
  BY <1>1, <1>3, BusyWider

LEMMA NewBranchTaskGrows ==
  ASSUME NEW g, NEW P, NEW U, NEW K, NEW H, NEW sibling, NEW dag, NEW expression, NEW pending,
         Growing(g, P, U, K, H), Outside(g, U, sibling), expression \in Branches, pending \in Stacks
  PROVE  /\ Extends(g, NewBranchTask(g, sibling, dag, expression, pending))
         /\ Growing(NewBranchTask(g, sibling, dag, expression, pending), P, U, K, H)
<1>1. PICK o, inherited, more, e :
        /\ o = Owner(g, sibling) /\ inherited = VarsOf(g, sibling)
        /\ more = [start |-> dag, expression |-> expression, success |-> FALSE]
        /\ e = Extended(Task("branch", o, inherited, pending), more)
  OBVIOUS
<1>2. /\ IsTask(e) /\ e.kind = "branch" /\ e.owner = o /\ e.vars = inherited /\ e.pending = pending
      /\ e.slaves = <<>>
      /\ {"kind", "owner", "slaves", "seen", "vars", "pending"} \subseteq DOMAIN e
  BY <1>1, TaskFields
<1>3. "expression" \in DOMAIN e /\ e.expression = expression
  <2>1. PICK x : x = "expression" /\ x \in DOMAIN more /\ more[x] = expression
    BY <1>1
  <2>2. x \notin {"kind", "owner", "slaves", "seen", "vars", "pending"}
    BY <2>1
  <2>3. x \in DOMAIN e /\ e[x] = more[x]
    BY <1>1, <2>1, <2>2, MoreFields
  <2> QED
    BY <2>1, <2>3
<1>4. GoodEntry(e)
  BY <1>2, <1>3 DEF GoodEntry, GoodTask, TaskKinds
<1>5. Fits(g, H, e)
  <2>1. o \in TasksOf(g) /\ g.heap[o].kind # "subterm" /\ g.heap[o].vars = inherited
    BY <1>1, OutsideLemma DEF VarsOf
  <2> QED
    BY <1>2, <1>4, <2>1 DEF Fits, Inner, Behind, GoodVars
<1>6. Expr[expression].initial \in DOMAIN Expr
  BY StrategyAssumption DEF Branches, IsExpression
<1>7. PICK h : h = NewBranchTask(g, sibling, dag, expression, pending)
  OBVIOUS
<1>8. h = NewTask(g, sibling, e, dag, Expr[expression].initial)
  BY <1>1, <1>7 DEF NewBranchTask
<1>9. Extends(g, h) /\ Growing(h, P, U, K \ {o}, H)
  <2>1. Place(g, U, sibling, e.owner)
    BY <1>1, <1>2, OutsideLemma
  <2> QED
    BY <1>2, <1>5, <1>6, <1>8, <2>1, NewTaskGrows
<1> QED
  BY <1>7, <1>9, BusyWider

LEMMA NewRewriteTaskGrows ==
  ASSUME NEW g, NEW P, NEW U, NEW K, NEW H, NEW sibling, NEW dag, NEW rule, NEW strategies, NEW pending,
         Growing(g, P, U, K, H), Outside(g, U, sibling), strategies \in Stacks, strategies # <<>>,
         pending \in Stacks
  PROVE  /\ Extends(g, NewRewriteTask(g, sibling, dag, rule, strategies, pending))
         /\ Growing(NewRewriteTask(g, sibling, dag, rule, strategies, pending), P, U, K, H)
<1>1. PICK o, inherited, rest, more, e :
        /\ o = Owner(g, sibling) /\ inherited = VarsOf(g, sibling) /\ rest = Tail(strategies)
        /\ more = [rule |-> rule, strategies |-> rest]
        /\ e = Extended(Task("rewrite", o, inherited, pending), more)
  OBVIOUS
<1>2. /\ IsTask(e) /\ e.kind = "rewrite" /\ e.owner = o /\ e.vars = inherited /\ e.pending = pending
      /\ e.slaves = <<>>
      /\ {"kind", "owner", "slaves", "seen", "vars", "pending"} \subseteq DOMAIN e
  BY <1>1, TaskFields
<1>3. "strategies" \in DOMAIN e /\ e.strategies = rest
  <2>1. PICK x : x = "strategies" /\ x \in DOMAIN more /\ more[x] = rest
    BY <1>1
  <2>2. x \notin {"kind", "owner", "slaves", "seen", "vars", "pending"}
    BY <2>1
  <2>3. x \in DOMAIN e /\ e[x] = more[x]
    <3>1. e = Extended(Task("rewrite", o, inherited, pending), more)
      BY <1>1
    <3> HIDE <1>1
    <3> QED
      BY <2>1, <2>2, <3>1, MoreFields
  <2> QED
    BY <2>1, <2>3
<1>4. rest \in Stacks /\ Head(strategies) \in DOMAIN Expr
  BY <1>1, TailedLemma DEF Stacks
<1>5. GoodEntry(e)
  BY <1>2, <1>3, <1>4 DEF GoodEntry, GoodTask, TaskKinds
<1>6. Fits(g, H, e)
  <2>1. o \in TasksOf(g) /\ g.heap[o].kind # "subterm" /\ g.heap[o].vars = inherited
    BY <1>1, OutsideLemma DEF VarsOf
  <2> QED
    BY <1>2, <1>5, <2>1 DEF Fits, Inner, Behind, GoodVars
<1>7. PICK h : h = NewRewriteTask(g, sibling, dag, rule, strategies, pending)
  OBVIOUS
<1>8. h = NewTask(g, sibling, e, dag, Head(strategies))
  BY <1>1, <1>7 DEF NewRewriteTask
<1>9. Extends(g, h) /\ Growing(h, P, U, K \ {o}, H)
  <2>1. Place(g, U, sibling, e.owner)
    BY <1>1, <1>2, OutsideLemma
  <2> QED
    BY <1>2, <1>4, <1>6, <1>8, <2>1, NewTaskGrows
<1> QED
  BY <1>7, <1>9, BusyWider

(* The tasks of one(...) and of calls, which have no more fields.          *)
LEMMA NewOneTaskGrows ==
  ASSUME NEW g, NEW P, NEW U, NEW K, NEW H, NEW sibling, NEW dag, NEW strategy, NEW pending,
         Growing(g, P, U, K, H), Outside(g, U, sibling), strategy \in DOMAIN Expr, pending \in Stacks,
         NEW h, h = NewTask(g, sibling, Task("one", Owner(g, sibling), VarsOf(g, sibling), pending),
                            dag, strategy)
  PROVE  Extends(g, h) /\ Growing(h, P, U, K, H)
<1>1. PICK o, inherited, e :
        /\ o = Owner(g, sibling) /\ inherited = VarsOf(g, sibling)
        /\ e = Task("one", o, inherited, pending)
  OBVIOUS
<1>2. /\ IsTask(e) /\ e.kind = "one" /\ e.owner = o /\ e.vars = inherited /\ e.pending = pending
      /\ e.slaves = <<>>
      /\ {"kind", "owner", "slaves", "seen", "vars", "pending"} \subseteq DOMAIN e
  BY <1>1, TaskFields
<1>3. GoodEntry(e)
  BY <1>2 DEF GoodEntry, GoodTask, TaskKinds
<1>4. Fits(g, H, e)
  <2>1. o \in TasksOf(g) /\ g.heap[o].kind # "subterm" /\ g.heap[o].vars = inherited
    BY <1>1, OutsideLemma DEF VarsOf
  <2> QED
    BY <1>2, <1>3, <2>1 DEF Fits, Inner, Behind, GoodVars
<1>5. Extends(g, h) /\ Growing(h, P, U, K \ {o}, H)
  <2>1. Place(g, U, sibling, e.owner)
    BY <1>1, <1>2, OutsideLemma
  <2> QED
    BY <1>1, <1>2, <1>4, <2>1, NewTaskGrows
<1> QED
  BY <1>5, BusyWider

LEMMA NewCallTaskGrows ==
  ASSUME NEW g, NEW P, NEW U, NEW K, NEW H, NEW sibling, NEW dag, NEW rhs, NEW pending, NEW context,
         Growing(g, P, U, K, H), Outside(g, U, sibling), rhs \in DOMAIN Expr, pending \in Stacks,
         context # EMPTY_CONTEXT =>
           Open(g.bindings, context) /\ \A t \in Holders(g, H) : g.heap[t].vars # context
  PROVE  /\ Extends(g, NewCallTask(g, sibling, dag, rhs, pending, context))
         /\ Growing(NewCallTask(g, sibling, dag, rhs, pending, context), P, U, K, H)
<1>1. PICK o, e : o = Owner(g, sibling) /\ e = Task("call", o, context, pending)
  OBVIOUS
<1>2. /\ IsTask(e) /\ e.kind = "call" /\ e.owner = o /\ e.vars = context /\ e.pending = pending
      /\ e.slaves = <<>>
      /\ {"kind", "owner", "slaves", "seen", "vars", "pending"} \subseteq DOMAIN e
  BY <1>1, TaskFields
<1>3. GoodEntry(e)
  BY <1>2 DEF GoodEntry, GoodTask, TaskKinds
<1>4. Fits(g, H, e)
  <2>1. o \in TasksOf(g) /\ g.heap[o].kind # "subterm"
    BY <1>1, OutsideLemma
  <2> QED
    BY <1>2, <1>3, <2>1 DEF Fits, Inner, Behind, GoodVars
<1>5. PICK h : h = NewCallTask(g, sibling, dag, rhs, pending, context)
  OBVIOUS
<1>6. h = NewTask(g, sibling, e, dag, rhs)
  BY <1>1, <1>5 DEF NewCallTask
<1>7. Extends(g, h) /\ Growing(h, P, U, K \ {o}, H)
  <2>1. Place(g, U, sibling, e.owner)
    BY <1>1, <1>2, OutsideLemma
  <2> QED
    BY <1>2, <1>4, <1>6, <2>1, NewTaskGrows
<1> QED
  BY <1>5, <1>7, BusyWider

----------------------------------------------------------------------------
(* An execution that is changed and stays where it is.                     *)
Same(e, f) ==
  /\ IsTask(f) <=> IsTask(e)
  /\ f.owner = e.owner /\ f.kind = e.kind
  /\ IsTask(e) => f.vars = e.vars
  /\ Behind(f) => Behind(e)

Replaced(g, x, e) == [g EXCEPT !.heap[x] = e]

LEMMA ChangedKeeps ==
  ASSUME NEW g, NEW P, NEW H, Entries(g), Owned(g), Listed(g, P), Held(g, H), Inherited(g),
         NEW x \in Nodes(g), NEW e, GoodEntry(e), Same(g.heap[x], e),
         NEW h, h = Replaced(g, x, e)
  PROVE  /\ Entries(h) /\ Owned(h) /\ Listed(h, P) /\ Held(h, H) /\ Inherited(h)
         /\ h.heap[x] = e /\ \A y \in Nodes(g) \ {x} : h.heap[y] = g.heap[y]
         /\ Nodes(h) = Nodes(g) /\ TasksOf(h) = TasksOf(g) /\ h.bindings = g.bindings
         /\ \A y \in Nodes(g) : Owner(h, y) = Owner(g, y)
         /\ x # ROOT => Extends(g, h)
<1>1. PICK heap : heap = [g.heap EXCEPT ![x] = e]
  OBVIOUS
<1>2. /\ h = [heap |-> heap, ahead |-> g.ahead, bindings |-> g.bindings]
      /\ DOMAIN heap = Nodes(g) /\ heap[x] = e /\ \A y \in Nodes(g) \ {x} : heap[y] = g.heap[y]
  <2>1. g = [heap |-> g.heap, ahead |-> g.ahead, bindings |-> g.bindings]
    BY DEF Entries
  <2>2. h = [heap |-> heap, ahead |-> g.ahead, bindings |-> g.bindings]
    BY <1>1, <2>1 DEF Replaced
  <2> QED
    BY <1>1, <2>2 DEF Nodes
<1>3. /\ h = [heap |-> h.heap, ahead |-> h.ahead, bindings |-> h.bindings]
      /\ h.ahead = g.ahead /\ h.bindings = g.bindings /\ h.heap = heap /\ Nodes(h) = Nodes(g)
  <2>1. h.ahead = g.ahead /\ h.bindings = g.bindings /\ h.heap = heap
    BY <1>2
  <2>2. h = [heap |-> h.heap, ahead |-> h.ahead, bindings |-> h.bindings]
    BY <1>2, <2>1
  <2>3. Nodes(h) = Nodes(g)
    BY <1>2, <2>1 DEF Nodes
  <2> QED
    BY <2>1, <2>2, <2>3
<1>4. \A y \in Nodes(g) :
        /\ y # x => h.heap[y] = g.heap[y]
        /\ IsTask(h.heap[y]) <=> IsTask(g.heap[y])
        /\ Owner(h, y) = Owner(g, y) /\ h.heap[y].kind = g.heap[y].kind
        /\ IsTask(g.heap[y]) => h.heap[y].vars = g.heap[y].vars
        /\ Inner(h.heap[y]) <=> Inner(g.heap[y])
        /\ Behind(h.heap[y]) => Behind(g.heap[y])
        /\ GoodEntry(h.heap[y])
  <2> TAKE y \in Nodes(g)
  <2>1. CASE y = x
    <3>1. h.heap[y] = e
      BY <1>2, <1>3, <2>1
    <3> QED
      BY <2>1, <3>1 DEF Same, Owner, Inner
  <2>2. CASE y # x
    <3>1. h.heap[y] = g.heap[y] /\ GoodEntry(g.heap[y])
      BY <1>2, <1>3, <2>2 DEF Entries
    <3> QED
      BY <2>2, <3>1 DEF Owner
  <2> QED
    BY <2>1, <2>2
<1>5. /\ TasksOf(h) = TasksOf(g) /\ TasksOf(g) \subseteq Nodes(g) /\ ROOT \in TasksOf(g)
      /\ \A t \in TasksOf(g) : h.heap[t].vars = g.heap[t].vars /\ h.heap[t].kind = g.heap[t].kind
  BY <1>3, <1>4 DEF TasksOf, Entries
<1>6. Entries(h)
  BY <1>3, <1>4, <1>5 DEF Entries
<1>7. Owned(h)
  <2>1. ASSUME NEW y \in Nodes(h) \ {ROOT}
        PROVE  /\ Owner(h, y) \in TasksOf(h)
               /\ h.heap[Owner(h, y)].kind = "subterm" <=> Inner(h.heap[y])
               /\ Behind(h.heap[y]) => h.heap[Owner(h, y)].kind = "call"
    <3>1. /\ Owner(g, y) \in TasksOf(g)
          /\ g.heap[Owner(g, y)].kind = "subterm" <=> Inner(g.heap[y])
          /\ Behind(g.heap[y]) => g.heap[Owner(g, y)].kind = "call"
      BY <1>3, <2>1 DEF Owned
    <3> QED
      BY <1>3, <1>4, <1>5, <2>1, <3>1
  <2>2. ASSUME NEW X \in SUBSET (Nodes(h) \ {ROOT}), X # {}
        PROVE  \E y \in X : Owner(h, y) \notin X
    <3>1. PICK y \in X : Owner(g, y) \notin X
      BY <1>3, <2>2 DEF Owned
    <3> QED
      BY <1>3, <1>4, <2>2, <3>1
  <2> QED
    BY <2>1, <2>2 DEF Owned
<1>8. Listed(h, P)
  BY <1>3, <1>5 DEF Listed
<1>9. Held(h, H)
  <2>1. Holders(h, H) = Holders(g, H) /\ Holders(g, H) \subseteq TasksOf(g)
    BY <1>5 DEF Holders
  <2> QED
    BY <1>3, <1>5, <2>1 DEF Held
<1>10. Inherited(h)
  <2>1. h.heap[ROOT].vars = EMPTY_CONTEXT
    BY <1>5 DEF Inherited
  <2>2. ASSUME NEW t \in TasksOf(h), h.heap[t].kind \notin {"root", "subterm", "call"}
        PROVE  h.heap[t].vars = VarsOf(h, t)
    <3>1. t \in TasksOf(g) /\ g.heap[t].kind \notin {"root", "subterm", "call"}
      BY <1>5, <2>2
    <3>2. t \in Nodes(g) \ {ROOT}
      BY <1>5, <3>1 DEF Entries
    <3>3. Owner(g, t) \in TasksOf(g)
      BY <3>2 DEF Owned
    <3>4. g.heap[t].vars = g.heap[Owner(g, t)].vars
      BY <3>1 DEF Inherited, VarsOf
    <3>5. Owner(h, t) = Owner(g, t)
      BY <1>4, <3>2
    <3> QED
      BY <1>5, <3>1, <3>3, <3>4, <3>5 DEF VarsOf
  <2> QED
    BY <2>1, <2>2 DEF Inherited
<1>11. x # ROOT => Extends(g, h)
  <2>1. ROOT \in Nodes(g)
    BY DEF Entries, TasksOf
  <2> QED
    BY <1>3, <1>4, <2>1 DEF Extends
<1> QED
  BY <1>2, <1>3, <1>4, <1>5, <1>6, <1>7, <1>8, <1>9, <1>10, <1>11

LEMMA UpdatedGrows ==
  ASSUME NEW g, NEW P, NEW U, NEW K, NEW H, Growing(g, P, U, K, H), NEW x \in Nodes(g),
         NEW e, GoodEntry(e), Same(g.heap[x], e), IsTask(e) => e.slaves = Slaves(g, x),
         NEW h, h = Replaced(g, x, e)
  PROVE  /\ Growing(h, P, U, K, H)
         /\ Nodes(h) = Nodes(g) /\ h.heap[x] = e /\ \A y \in Nodes(g) \ {x} : h.heap[y] = g.heap[y]
         /\ TasksOf(h) = TasksOf(g)
         /\ h.bindings = g.bindings /\ \A t \in TasksOf(g) : Slaves(h, t) = Slaves(g, t)
         /\ x # ROOT => Extends(g, h)
<1>1. Entries(g) /\ Linked(g, U) /\ Owned(g) /\ Listed(g, P) /\ Busy(g, K) /\ Held(g, H) /\ Inherited(g)
  BY DEF Growing
<1>2. /\ Entries(h) /\ Owned(h) /\ Listed(h, P) /\ Held(h, H) /\ Inherited(h)
      /\ h.heap[x] = e /\ \A y \in Nodes(g) \ {x} : h.heap[y] = g.heap[y]
      /\ Nodes(h) = Nodes(g) /\ TasksOf(h) = TasksOf(g) /\ h.bindings = g.bindings
      /\ \A y \in Nodes(g) : Owner(h, y) = Owner(g, y)
      /\ x # ROOT => Extends(g, h)
  BY <1>1, ChangedKeeps
<1>3. \A t \in TasksOf(g) : Slaves(h, t) = Slaves(g, t)
  BY <1>2 DEF TasksOf, Slaves
<1>4. Linked(h, U)
  <2>1. \A t : Children(h, U, t) = Children(g, U, t)
    BY <1>2 DEF Children
  <2> QED
    BY <1>1, <1>2, <1>3, <2>1 DEF Linked
<1>5. Busy(h, K)
  BY <1>1, <1>2, <1>3 DEF Busy
<1> QED
  BY <1>2, <1>3, <1>4, <1>5 DEF Growing

(* An execution leaves the list of its owner.                              *)
Leaves(g, h, P, U, K, H, id) ==
  /\ Growing(h, P, U \cup {id}, K \cup (IF IsLast(g, id) THEN {Owner(g, id)} ELSE {}), H)
  /\ Extends(g, h) /\ Nodes(h) = Nodes(g) /\ TasksOf(h) = TasksOf(g) /\ Owner(g, id) \in TasksOf(g)
  /\ \A t \in TasksOf(g) \ {Owner(g, id)} : h.heap[t] = g.heap[t]
  /\ Slaves(h, Owner(g, id)) = <<>> <=> IsLast(g, id)
LEMMA UnlinkedGrows ==
  ASSUME NEW g, NEW P, NEW U, NEW K, NEW H, Growing(g, P, U, K, H), NEW id \in Nodes(g) \ U,
         id # ROOT, NEW h, h = Unlinked(g, id)
  PROVE  Leaves(g, h, P, U, K, H, id)
<1>0. PICK o : o = Owner(g, id)
  OBVIOUS
<1>1. Entries(g) /\ Linked(g, U) /\ Owned(g) /\ Listed(g, P) /\ Busy(g, K) /\ Held(g, H) /\ Inherited(g)
  BY DEF Growing
<1>2. o \in TasksOf(g) /\ o \in Nodes(g) /\ IsTask(g.heap[o]) /\ GoodTask(g.heap[o])
  BY <1>0, <1>1 DEF Owned, TasksOf, Entries, GoodEntry
<1>3. PICK u, list, v :
        u = g.heap[o] /\ list = Dropped(u.slaves, {id}) /\ v = [u EXCEPT !.slaves = list]
  OBVIOUS
<1>4. h = Replaced(g, o, v)
  BY <1>0, <1>3 DEF Unlinked, Replaced
<1>5. /\ u.slaves \in Seq(Nodes(g)) /\ IsInjective(u.slaves) /\ ToSet(u.slaves) = Children(g, U, o)
      /\ id \in ToSet(u.slaves)
  BY <1>0, <1>1, <1>2, <1>3 DEF Linked, Slaves, Children
<1>6. list \in Seq(Nodes(g)) /\ IsInjective(list) /\ ToSet(list) = ToSet(u.slaves) \ {id}
  BY <1>3, <1>5, DroppedLemma, DroppedInjective
<1>7. /\ DOMAIN v = DOMAIN u /\ v.slaves = list /\ \A f \in DOMAIN u \ {"slaves"} : v[f] = u[f]
      /\ GoodTask(u) /\ IsTask(u)
  <2>1. GoodTask(u) /\ IsTask(u)
    BY <1>2, <1>3
  <2> QED
    BY <1>3, <2>1 DEF IsTask
<1>8. /\ v.kind = u.kind /\ v.owner = u.owner /\ v.vars = u.vars /\ v.pending = u.pending
      /\ u.kind = "branch" => v.expression = u.expression
      /\ u.kind = "rewrite" => v.strategies = u.strategies
      /\ u.kind = "root" => v.solution = u.solution /\ v.exhausted = u.exhausted
  BY <1>7 DEF GoodTask
<1>9. GoodEntry(v) /\ Same(u, v) /\ IsTask(v)
  <2>1. IsTask(v)
    BY <1>7 DEF IsTask
  <2>2. GoodTask(v)
    BY <1>7, <1>8 DEF GoodTask
  <2> QED
    BY <1>7, <1>8, <2>1, <2>2 DEF GoodEntry, Same, Behind
<1>10. /\ Entries(h) /\ Owned(h) /\ Listed(h, P) /\ Held(h, H) /\ Inherited(h)
       /\ h.heap[o] = v /\ \A y \in Nodes(g) \ {o} : h.heap[y] = g.heap[y]
       /\ Nodes(h) = Nodes(g) /\ TasksOf(h) = TasksOf(g)
       /\ \A y \in Nodes(g) : Owner(h, y) = Owner(g, y)
       /\ o # ROOT => Extends(g, h)
  BY <1>1, <1>2, <1>3, <1>4, <1>9, ChangedKeeps
<1>11. TasksOf(g) \subseteq Nodes(g) /\ ROOT \in TasksOf(g) /\ g.heap[ROOT].kind = "root"
  BY <1>1 DEF TasksOf, Entries
<1>12. Extends(g, h)
  <2>1. CASE o = ROOT
    <3>1. \A x \in Nodes(g) :
            /\ IsTask(h.heap[x]) <=> IsTask(g.heap[x])
            /\ Owner(h, x) = Owner(g, x) /\ h.heap[x].kind = g.heap[x].kind
            /\ IsTask(g.heap[x]) => h.heap[x].vars = g.heap[x].vars
      <4> TAKE x \in Nodes(g)
      <4>1. CASE x = o
        BY <1>3, <1>7, <1>8, <1>9, <1>10, <4>1
      <4>2. CASE x # o
        BY <1>10, <4>2
      <4> QED
        BY <4>1, <4>2
    <3>2. /\ h.heap[ROOT].solution = g.heap[ROOT].solution
          /\ h.heap[ROOT].exhausted = g.heap[ROOT].exhausted
      BY <1>3, <1>8, <1>10, <1>11, <2>1
    <3> QED
      BY <1>10, <3>1, <3>2 DEF Extends
  <2> QED
    BY <1>10, <2>1
<1>13. /\ Slaves(h, o) = list
       /\ \A t \in TasksOf(g) \ {o} : Slaves(h, t) = Slaves(g, t) /\ h.heap[t] = g.heap[t]
  BY <1>7, <1>10, <1>11 DEF Slaves
<1>14. Linked(h, U \cup {id})
  <2>1. U \cup {id} \subseteq Nodes(h) \ {ROOT}
    BY <1>1, <1>10 DEF Linked
  <2>2. \A t : Children(h, U \cup {id}, t) = Children(g, U, t) \ {id}
    BY <1>10 DEF Children
  <2>3. \A t \in TasksOf(g) : /\ Slaves(g, t) \in Seq(Nodes(g)) /\ IsInjective(Slaves(g, t))
                              /\ ToSet(Slaves(g, t)) = Children(g, U, t)
    BY <1>1 DEF Linked
  <2>4. \A t \in TasksOf(g) \ {o} : id \notin Children(g, U, t)
    BY <1>0 DEF Children
  <2>5. \A t \in TasksOf(h) : /\ Slaves(h, t) \in Seq(Nodes(h)) /\ IsInjective(Slaves(h, t))
                              /\ ToSet(Slaves(h, t)) = Children(h, U \cup {id}, t)
    <3> TAKE t \in TasksOf(h)
    <3>1. CASE t = o
      BY <1>5, <1>6, <1>10, <1>13, <2>2, <3>1
    <3>2. CASE t # o
      <4>1. t \in TasksOf(g) \ {o}
        BY <1>10, <3>2
      <4>2. Children(h, U \cup {id}, t) = Children(g, U, t)
        BY <2>2, <2>4, <4>1
      <4> QED
        BY <1>10, <1>13, <2>3, <4>1, <4>2
    <3> QED
      BY <3>1, <3>2
  <2> QED
    BY <2>1, <2>5 DEF Linked
<1>15. list = <<>> <=> IsLast(g, id)
  <2>1. IsLast(g, id) <=> u.slaves = <<id>>
    BY <1>0, <1>3 DEF IsLast, Slaves
  <2>2. u.slaves = <<id>> <=> ToSet(u.slaves) = {id}
    BY <1>5, OnlyLemma, SingleLemma
  <2>3. list = <<>> <=> ToSet(list) = {}
    BY <1>6, NonEmptyList
  <2> QED
    BY <1>5, <1>6, <2>1, <2>2, <2>3
<1>16. Busy(h, K \cup (IF IsLast(g, id) THEN {o} ELSE {}))
  BY <1>1, <1>10, <1>13, <1>15 DEF Busy
<1>17. /\ Growing(h, P, U \cup {id}, K \cup (IF IsLast(g, id) THEN {o} ELSE {}), H)
       /\ Extends(g, h) /\ Nodes(h) = Nodes(g) /\ TasksOf(h) = TasksOf(g) /\ o \in TasksOf(g)
       /\ \A t \in TasksOf(g) \ {o} : h.heap[t] = g.heap[t]
       /\ Slaves(h, o) = <<>> <=> IsLast(g, id)
  BY <1>2, <1>10, <1>12, <1>13, <1>14, <1>15, <1>16 DEF Growing
<1>18. Leaves(g, h, P, U, K, H, id) <=>
        /\ Growing(h, P, U \cup {id}, K \cup (IF IsLast(g, id) THEN {o} ELSE {}), H)
        /\ Extends(g, h) /\ Nodes(h) = Nodes(g) /\ TasksOf(h) = TasksOf(g) /\ o \in TasksOf(g)
        /\ \A t \in TasksOf(g) \ {o} : h.heap[t] = g.heap[t]
        /\ Slaves(h, o) = <<>> <=> IsLast(g, id)
  BY <1>0 DEF Leaves
<1> QED
  BY <1>17, <1>18

(* The fields that do not matter.                                          *)
WithField(e, field, value) == [e EXCEPT ![field] = value]

LEMMA TaskFieldKept ==
  ASSUME NEW e, IsTask(e), GoodEntry(e), NEW field \in {"seen", "success", "results", "solution", "exhausted"},
         NEW value, NEW f, f = WithField(e, field, value)
  PROVE  /\ GoodEntry(f) /\ Same(e, f) /\ IsTask(f) /\ f.slaves = e.slaves
         /\ field \in DOMAIN e => f[field] = value
         /\ \A other \in DOMAIN e \ {field} : f[other] = e[other]
<1>1. /\ DOMAIN f = DOMAIN e
      /\ \A other \in DOMAIN e : f[other] = IF other = field THEN value ELSE e[other]
  BY DEF WithField
<1>2. GoodTask(e) /\ IsTask(f)
  BY <1>1 DEF GoodEntry, IsTask
<1>3. /\ f.kind = e.kind /\ f.owner = e.owner /\ f.slaves = e.slaves /\ f.vars = e.vars
      /\ f.pending = e.pending
  BY <1>1, <1>2 DEF GoodTask
<1>4. /\ e.kind = "branch" => f.expression = e.expression
      /\ e.kind = "rewrite" => f.strategies = e.strategies
  BY <1>1, <1>2 DEF GoodTask
<1>5. GoodTask(f)
  BY <1>1, <1>2, <1>3, <1>4 DEF GoodTask
<1> QED
  BY <1>1, <1>2, <1>3, <1>5 DEF GoodEntry, Same, Behind

LEMMA ProcessFieldKept ==
  ASSUME NEW e, ~IsTask(e), GoodEntry(e), NEW field \in {"pending", "todo"},
         NEW value, NEW f, f = WithField(e, field, value),
         field = "pending" => value \in Stacks,
         field = "todo" /\ e.kind = "call" => DOMAIN value = DOMAIN e.todo
  PROVE  /\ GoodEntry(f) /\ Same(e, f) /\ ~IsTask(f)
         /\ field \in DOMAIN e => f[field] = value
         /\ \A other \in DOMAIN e \ {field} : f[other] = e[other]
<1>1. /\ DOMAIN f = DOMAIN e
      /\ \A other \in DOMAIN e : f[other] = IF other = field THEN value ELSE e[other]
  BY DEF WithField
<1>2. GoodProcess(e) /\ ~IsTask(f)
  BY <1>1 DEF GoodEntry, IsTask
<1>3. f.kind = e.kind /\ f.owner = e.owner
  BY <1>1, <1>2 DEF GoodProcess
<1>4. /\ e.kind # "remaining" => f.pending \in Stacks
      /\ e.kind \in {"application", "match"} => f.strategies = e.strategies
      /\ e.kind = "call" => f.strategy = e.strategy /\ f.tail = e.tail /\ DOMAIN f.todo = DOMAIN e.todo
      /\ e.kind = "matchrew" => f.expression = e.expression
  BY <1>1, <1>2 DEF GoodProcess
<1>5. GoodProcess(f)
  BY <1>1, <1>2, <1>3, <1>4 DEF GoodProcess
<1> QED
  BY <1>1, <1>2, <1>3, <1>4, <1>5 DEF GoodEntry, Same, Behind

(* The contexts change.                                                    *)
LEMMA BoundGrows ==
  ASSUME NEW g, NEW P, NEW U, NEW K, NEW H, Growing(g, P, U, K, H), NEW b, NEW G, NEW h,
         h = [g EXCEPT !.bindings = b], GoodTable(b),
         \A t \in Holders(g, G) : t \in Holders(g, H) /\ Open(b, g.heap[t].vars)
  PROVE  /\ Growing(h, P, U, K, G) /\ Extends(g, h)
         /\ h.heap = g.heap /\ h.bindings = b /\ Holders(h, G) = Holders(g, G)
<1>1. Entries(g) /\ Linked(g, U) /\ Owned(g) /\ Listed(g, P) /\ Busy(g, K) /\ Held(g, H) /\ Inherited(g)
  BY DEF Growing
<1>2. h.heap = g.heap /\ h.ahead = g.ahead /\ h.bindings = b
      /\ h = [heap |-> h.heap, ahead |-> h.ahead, bindings |-> h.bindings]
  <2>1. g = [heap |-> g.heap, ahead |-> g.ahead, bindings |-> g.bindings]
    BY <1>1 DEF Entries
  <2> QED
    BY <2>1
<1>3. /\ Nodes(h) = Nodes(g) /\ TasksOf(h) = TasksOf(g) /\ Holders(h, G) = Holders(g, G)
      /\ \A x : Owner(h, x) = Owner(g, x) /\ Slaves(h, x) = Slaves(g, x) /\ VarsOf(h, x) = VarsOf(g, x)
      /\ \A t : Children(h, U, t) = Children(g, U, t)
  BY <1>2 DEF Nodes, TasksOf, Holders, Owner, Slaves, VarsOf, Children
<1>4. Entries(h)
  BY <1>1, <1>2, <1>3 DEF Entries
<1>5. Linked(h, U) /\ Owned(h) /\ Listed(h, P) /\ Busy(h, K) /\ Inherited(h)
  <2>1. Linked(h, U)
    BY <1>1, <1>2, <1>3 DEF Linked
  <2>2. Owned(h)
    BY <1>1, <1>2, <1>3 DEF Owned
  <2>3. Listed(h, P) /\ Busy(h, K)
    BY <1>1, <1>2, <1>3 DEF Listed, Busy
  <2>4. Inherited(h)
    BY <1>1, <1>2, <1>3 DEF Inherited
  <2> QED
    BY <2>1, <2>2, <2>3, <2>4
<1>6. Held(h, G)
  BY <1>1, <1>2, <1>3 DEF Held
<1>7. Extends(g, h)
  BY <1>2, <1>3 DEF Extends
<1> QED
  BY <1>2, <1>3, <1>4, <1>5, <1>6, <1>7 DEF Growing

(* The contexts of the tasks are live as long as none was told that it has *)
(* no slaves: those that did not open theirs have the one of their owner.  *)
LEMMA AllOpen ==
  ASSUME NEW g, NEW P, NEW U, NEW K, Growing(g, P, U, K, {})
  PROVE  \A t \in TasksOf(g) : g.heap[t].vars = EMPTY_CONTEXT \/ Open(g.bindings, g.heap[t].vars)
<1>1. Entries(g) /\ Owned(g) /\ Held(g, {}) /\ Inherited(g)
  BY DEF Growing
<1>2. PICK X : X = {t \in TasksOf(g) : ~(g.heap[t].vars = EMPTY_CONTEXT \/ Open(g.bindings, g.heap[t].vars))}
  OBVIOUS
<1>3. SUFFICES ASSUME X # {} PROVE FALSE
  BY <1>2
<1>4. X \in SUBSET (Nodes(g) \ {ROOT})
  BY <1>1, <1>2 DEF Inherited, TasksOf
<1>5. PICK x \in X : Owner(g, x) \notin X
  BY <1>1, <1>3, <1>4 DEF Owned
<1>6. x \in TasksOf(g) /\ x # ROOT /\ x \in Nodes(g)
  BY <1>2, <1>4, <1>5
<1>7. g.heap[x].vars # EMPTY_CONTEXT /\ ~Open(g.bindings, g.heap[x].vars)
  BY <1>2, <1>5
<1>8. x \notin Holders(g, {})
  BY <1>1, <1>7 DEF Held
<1>9. g.heap[x].kind \notin {"root", "subterm", "call"}
  BY <1>1, <1>6, <1>7, <1>8 DEF Holders, Entries
<1>10. g.heap[x].vars = g.heap[Owner(g, x)].vars
  BY <1>1, <1>6, <1>9 DEF Inherited, VarsOf
<1>11. Owner(g, x) \in TasksOf(g)
  BY <1>1, <1>4, <1>5 DEF Owned
<1> QED
  BY <1>2, <1>5, <1>7, <1>10, <1>11

----------------------------------------------------------------------------
(* The table of contexts, which are not shared in a search.                *)
LEMMA TableShape ==
  ASSUME NEW b, GoodTable(b)
  PROVE  /\ Len(b.table) \in Nat /\ Contexts(b) = 1 .. Len(b.table)
         /\ \A c \in Contexts(b) : b.table[c].users \in {0, 1}
         /\ \A c : Open(b, c) <=> c \in Contexts(b) /\ c \notin ToSet(b.free)
         /\ \A c : Open(b, c) => b.table[c].users = 1 /\ c # EMPTY_CONTEXT
         /\ ToSet(b.free) \subseteq Contexts(b)
<1>1. b.table \in Seq(Range(b.table)) /\ b.free \in Seq(Contexts(b))
  BY DEF GoodTable
<1>2. Len(b.table) \in Nat /\ Contexts(b) = 1 .. Len(b.table)
  BY <1>1 DEF Contexts
<1>3. \A c \in Contexts(b) : b.table[c].users = (IF c \in ToSet(b.free) THEN 0 ELSE 1)
  BY DEF GoodTable
<1>4. ToSet(b.free) \subseteq Contexts(b)
  BY <1>1, ToSetLemma
<1> QED
  BY <1>2, <1>3, <1>4 DEF Open, EMPTY_CONTEXT

(* A context is opened in a cell of its own.                               *)
LEMMA OpenedTable ==
  ASSUME NEW b, GoodTable(b), NEW values, NEW d, NEW c,
         d = OpenCell(b, values, NoFilter), c = NextContext(b)
  PROVE  /\ GoodTable(d) /\ Open(d, c) /\ ~Open(b, c) /\ c # EMPTY_CONTEXT
         /\ \A x : Open(b, x) => Open(d, x)
<1>1. /\ b = [table |-> b.table, free |-> b.free, current |-> b.current, substitution |-> b.substitution]
      /\ b.table \in Seq(Range(b.table)) /\ b.free \in Seq(Contexts(b)) /\ IsInjective(b.free)
      /\ \A x \in Contexts(b) : b.table[x].users = (IF x \in ToSet(b.free) THEN 0 ELSE 1)
  BY DEF GoodTable
<1>2. PICK n \in Nat : n = Len(b.table) /\ Contexts(b) = 1 .. n /\ DOMAIN b.table = 1 .. n
  BY <1>1, TableShape DEF Contexts
<1>3. PICK cell : cell = [users |-> 1, values |-> values, filter |-> NoFilter]
  OBVIOUS
<1>4. PICK m, table, free :
        /\ m = (IF c = n + 1 THEN n + 1 ELSE n)
        /\ table = [x \in 1 .. m |-> IF x = c THEN cell ELSE b.table[x]]
        /\ free = (IF b.free = <<>> THEN <<>> ELSE Tail(b.free))
  OBVIOUS
<1>5. /\ c \in 1 .. m /\ m \in Nat
      /\ c # n + 1 => c \in ToSet(b.free)
      /\ free \in Seq(1 .. m) /\ IsInjective(free) /\ ToSet(free) = ToSet(b.free) \ {c}
      /\ ToSet(b.free) \subseteq 1 .. n
  <2>1. ToSet(b.free) \subseteq 1 .. n
    BY <1>1, <1>2, ToSetLemma
  <2>2. CASE b.free = <<>>
    <3>1. c = n + 1
      BY <1>2, <2>2 DEF NextContext
    <3> QED
      BY <1>2, <1>4, <2>1, <2>2, <3>1, EmptyList
  <2>3. CASE b.free # <<>>
    <3>1. c = Head(b.free) /\ c \in ToSet(b.free) /\ c \in 1 .. n
      BY <1>1, <1>2, <2>3, TailedLemma DEF NextContext
    <3>2. c # n + 1 /\ m = n
      BY <1>2, <1>4, <3>1
    <3>3. /\ Tail(b.free) \in Seq(1 .. n) /\ ToSet(b.free) = ToSet(Tail(b.free)) \cup {c}
          /\ IsInjective(Tail(b.free)) /\ c \notin ToSet(Tail(b.free))
      BY <1>1, <1>2, <2>3, <3>1, TailedLemma
    <3> QED
      BY <1>4, <2>1, <2>3, <3>1, <3>2, <3>3
  <2> QED
    BY <2>2, <2>3
<1>6. d = [table |-> table, free |-> free, current |-> b.current, substitution |-> b.substitution]
  <2>1. PICK taken : taken = [b EXCEPT !.free = IF b.free = <<>> THEN b.free ELSE Tail(b.free)]
    OBVIOUS
  <2>2. taken = [table |-> b.table, free |-> free, current |-> b.current, substitution |-> b.substitution]
    BY <1>1, <1>4, <2>1
  <2>3. d = WithCell(taken, c, cell)
    BY <1>3, <2>1 DEF OpenCell
  <2>4. d = [taken EXCEPT !.table = IF c = n + 1 THEN Append(b.table, cell) ELSE [b.table EXCEPT ![c] = cell]]
    BY <1>2, <2>2, <2>3 DEF WithCell
  <2>5. (IF c = n + 1 THEN Append(b.table, cell) ELSE [b.table EXCEPT ![c] = cell]) = table
    <3>1. CASE c = n + 1
      <4>1. Append(b.table, cell) = [x \in 1 .. n + 1 |-> IF x = n + 1 THEN cell ELSE b.table[x]]
        BY <1>1, <1>2
      <4> QED
        BY <1>4, <3>1, <4>1
    <3>2. CASE c # n + 1
      <4>1. [b.table EXCEPT ![c] = cell] = [x \in 1 .. n |-> IF x = c THEN cell ELSE b.table[x]]
        BY <1>2
      <4> QED
        BY <1>4, <3>2, <4>1
    <3> QED
      BY <3>1, <3>2
  <2> QED
    BY <2>2, <2>4, <2>5
<1>7. /\ d.table = table /\ d.free = free /\ d.current = b.current /\ d.substitution = b.substitution
      /\ DOMAIN table = 1 .. m /\ Contexts(d) = 1 .. m
      /\ table[c] = cell /\ \A x \in 1 .. n : x # c => table[x] = b.table[x]
  <2>1. /\ d.table = table /\ d.free = free /\ d.current = b.current /\ d.substitution = b.substitution
        /\ DOMAIN table = 1 .. m
    BY <1>4, <1>6
  <2>2. table[c] = cell /\ \A x \in 1 .. n : x # c => table[x] = b.table[x]
    BY <1>4, <1>5
  <2> QED
    BY <2>1, <2>2 DEF Contexts
<1>8. d.table \in Seq(Range(d.table))
  <2>1. \A x \in 1 .. m : table[x] \in Range(table)
    BY <1>7 DEF Range
  <2>2. table \in [1 .. m -> Range(table)]
    BY <1>4, <2>1
  <2> QED
    BY <1>5, <1>7, <2>2
<1>9. \A x \in Contexts(d) : d.table[x].users = (IF x \in ToSet(d.free) THEN 0 ELSE 1)
  <2> TAKE x \in Contexts(d)
  <2>1. CASE x = c
    BY <1>3, <1>5, <1>7, <2>1
  <2>2. CASE x # c
    <3>1. x \in 1 .. n
      BY <1>4, <1>7, <2>2
    <3>2. d.table[x] = b.table[x] /\ (x \in ToSet(d.free) <=> x \in ToSet(b.free))
      BY <1>5, <1>7, <2>2, <3>1
    <3> QED
      BY <1>1, <1>2, <3>1, <3>2
  <2> QED
    BY <2>1, <2>2
<1>10. ~Open(b, c)
  BY <1>1, <1>2, <1>5 DEF Open
<1>11. \A x : Open(b, x) => Open(d, x) /\ d.table[x] = b.table[x]
  <2> TAKE x
  <2> HAVE Open(b, x)
  <2>1. x \in 1 .. n /\ x # c
    BY <1>2, <1>10 DEF Open
  <2>2. x \in 1 .. m /\ d.table[x] = b.table[x]
    BY <1>4, <1>7, <2>1
  <2> QED
    BY <1>7, <2>2 DEF Open
<1>12. Open(d, c)
  BY <1>3, <1>5, <1>7 DEF Open
<1>13. c # EMPTY_CONTEXT
  BY <1>5 DEF EMPTY_CONTEXT
<1>14. d.current # EMPTY_CONTEXT => Open(d, d.current) /\ d.substitution = d.table[d.current].values
  BY <1>7, <1>11 DEF GoodTable
<1>15. d.free \in Seq(Contexts(d)) /\ IsInjective(d.free)
  BY <1>5, <1>7
<1>16. d = [table |-> d.table, free |-> d.free, current |-> d.current, substitution |-> d.substitution]
  BY <1>6, <1>7
<1> QED
  BY <1>8, <1>9, <1>10, <1>11, <1>12, <1>13, <1>14, <1>15, <1>16 DEF GoodTable

LEMMA OpenedAlone ==
  ASSUME NEW b, NEW values
  PROVE  OpenContext(b, values, NoFilter)
         = [bindings |-> OpenCell(b, values, NoFilter), context |-> NextContext(b)]
<1>1. SameContexts(b, values, NoFilter) = {}
  BY DEF SameContexts
<1> QED
  BY <1>1 DEF OpenContext

(* It is closed once.                                                      *)
LEMMA ClosedTable ==
  ASSUME NEW b, GoodTable(b), NEW c, Open(b, c), NEW d, d = CloseContext(b, c)
  PROVE  GoodTable(d) /\ \A x : Open(b, x) /\ x # c => Open(d, x)
<1>1. /\ b = [table |-> b.table, free |-> b.free, current |-> b.current, substitution |-> b.substitution]
      /\ b.table \in Seq(Range(b.table)) /\ b.free \in Seq(Contexts(b)) /\ IsInjective(b.free)
      /\ \A x \in Contexts(b) : b.table[x].users = (IF x \in ToSet(b.free) THEN 0 ELSE 1)
  BY DEF GoodTable
<1>2. PICK n \in Nat : n = Len(b.table) /\ Contexts(b) = 1 .. n /\ DOMAIN b.table = 1 .. n
  BY <1>1, TableShape DEF Contexts
<1>3. c \in 1 .. n /\ c \notin ToSet(b.free) /\ b.table[c].users = 1 /\ c # EMPTY_CONTEXT
  BY <1>2, TableShape
<1>4. PICK table, free, current :
        /\ table = [b.table EXCEPT ![c] = EmptyCell] /\ free = Append(b.free, c)
        /\ current = IF b.current = c THEN EMPTY_CONTEXT ELSE b.current
  OBVIOUS
<1>5. d = [table |-> table, free |-> free, current |-> current, substitution |-> b.substitution]
  BY <1>1, <1>3, <1>4 DEF CloseContext, CloseCell
<1>6. /\ d.table = table /\ d.free = free /\ d.current = current /\ d.substitution = b.substitution
      /\ d = [table |-> d.table, free |-> d.free, current |-> d.current, substitution |-> d.substitution]
  BY <1>5
<1>7. /\ DOMAIN table = 1 .. n /\ Contexts(d) = 1 .. n
      /\ table[c] = EmptyCell /\ \A x \in 1 .. n : x # c => table[x] = b.table[x]
  <2>1. /\ DOMAIN table = 1 .. n /\ table[c] = EmptyCell
        /\ \A x \in 1 .. n : x # c => table[x] = b.table[x]
    BY <1>2, <1>3, <1>4
  <2> QED
    BY <1>6, <2>1 DEF Contexts
<1>8. free \in Seq(1 .. n) /\ IsInjective(free) /\ ToSet(free) = ToSet(b.free) \cup {c}
  BY <1>1, <1>2, <1>3, <1>4, AppendedLemma
<1>9. d.table \in Seq(Range(d.table))
  <2>1. \A x \in 1 .. n : table[x] \in Range(table)
    BY <1>7 DEF Range
  <2>2. table \in [1 .. n -> Range(table)]
    BY <1>4, <1>7, <2>1
  <2> QED
    BY <1>6, <2>2
<1>10. \A x \in Contexts(d) : d.table[x].users = (IF x \in ToSet(d.free) THEN 0 ELSE 1)
  <2> TAKE x \in Contexts(d)
  <2>1. CASE x = c
    BY <1>6, <1>7, <1>8, <2>1 DEF EmptyCell
  <2>2. CASE x # c
    BY <1>1, <1>2, <1>6, <1>7, <1>8, <2>2
  <2> QED
    BY <2>1, <2>2
<1>11. \A x : Open(b, x) /\ x # c => Open(d, x) /\ d.table[x] = b.table[x]
  BY <1>2, <1>6, <1>7 DEF Open
<1>12. d.current # EMPTY_CONTEXT => Open(d, d.current) /\ d.substitution = d.table[d.current].values
  BY <1>4, <1>6, <1>11 DEF GoodTable
<1> QED
  BY <1>6, <1>7, <1>8, <1>9, <1>10, <1>11, <1>12 DEF GoodTable

(* The cache is filled with the values of a context that is open.          *)
LEMMA PreparedTable ==
  ASSUME NEW b, GoodTable(b), NEW c, c = EMPTY_CONTEXT \/ Open(b, c), NEW d, d = Prepared(b, c)
  PROVE  GoodTable(d) /\ \A x : Open(b, x) => Open(d, x)
<1>1. CASE c \in {EMPTY_CONTEXT, b.current}
  BY <1>1 DEF Prepared
<1>2. CASE c \notin {EMPTY_CONTEXT, b.current}
  <2>1. d = [table |-> b.table, free |-> b.free, current |-> c, substitution |-> b.table[c].values]
    <3>1. b = [table |-> b.table, free |-> b.free, current |-> b.current, substitution |-> b.substitution]
      BY DEF GoodTable
    <3>2. d = [b EXCEPT !.current = c, !.substitution = b.table[c].values]
      BY <1>2 DEF Prepared
    <3> QED
      BY <3>1, <3>2
  <2>2. /\ d.table = b.table /\ d.free = b.free /\ d.current = c
        /\ d.substitution = b.table[c].values /\ Contexts(d) = Contexts(b)
        /\ d = [table |-> d.table, free |-> d.free, current |-> d.current, substitution |-> d.substitution]
    BY <2>1 DEF Contexts
  <2>3. \A x : Open(d, x) <=> Open(b, x)
    BY <2>2 DEF Open
  <2> QED
    BY <1>2, <2>2, <2>3 DEF GoodTable
<1> QED
  BY <1>1, <1>2

----------------------------------------------------------------------------
(* Tasks that are told of a result or of the end of their slaves.          *)
LEMMA StackLemma ==
  /\ <<>> \in Stacks
  /\ \A e \in DOMAIN Expr : <<e>> \in Stacks
  /\ \A s, t \in Stacks : s \o t \in Stacks
  /\ \A e \in DOMAIN Expr : \A s \in Stacks : <<e>> \o s \in Stacks
<1>1. <<>> \in Stacks /\ \A e \in DOMAIN Expr : <<e>> \in Stacks
  BY SingleLemma, EmptyList DEF Stacks
<1>2. \A s, t \in Stacks : s \o t \in Stacks
  BY JoinedLemma DEF Stacks
<1> QED
  BY <1>1, <1>2

LEMMA HeldWider ==
  ASSUME NEW g, NEW P, NEW U, NEW K, NEW H, NEW G, Growing(g, P, U, K, H), H \subseteq G
  PROVE  Growing(g, P, U, K, G)
<1>1. Holders(g, G) \subseteq Holders(g, H)
  BY DEF Holders
<1>2. Held(g, G)
  BY <1>1 DEF Growing, Held
<1> QED
  BY <1>2 DEF Growing

(* Only the fields of x changed.                                           *)
Kept(g, h, x) ==
  /\ Nodes(h) = Nodes(g) /\ TasksOf(h) = TasksOf(g) /\ h.bindings = g.bindings
  /\ \A y \in Nodes(g) \ {x} : h.heap[y] = g.heap[y]
  /\ \A y \in Nodes(g) : Owner(h, y) = Owner(g, y)
  /\ \A t \in TasksOf(g) : Slaves(h, t) = Slaves(g, t)

QuietFields == {"seen", "success", "results"}

LEMMA FieldGrows ==
  ASSUME NEW g, NEW P, NEW U, NEW K, NEW H, Growing(g, P, U, K, H), NEW x \in TasksOf(g),
         NEW field, field \in QuietFields \/ field \in {"solution", "exhausted"}, NEW value,
         NEW h, h = Replaced(g, x, WithField(g.heap[x], field, value))
  PROVE  /\ Growing(h, P, U, K, H) /\ Kept(g, h, x)
         /\ field \in QuietFields => Extends(g, h)
         /\ x = ROOT /\ field = "solution" =>
              h.heap[ROOT].solution = value /\ h.heap[ROOT].exhausted = g.heap[ROOT].exhausted
         /\ x = ROOT /\ field = "exhausted" =>
              h.heap[ROOT].solution = g.heap[ROOT].solution /\ h.heap[ROOT].exhausted = value
<1>1. PICK e, f : e = g.heap[x] /\ f = WithField(e, field, value)
  OBVIOUS
<1>2. x \in Nodes(g) /\ IsTask(e) /\ GoodEntry(e)
  BY <1>1 DEF TasksOf, Growing, Entries
<1>3. f = WithField(e, field, value)
  BY <1>1
<1>4. /\ GoodEntry(f) /\ Same(e, f) /\ IsTask(f) /\ f.slaves = e.slaves
      /\ field \in DOMAIN e => f[field] = value
      /\ \A other \in DOMAIN e \ {field} : f[other] = e[other]
  BY <1>2, <1>3, TaskFieldKept DEF QuietFields
<1>5. f.slaves = Slaves(g, x) /\ h = Replaced(g, x, f)
  BY <1>1, <1>4 DEF Slaves
<1>6. /\ Growing(h, P, U, K, H)
      /\ Nodes(h) = Nodes(g) /\ h.heap[x] = f /\ \A y \in Nodes(g) \ {x} : h.heap[y] = g.heap[y]
      /\ TasksOf(h) = TasksOf(g)
      /\ h.bindings = g.bindings /\ \A t \in TasksOf(g) : Slaves(h, t) = Slaves(g, t)
      /\ x # ROOT => Extends(g, h)
  BY <1>1, <1>2, <1>4, <1>5, UpdatedGrows
<1>7. \A y \in Nodes(g) :
        /\ Owner(h, y) = Owner(g, y) /\ h.heap[y].kind = g.heap[y].kind
        /\ IsTask(h.heap[y]) <=> IsTask(g.heap[y])
        /\ IsTask(g.heap[y]) => h.heap[y].vars = g.heap[y].vars
  <2> TAKE y \in Nodes(g)
  <2>1. CASE y = x
    BY <1>1, <1>2, <1>4, <1>6, <2>1 DEF Same, Owner
  <2>2. CASE y # x
    BY <1>6, <2>2 DEF Owner
  <2> QED
    BY <2>1, <2>2
<1>8. x = ROOT /\ field \in QuietFields => Extends(g, h)
  <2> HAVE x = ROOT /\ field \in QuietFields
  <2>1. {"solution", "exhausted"} \subseteq DOMAIN e
    BY <1>1, <1>2 DEF Growing, Entries, GoodEntry, GoodTask
  <2>2. f.solution = e.solution /\ f.exhausted = e.exhausted
    BY <1>4, <2>1 DEF QuietFields
  <2> QED
    BY <1>1, <1>6, <1>7, <2>2 DEF Extends
<1>9. x = ROOT => {"solution", "exhausted"} \subseteq DOMAIN e
  BY <1>1, <1>2 DEF Growing, Entries, GoodEntry, GoodTask
<1>10. /\ x = ROOT /\ field = "solution" => f.solution = value /\ f.exhausted = e.exhausted
       /\ x = ROOT /\ field = "exhausted" => f.solution = e.solution /\ f.exhausted = value
  BY <1>4, <1>9
<1>11. Kept(g, h, x)
  BY <1>6, <1>7 DEF Kept
<1> QED
  BY <1>1, <1>6, <1>8, <1>10, <1>11

(* The fields that only say what was seen or found.                        *)
LEMMA QuietFieldGrows ==
  ASSUME NEW g, NEW P, NEW U, NEW K, NEW H, Growing(g, P, U, K, H), NEW x \in TasksOf(g),
         NEW field \in QuietFields, NEW value,
         NEW h, h = Replaced(g, x, WithField(g.heap[x], field, value))
  PROVE  Growing(h, P, U, K, H) /\ Kept(g, h, x) /\ Extends(g, h)
BY FieldGrows

LEMMA SeeGrows ==
  ASSUME NEW g, NEW P, NEW U, NEW K, NEW H, Growing(g, P, U, K, H), NEW x \in TasksOf(g),
         NEW dag, NEW pending, NEW h, h = See(g, x, dag, pending)
  PROVE  Growing(h, P, U, K, H) /\ Extends(g, h) /\ Kept(g, h, x)
<1>1. PICK value : value = g.heap[x].seen \cup {<<dag, pending>>}
  OBVIOUS
<1>2. h = Replaced(g, x, WithField(g.heap[x], "seen", value))
  BY <1>1 DEF See, Replaced, WithField
<1>3. "seen" \in QuietFields
  BY DEF QuietFields
<1> QED
  BY <1>2, <1>3, QuietFieldGrows

(* A task of a strategy may be resumed beside itself.                      *)
LEMMA TaskOutside ==
  ASSUME NEW g, NEW P, NEW U, NEW K, NEW H, Growing(g, P, U, K, H), NEW task \in TasksOf(g) \ U,
         g.heap[task].kind \notin {"root", "child"}
  PROVE  Outside(g, U, task) /\ GoodTask(g.heap[task]) /\ IsTask(g.heap[task])
<1>1. task \in Nodes(g) \ U /\ IsTask(g.heap[task])
  BY DEF TasksOf
<1>2. task # ROOT /\ GoodTask(g.heap[task])
  BY <1>1 DEF Growing, Entries, GoodEntry
<1> QED
  BY <1>1, <1>2 DEF Outside, Inner

LEMMA BranchSucceededGrows ==
  ASSUME NEW g, NEW P, NEW U, NEW K, NEW H, Growing(g, P, U, K, H), NEW task \in TasksOf(g) \ U,
         g.heap[task].kind = "branch", NEW dag, NEW h, h = BranchSucceeded(g, task, dag)
  PROVE  Growing(h, P, U, K, H) /\ Extends(g, h)
<1>1. PICK t, e, n :
        t = g.heap[task] /\ e = Expr[t.expression] /\ n = [g EXCEPT !.heap[task].success = TRUE]
  OBVIOUS
<1>2. Outside(g, U, task) /\ GoodTask(t)
  BY <1>1, TaskOutside
<1>3. t.expression \in Branches /\ t.pending \in Stacks
  BY <1>1, <1>2 DEF GoodTask
<1>4. /\ e.op = "branch"
      /\ e.onSuccess \in {"FAIL", "IDLE", "PASS_THRU", "NEW_STRATEGY", "ITERATE"}
      /\ e.onSuccess = "NEW_STRATEGY" => e.success \in DOMAIN Expr
      /\ t.expression \in DOMAIN Expr
  BY <1>1, <1>3, StrategyAssumption DEF Branches, IsExpression
<1>5. Growing(n, P, U, K, H) /\ Extends(g, n)
  <2>1. PICK field, value : field = "success" /\ value = TRUE
    OBVIOUS
  <2>2. n = Replaced(g, task, WithField(g.heap[task], field, value))
    BY <1>1, <2>1 DEF Replaced, WithField
  <2>3. field \in QuietFields
    BY <2>1 DEF QuietFields
  <2> QED
    BY <2>2, <2>3, QuietFieldGrows
<1>6. Outside(n, U, task) /\ ROOT \in Nodes(g)
  BY <1>2, <1>5, OutsideLemma, GrowingRoot
<1>7. CASE e.onSuccess = "FAIL"
  <2>1. h = n
    BY <1>1, <1>7 DEF BranchSucceeded
  <2> QED
    BY <1>5, <2>1
<1>8. CASE e.onSuccess \in {"IDLE", "PASS_THRU", "NEW_STRATEGY"}
  <2>1. PICK x, stack :
          /\ h = ResumeOwner(n, task, x, stack)
          /\ stack = IF e.onSuccess = "NEW_STRATEGY" THEN <<e.success>> \o t.pending ELSE t.pending
    BY <1>1, <1>8 DEF BranchSucceeded
  <2>2. stack \in Stacks
    BY <1>3, <1>4, <2>1, StackLemma
  <2>3. Extends(n, h) /\ Growing(h, P, U, K, H)
    BY <1>5, <1>6, <2>1, <2>2, ResumeOwnerGrows
  <2> QED
    BY <1>5, <1>6, <2>3, ExtendsTransitive, SMTT(30)
<1>9. CASE e.onSuccess = "ITERATE"
  <2>1. h = Iterate(n, task, dag, t.expression, t.pending)
    BY <1>1, <1>9 DEF BranchSucceeded
  <2>2. PICK o, stack : o = Owner(n, task) /\ stack = <<t.expression>> \o t.pending
    OBVIOUS
  <2>3. CASE AlreadySeen(n, o, dag, stack)
    BY <1>5, <2>1, <2>2, <2>3 DEF Iterate
  <2>4. CASE ~AlreadySeen(n, o, dag, stack)
    <3>1. PICK s : s = See(n, o, dag, stack)
      OBVIOUS
    <3>2. h = NewBranchTask(s, task, dag, t.expression, t.pending)
      BY <2>1, <2>2, <2>4, <3>1 DEF Iterate
    <3>3. o \in TasksOf(n)
      BY <1>5, <1>6, <2>2, OutsideLemma
    <3>4. Growing(s, P, U, K, H) /\ Extends(n, s)
      BY <1>5, <3>1, <3>3, SeeGrows
    <3>5. Outside(s, U, task)
      BY <1>5, <1>6, <3>4, OutsideLemma
    <3>6. Extends(s, h) /\ Growing(h, P, U, K, H)
      BY <1>3, <3>2, <3>4, <3>5, NewBranchTaskGrows
    <3>7. Extends(n, h)
      BY <1>5, <3>4, <3>6, GrowingRoot, ExtendsTransitive
    <3> QED
      BY <1>5, <1>6, <3>6, <3>7, ExtendsTransitive
  <2> QED
    BY <2>3, <2>4
<1> QED
  BY <1>4, <1>7, <1>8, <1>9

LEMMA RewriteSucceededGrows ==
  ASSUME NEW g, NEW P, NEW U, NEW K, NEW H, Growing(g, P, U, K, H), NEW task \in TasksOf(g) \ U,
         g.heap[task].kind = "rewrite", NEW dag, NEW h, h = RewriteSucceeded(g, task, dag)
  PROVE  Growing(h, P, U, K, H) /\ Extends(g, h)
<1>1. PICK t, values :
        t = g.heap[task] /\ values = {f[2] : f \in {f \in Fragments[t.rule] : f[1] = dag}}
  OBVIOUS
<1>2. CASE values = {}
  <2>1. h = g
    BY <1>1, <1>2 DEF RewriteSucceeded
  <2> QED
    BY <2>1, GrowingRoot
<1>3. CASE values # {}
  <2>1. PICK e : e = [kind |-> "match", owner |-> t.owner, rule |-> t.rule, strategies |-> t.strategies,
                      pending |-> t.pending, todo |-> values]
    OBVIOUS
  <2>2. h = NewProcess(g, task, e)
    BY <1>1, <1>3, <2>1 DEF RewriteSucceeded
  <2>3. Outside(g, U, task) /\ GoodTask(t)
    BY <1>1, TaskOutside
  <2>4. t.strategies \in Stacks /\ t.pending \in Stacks
    BY <1>1, <2>3 DEF GoodTask
  <2>5. ~IsTask(e) /\ GoodProcess(e) /\ ~Inner(e) /\ ~Behind(e) /\ e.owner = Owner(g, task)
    BY <1>1, <2>1, <2>4 DEF IsTask, GoodProcess, Inner, Behind, Owner
  <2>6. Fits(g, H, e) /\ Place(g, U, task, e.owner)
    BY <2>3, <2>5, OutsideLemma DEF Fits, GoodEntry
  <2>7. Extends(g, h) /\ Growing(h, P, U, K \ {e.owner}, H)
    BY <2>2, <2>5, <2>6, NewProcessGrows
  <2> QED
    BY <2>7, BusyWider
<1> QED
  BY <1>2, <1>3

(* The combinations of the results of a matchrew.                          *)
LEMMA PushSolutionGrows ==
  ASSUME NEW g, NEW P, NEW U, NEW K, NEW H, Growing(g, P, U, K, H), NEW task \in TasksOf(g) \ U,
         g.heap[task].kind = "subterm", NEW results, NEW h, h = PushSolution(g, task, results)
  PROVE  Growing(h, P, U, K, H) /\ Extends(g, h)
<1>1. Outside(g, U, task) /\ GoodTask(g.heap[task])
  BY TaskOutside
<1>2. g.heap[task].pending \in Stacks
  BY <1>1 DEF GoodTask
<1>3. PICK dag : h = ResumeOwner(g, task, dag, g.heap[task].pending)
  BY DEF PushSolution
<1> QED
  BY <1>1, <1>2, <1>3, ResumeOwnerGrows

LEMMA ChildSucceededGrows ==
  ASSUME NEW g, NEW P, NEW U, NEW K, NEW H, Growing(g, P, U, K, H), NEW task \in TasksOf(g) \ U,
         g.heap[task].kind = "child", U \cap TasksOf(g) = {},
         NEW dag, NEW h, h = ChildSucceeded(g, task, dag)
  PROVE  Growing(h, P, U, K, H) /\ Extends(g, h)
<1>1. PICK o, n, k, all :
        /\ o = g.heap[task].owner /\ k = g.heap[task].index
        /\ all = [g.heap[o].results EXCEPT ![k] = Append(g.heap[o].results[k], dag)]
        /\ n = [g EXCEPT !.heap[o].results[k] = Append(@, dag)]
  OBVIOUS
<1>2. o = Owner(g, task) /\ task \in Nodes(g) \ {ROOT} /\ Inner(g.heap[task])
  BY <1>1 DEF Owner, TasksOf, Growing, Entries, Inner
<1>3. o \in TasksOf(g) \ U /\ g.heap[o].kind = "subterm"
  BY <1>2 DEF Growing, Owned
<1>4. Growing(n, P, U, K, H) /\ Extends(g, n) /\ TasksOf(n) = TasksOf(g)
  <2>1. PICK field : field = "results"
    BY Zenon
  <2>2. n = Replaced(g, o, WithField(g.heap[o], field, all))
    BY <1>1, <2>1, Zenon DEF Replaced, WithField
  <2>3. field \in QuietFields /\ o \in TasksOf(g)
    BY <1>3, <2>1 DEF QuietFields
  <2>4. Growing(n, P, U, K, H) /\ Extends(g, n) /\ Kept(g, n, o)
    BY <2>2, <2>3, QuietFieldGrows
  <2> QED
    BY <2>4 DEF Kept
<1>5. o \in TasksOf(n) \ U /\ n.heap[o].kind = "subterm"
  <2>1. o \in Nodes(g)
    BY <1>3 DEF TasksOf
  <2>2. n.heap[o].kind = g.heap[o].kind
    BY <1>4, <2>1, Zenon DEF Extends
  <2> QED
    BY <1>3, <1>4, <2>2
<1>6. h = n \/ h = SubtermSucceeded(n, o, k)
  BY <1>1 DEF ChildSucceeded
<1>7. CASE h = SubtermSucceeded(n, o, k)
  <2>1. Growing(h, P, U, K, H) /\ Extends(n, h)
    <3>1. CASE \E results : h = PushSolution(n, o, results)
      BY <1>4, <1>5, <3>1, PushSolutionGrows
    <3>2. CASE h = NewRemaining(n, o, k)
      <4>1. PICK e : /\ h = NewProcess(n, Alone, e) /\ e.kind = "remaining" /\ e.owner = o
                     /\ "slaves" \notin DOMAIN e /\ {"kind", "owner"} \subseteq DOMAIN e
        <5>1. PICK limits, indices, nodes, i :
                h = NewProcess(n, Alone, [kind |-> "remaining", owner |-> o, fixed |-> k,
                                          limits |-> limits, indices |-> indices, nodes |-> nodes,
                                          i |-> i])
          BY <3>2 DEF NewRemaining
        <5> QED
          BY <5>1, SMTT(30)
      <4>2. ~IsTask(e) /\ GoodProcess(e) /\ Inner(e) /\ ~Behind(e)
        BY <4>1 DEF IsTask, GoodProcess, Inner, Behind
      <4>3. Fits(n, H, e)
        BY <1>5, <4>1, <4>2 DEF Fits, GoodEntry
      <4>4. Extends(n, h) /\ Growing(h, P, U, K \ {e.owner}, H)
        BY <1>4, <4>1, <4>2, <4>3, NewProcessGrows DEF Place
      <4> QED
        BY <4>4, BusyWider
    <3> QED
      BY <1>7, <3>1, <3>2 DEF SubtermSucceeded
  <2> QED
    BY <1>4, <2>1, GrowingRoot, ExtendsTransitive
<1> QED
  BY <1>4, <1>6, <1>7

LEMMA SucceededGrows ==
  ASSUME NEW g, NEW P, NEW U, NEW K, NEW H, Growing(g, P, U, K, H), NEW task \in TasksOf(g) \ U,
         g.heap[task].kind # "subterm", U \cap TasksOf(g) = {},
         NEW dag, NEW h, h = ExecutionSucceeded(g, task, dag)
  PROVE  /\ Growing(h, P, U, K, H)
         /\ task # ROOT => Extends(g, h)
         /\ task = ROOT => /\ Nodes(h) = Nodes(g) /\ TasksOf(h) = TasksOf(g)
                           /\ \A x \in Nodes(g) : Owner(h, x) = Owner(g, x)
                           /\ h.heap[ROOT].solution = Append(g.heap[ROOT].solution, dag)
                           /\ h.heap[ROOT].exhausted = g.heap[ROOT].exhausted
                           /\ Slaves(h, ROOT) = Slaves(g, ROOT)
<1>1. PICK t : t = g.heap[task]
  OBVIOUS
<1>2. t.kind \in TaskKinds /\ GoodTask(t) /\ (t.kind = "root" <=> task = ROOT) /\ task \in Nodes(g)
  BY <1>1 DEF TasksOf, Growing, Entries, GoodEntry, GoodTask
<1>3. CASE t.kind = "root"
  <2>1. h = Replaced(g, ROOT, WithField(g.heap[ROOT], "solution", Append(g.heap[ROOT].solution, dag)))
    BY <1>1, <1>2, <1>3 DEF ExecutionSucceeded, Replaced, WithField
  <2>2. ROOT \in TasksOf(g) /\ {"solution", "exhausted"} \subseteq DOMAIN g.heap[ROOT]
    BY <1>1, <1>2, <1>3 DEF GoodTask
  <2>3. PICK value : value = Append(g.heap[ROOT].solution, dag)
    OBVIOUS
  <2>4. /\ Growing(h, P, U, K, H) /\ Kept(g, h, ROOT)
        /\ h.heap[ROOT].solution = value /\ h.heap[ROOT].exhausted = g.heap[ROOT].exhausted
    <3>1. PICK x, field : x = ROOT /\ field = "solution"
      OBVIOUS
    <3>2. x \in TasksOf(g) /\ h = Replaced(g, x, WithField(g.heap[x], field, value))
      BY <2>1, <2>2, <2>3, <3>1
    <3>3. /\ Growing(h, P, U, K, H) /\ Kept(g, h, x)
          /\ x = ROOT /\ field = "solution" =>
               h.heap[ROOT].solution = value /\ h.heap[ROOT].exhausted = g.heap[ROOT].exhausted
      BY <3>1, <3>2, FieldGrows
    <3> QED
      BY <3>1, <3>3
  <2> QED
    BY <1>2, <1>3, <2>2, <2>3, <2>4 DEF Kept
<1>4. CASE t.kind = "branch"
  <2>1. h = BranchSucceeded(g, task, dag)
    BY <1>1, <1>4 DEF ExecutionSucceeded
  <2> QED
    BY <1>1, <1>2, <1>4, <2>1, BranchSucceededGrows
<1>5. CASE t.kind \in {"one", "call"}
  <2>1. h = ResumeOwner(g, task, dag, t.pending)
    BY <1>1, <1>5 DEF ExecutionSucceeded
  <2>2. Outside(g, U, task) /\ t.pending \in Stacks
    BY <1>1, <1>2, <1>5, TaskOutside DEF GoodTask
  <2> QED
    BY <1>2, <1>5, <2>1, <2>2, ResumeOwnerGrows
<1>6. CASE t.kind = "rewrite"
  <2>1. h = RewriteSucceeded(g, task, dag)
    BY <1>1, <1>6 DEF ExecutionSucceeded
  <2> QED
    BY <1>1, <1>2, <1>6, <2>1, RewriteSucceededGrows
<1>7. CASE t.kind = "child"
  <2>1. h = ChildSucceeded(g, task, dag)
    BY <1>1, <1>7 DEF ExecutionSucceeded
  <2> QED
    BY <1>1, <1>2, <1>7, <2>1, ChildSucceededGrows
<1> QED
  BY <1>1, <1>2, <1>3, <1>4, <1>5, <1>6, <1>7 DEF TaskKinds

(* executionsExhausted.                                                    *)
LEMMA ExhaustedGrows ==
  ASSUME NEW g, NEW P, NEW U, NEW K, NEW H, Growing(g, P, U, K, H), NEW task \in TasksOf(g) \ U,
         task \notin H, NEW h, h = ExecutionsExhausted(g, task)
  PROVE  /\ Growing(h, P, U, K, H \cup {task})
         /\ task # ROOT => Extends(g, h)
         /\ task = ROOT => /\ Nodes(h) = Nodes(g) /\ TasksOf(h) = TasksOf(g)
                           /\ \A x \in Nodes(g) : Owner(h, x) = Owner(g, x)
                           /\ h.heap[ROOT].solution = g.heap[ROOT].solution
                           /\ h.heap[ROOT].exhausted
                           /\ Slaves(h, ROOT) = Slaves(g, ROOT)
<1>1. PICK t : t = g.heap[task]
  OBVIOUS
<1>2. /\ t.kind \in TaskKinds /\ GoodTask(t) /\ (t.kind = "root" <=> task = ROOT) /\ task \in Nodes(g)
      /\ Extends(g, g)
  BY <1>1, GrowingRoot DEF TasksOf, Growing, Entries, GoodEntry, GoodTask
<1>3. CASE t.kind = "root"
  <2>1. h = Replaced(g, ROOT, WithField(g.heap[ROOT], "exhausted", TRUE))
    BY <1>1, <1>3 DEF ExecutionsExhausted, Replaced, WithField
  <2>2. ROOT \in TasksOf(g) /\ {"solution", "exhausted"} \subseteq DOMAIN g.heap[ROOT]
    BY <1>1, <1>2, <1>3 DEF GoodTask
  <2>3. /\ Growing(h, P, U, K, H)
        /\ Kept(g, h, ROOT)
        /\ h.heap[ROOT].solution = g.heap[ROOT].solution
        /\ h.heap[ROOT].exhausted
    <3>1. PICK value : value = TRUE
      OBVIOUS
    <3>2. PICK x, field : x = ROOT /\ field = "exhausted"
      OBVIOUS
    <3>3. x \in TasksOf(g) /\ h = Replaced(g, x, WithField(g.heap[x], field, value))
      BY <2>1, <2>2, <3>1, <3>2
    <3>4. /\ Growing(h, P, U, K, H) /\ Kept(g, h, x)
          /\ x = ROOT /\ field = "exhausted" =>
               h.heap[ROOT].solution = g.heap[ROOT].solution /\ h.heap[ROOT].exhausted = value
      BY <3>2, <3>3, FieldGrows
    <3> QED
      BY <3>1, <3>2, <3>4
  <2> QED
    BY <1>2, <1>3, <2>2, <2>3, HeldWider DEF Kept
<1>4. CASE t.kind = "branch"
  <2>1. h = BranchExhausted(g, task)
    BY <1>1, <1>4 DEF ExecutionsExhausted
  <2>2. PICK e : e = Expr[t.expression]
    OBVIOUS
  <2>3. CASE t.success \/ e.onFailure = "FAIL"
    <3>1. h = g
      BY <1>1, <2>1, <2>2, <2>3 DEF BranchExhausted
    <3> QED
      BY <1>2, <1>4, <3>1, HeldWider
  <2>4. CASE ~(t.success \/ e.onFailure = "FAIL")
    <3>1. PICK stack :
            /\ h = ResumeOwner(g, task, t.start, stack)
            /\ stack = (IF e.onFailure = "NEW_STRATEGY" THEN <<e.failure>> ELSE <<>>) \o t.pending
      BY <1>1, <2>1, <2>2, <2>4 DEF BranchExhausted
    <3>2. t.expression \in Branches /\ t.pending \in Stacks
      BY <1>2, <1>4 DEF GoodTask
    <3>3. e.onFailure = "NEW_STRATEGY" => e.failure \in DOMAIN Expr
      BY <2>2, <3>2, StrategyAssumption DEF Branches, IsExpression
    <3>4. stack \in Stacks
      BY <3>1, <3>2, <3>3, StackLemma
    <3>5. Outside(g, U, task)
      BY <1>1, <1>4, TaskOutside
    <3>6. Extends(g, h) /\ Growing(h, P, U, K, H)
      BY <3>1, <3>4, <3>5, ResumeOwnerGrows
    <3>7. task # ROOT
      BY <1>2, <1>4
    <3>8. PICK G : G = H \cup {task} /\ H \subseteq G
      OBVIOUS
    <3>9. Growing(h, P, U, K, G)
      BY <3>6, <3>8, HeldWider
    <3> QED
      BY <3>6, <3>7, <3>8, <3>9, Zenon
  <2> QED
    BY <2>3, <2>4
<1>5. CASE t.kind = "call"
  <2>1. PICK b : b = CloseContext(g.bindings, t.vars)
    OBVIOUS
  <2>2. h = [g EXCEPT !.bindings = b]
    BY <1>1, <1>5, <2>1 DEF ExecutionsExhausted
  <2>3. Held(g, H)
    BY DEF Growing
  <2>4. Holders(g, H \cup {task}) = Holders(g, H) \ {task}
    BY <1>1, <1>5 DEF Holders
  <2>5. GoodTable(b) /\ \A x \in Holders(g, H) \ {task} : Open(b, g.heap[x].vars)
    <3>1. CASE t.vars = EMPTY_CONTEXT
      <4>1. b = g.bindings
        BY <2>1, <3>1 DEF CloseContext
      <4> QED
        BY <2>3, <4>1 DEF Held
    <3>2. CASE t.vars # EMPTY_CONTEXT
      <4>1. task \in Holders(g, H)
        BY <1>1, <1>5, <3>2 DEF Holders
      <4>2. GoodTable(g.bindings) /\ Open(g.bindings, t.vars)
        BY <1>1, <2>3, <4>1 DEF Held
      <4>3. GoodTable(b) /\ \A c : Open(g.bindings, c) /\ c # t.vars => Open(b, c)
        BY <2>1, <4>2, ClosedTable
      <4>4. \A x \in Holders(g, H) \ {task} : Open(g.bindings, g.heap[x].vars) /\ g.heap[x].vars # t.vars
        BY <1>1, <2>3, <4>1 DEF Held
      <4> QED
        BY <4>3, <4>4
    <3> QED
      BY <3>1, <3>2
  <2>6. Growing(h, P, U, K, H \cup {task}) /\ Extends(g, h)
    BY <2>2, <2>4, <2>5, BoundGrows
  <2> QED
    BY <1>2, <1>5, <2>6
<1>6. CASE t.kind \in {"one", "rewrite", "child", "subterm"}
  <2>1. h = g
    BY <1>1, <1>6 DEF ExecutionsExhausted
  <2> QED
    BY <1>2, <1>6, <2>1, HeldWider
<1> QED
  BY <1>1, <1>2, <1>3, <1>4, <1>5, <1>6 DEF TaskKinds

----------------------------------------------------------------------------
(* The tasks that finish one after the other.                              *)
Flagged(g) ==
  /\ Len(g.heap[ROOT].solution) <= 1
  /\ g.heap[ROOT].exhausted <=> Slaves(g, ROOT) = <<>>

(* Those told of the end and those in ids have left their lists, but for   *)
(* the last one told as long as it is not over.                            *)
Leaving(f, ids) == ToSet(f.dead \o ids)
Left(f, ids) == IF f.over THEN Leaving(f, ids) ELSE Leaving(f, ids) \ {f.at}
Ending(f, ids, N, P) ==
  /\ f = [graph |-> f.graph, at |-> f.at, over |-> f.over, dead |-> f.dead]
  /\ N \subseteq Nodes(f.graph) /\ \A x \in N \ {ROOT} : Owner(f.graph, x) \in N
  /\ f.dead \in Seq(N \ {ROOT})
  /\ f.dead \o ids \in Seq(N \ {ROOT}) /\ IsInjective(f.dead \o ids)
  /\ Growing(f.graph, P, Left(f, ids), Leaving(f, ids), Leaving(f, ids))
  /\ Flagged(f.graph)
  /\ ~f.over => /\ f.at \in Leaving(f, ids) /\ ~f.graph.heap[ROOT].exhausted
                /\ \A x \in Leaving(f, ids) : Owner(f.graph, x) \in Leaving(f, ids) \/ x = f.at

LEMMA SlavesStay ==
  ASSUME NEW g, NEW h, NEW P, NEW U, NEW K, NEW H, NEW L, NEW G, Growing(g, P, U, K, H), Growing(h, P, U, L, G),
         Extends(g, h), NEW t \in TasksOf(g), Slaves(g, t) # <<>>
  PROVE  Slaves(h, t) # <<>>
<1>1. t \in TasksOf(h) /\ Children(g, U, t) \subseteq Children(h, U, t)
  BY ExtendsLemma
<1>2. Slaves(g, t) \in Seq(Nodes(g)) /\ ToSet(Slaves(g, t)) = Children(g, U, t)
  BY DEF Growing, Linked
<1>3. Slaves(h, t) \in Seq(Nodes(h)) /\ ToSet(Slaves(h, t)) = Children(h, U, t)
  BY <1>1 DEF Growing, Linked
<1>4. Children(g, U, t) # {}
  BY <1>2, NonEmptyList
<1> QED
  BY <1>1, <1>3, <1>4, NonEmptyList

LEMMA HeldButRoot ==
  ASSUME NEW g, NEW P, NEW U, NEW K, NEW H, Growing(g, P, U, K \cup {ROOT}, H \cup {ROOT})
  PROVE  Growing(g, P, U, K, H)
<1>1. Entries(g) /\ Held(g, H \cup {ROOT}) /\ Busy(g, K \cup {ROOT})
  BY DEF Growing
<1>2. Holders(g, H) = Holders(g, H \cup {ROOT})
  BY <1>1 DEF Holders, Entries
<1>3. Held(g, H)
  BY <1>1, <1>2 DEF Held
<1>4. Busy(g, K)
  BY <1>1 DEF Busy
<1> QED
  BY <1>3, <1>4 DEF Growing

(* What the end of the slaves of a task leaves.                            *)
NoMore(g, h, P, U, K, H, task) ==
  /\ Growing(h, P, U, K, H \cup {task})
  /\ task # ROOT => Extends(g, h)
  /\ task = ROOT => /\ Nodes(h) = Nodes(g) /\ TasksOf(h) = TasksOf(g)
                    /\ \A x \in Nodes(g) : Owner(h, x) = Owner(g, x)
                    /\ h.heap[ROOT].solution = g.heap[ROOT].solution
                    /\ h.heap[ROOT].exhausted
                    /\ Slaves(h, ROOT) = Slaves(g, ROOT)
LEMMA ExhaustedNoMore ==
  ASSUME NEW g, NEW P, NEW U, NEW K, NEW H, Growing(g, P, U, K, H), NEW task \in TasksOf(g) \ U,
         task \notin H, NEW h, h = ExecutionsExhausted(g, task)
  PROVE  NoMore(g, h, P, U, K, H, task)
<1>1. NoMore(g, h, P, U, K, H, task) <=>
         /\ Growing(h, P, U, K, H \cup {task})
         /\ task # ROOT => Extends(g, h)
         /\ task = ROOT => /\ Nodes(h) = Nodes(g) /\ TasksOf(h) = TasksOf(g)
                           /\ \A x \in Nodes(g) : Owner(h, x) = Owner(g, x)
                           /\ h.heap[ROOT].solution = g.heap[ROOT].solution
                           /\ h.heap[ROOT].exhausted
                           /\ Slaves(h, ROOT) = Slaves(g, ROOT)
  BY DEF NoMore
<1> QED
  BY <1>1, ExhaustedGrows

(* One task more is told, or it is over.                                   *)
LEMMA FinishNextKeeps ==
  ASSUME NEW f, NEW ids, NEW N, NEW P, Ending(f, ids, N, P), ids \in Seq(N \ {ROOT}), ~f.over
  PROVE  /\ Ending(FinishNext(f), ids, N, P)
         /\ ~FinishNext(f).over =>
              \E x \in N \ {ROOT} : /\ x \notin Leaving(f, ids)
                                    /\ Leaving(FinishNext(f), ids) = Leaving(f, ids) \cup {x}
<1>1. PICK g, at, dead, W, o, h, n :
        /\ g = f.graph /\ at = f.at /\ dead = f.dead /\ W = Leaving(f, ids)
        /\ o = Owner(g, at) /\ h = Unlinked(g, at) /\ n = FinishNext(f)
  OBVIOUS
<1>2. /\ f = [graph |-> g, at |-> at, over |-> f.over, dead |-> dead]
      /\ N \subseteq Nodes(g) /\ \A x \in N \ {ROOT} : Owner(g, x) \in N
      /\ dead \in Seq(N \ {ROOT})
      /\ dead \o ids \in Seq(N \ {ROOT}) /\ IsInjective(dead \o ids) /\ ToSet(dead \o ids) = W
      /\ Growing(g, P, W \ {at}, W, W) /\ Flagged(g)
      /\ at \in W /\ ~g.heap[ROOT].exhausted
      /\ \A x \in W : Owner(g, x) \in W \/ x = at
  BY <1>1 DEF Ending, Left, Leaving
<1>3. W \subseteq N \ {ROOT}
  BY <1>2, ToSetLemma
<1>4. o \in N /\ o \notin W
  <2>1. W \in SUBSET (Nodes(g) \ {ROOT}) /\ W # {}
    BY <1>2, <1>3
  <2>2. PICK x \in W : Owner(g, x) \notin W
    BY <1>2, <2>1 DEF Growing, Owned
  <2> QED
    BY <1>1, <1>2, <1>3, <2>2
<1>5. /\ Growing(h, P, W, W \cup (IF IsLast(g, at) THEN {o} ELSE {}), W)
      /\ Extends(g, h) /\ Nodes(h) = Nodes(g) /\ TasksOf(h) = TasksOf(g) /\ o \in TasksOf(g)
      /\ \A t \in TasksOf(g) \ {o} : h.heap[t] = g.heap[t]
      /\ Slaves(h, o) = <<>> <=> IsLast(g, at)
  <2>1. PICK U : U = W \ {at}
    OBVIOUS
  <2>2. at \in Nodes(g) \ U /\ at # ROOT /\ U \cup {at} = W /\ Growing(g, P, U, W, W)
    BY <1>2, <1>3, <2>1
  <2>3. /\ Growing(h, P, U \cup {at}, W \cup (IF IsLast(g, at) THEN {o} ELSE {}), W)
        /\ Extends(g, h) /\ Nodes(h) = Nodes(g) /\ TasksOf(h) = TasksOf(g) /\ o \in TasksOf(g)
        /\ \A t \in TasksOf(g) \ {o} : h.heap[t] = g.heap[t]
        /\ Slaves(h, o) = <<>> <=> IsLast(g, at)
    <3>1. h = Unlinked(g, at) /\ o = Owner(g, at)
      BY <1>1
    <3>2. Leaves(g, h, P, U, W, W, at)
      BY <2>2, <3>1, UnlinkedGrows
    <3> QED
      BY <3>1, <3>2 DEF Leaves
  <2> QED
    BY <2>2, <2>3
<1>6. ROOT \in TasksOf(g) /\ ROOT \in Nodes(g) /\ ROOT \in TasksOf(h)
  BY <1>2, <1>5 DEF Growing, Entries, TasksOf
<1>7. /\ h.heap[ROOT].solution = g.heap[ROOT].solution
      /\ ~h.heap[ROOT].exhausted /\ Slaves(g, ROOT) # <<>>
      /\ \A x \in N \ {ROOT} : Owner(h, x) = Owner(g, x)
  BY <1>2, <1>5 DEF Extends, Flagged
<1>8. o # ROOT => Slaves(h, ROOT) # <<>>
  BY <1>5, <1>6, <1>7 DEF Slaves
<1>9. CASE ~IsLast(g, at)
  <2>1. n = [graph |-> h, at |-> at, over |-> TRUE, dead |-> dead]
    <3>1. n = [f EXCEPT !.graph = h, !.over = TRUE]
      BY <1>1, <1>9 DEF FinishNext
    <3>2. PICK over, yes : over = f.over /\ yes = TRUE
      OBVIOUS
    <3>3. f = [graph |-> g, at |-> at, over |-> over, dead |-> dead]
      BY <1>2, <3>2
    <3>4. PICK m : m = [f EXCEPT !.graph = h]
      OBVIOUS
    <3>5. m = [graph |-> h, at |-> at, over |-> over, dead |-> dead]
      BY <3>3, <3>4
    <3>6. PICK l : l = [m EXCEPT !.over = yes]
      OBVIOUS
    <3>7. l = [graph |-> h, at |-> at, over |-> yes, dead |-> dead]
      BY <3>5, <3>6
    <3>8. n = l
      BY <3>1, <3>2, <3>4, <3>6
    <3> QED
      BY <3>2, <3>7, <3>8
  <2>2. n.graph = h /\ n.at = at /\ n.over = TRUE /\ n.dead = dead
    BY <2>1
  <2>3. Leaving(n, ids) = W /\ Left(n, ids) = W
    BY <1>2, <2>2 DEF Leaving, Left
  <2>4. Flagged(h)
    BY <1>2, <1>5, <1>7, <1>8, <1>9 DEF Flagged
  <2>5. Growing(h, P, W, W, W)
    BY <1>5, <1>9, BusyWider
  <2>6. Ending(n, ids, N, P)
    BY <1>2, <1>5, <1>7, <2>1, <2>2, <2>3, <2>4, <2>5 DEF Ending
  <2> QED
    BY <1>1, <2>2, <2>6
<1>10. CASE IsLast(g, at)
  <2>1. PICK k : k = ExecutionsExhausted(h, o)
    OBVIOUS
  <2>2. n = [graph |-> k, at |-> o, over |-> o = ROOT, dead |-> IF o = ROOT THEN dead ELSE <<o>> \o dead]
    BY <1>1, <1>10, <2>1 DEF FinishNext, Told
  <2>3. Growing(h, P, W, W \cup {o}, W)
    BY <1>5, <1>10
  <2>4. /\ Growing(k, P, W, W \cup {o}, W \cup {o})
        /\ o # ROOT => Extends(h, k)
        /\ o = ROOT => /\ Nodes(k) = Nodes(h) /\ TasksOf(k) = TasksOf(h)
                       /\ \A x \in Nodes(h) : Owner(k, x) = Owner(h, x)
                       /\ k.heap[ROOT].solution = h.heap[ROOT].solution
                       /\ k.heap[ROOT].exhausted
                       /\ Slaves(k, ROOT) = Slaves(h, ROOT)
    <3>1. o \in TasksOf(h) \ W
      BY <1>4, <1>5
    <3> QED
      <4>1. NoMore(h, k, P, W, W \cup {o}, W, o)
        BY <1>4, <2>1, <2>3, <3>1, ExhaustedNoMore
      <4> QED
        BY <4>1 DEF NoMore
  <2>5. CASE o = ROOT
    <3>1. n = [graph |-> k, at |-> o, over |-> TRUE, dead |-> dead]
      BY <2>2, <2>5
    <3>2. n.graph = k /\ n.at = o /\ n.over = TRUE /\ n.dead = dead
      BY <3>1
    <3>3. Leaving(n, ids) = W /\ Left(n, ids) = W
      BY <1>2, <3>2 DEF Leaving, Left
    <3>4. Growing(k, P, W, W, W)
      BY <2>4, <2>5, HeldButRoot
    <3>5. Flagged(k)
      BY <1>2, <1>5, <1>7, <1>10, <2>4, <2>5 DEF Flagged
    <3>6. N \subseteq Nodes(k) /\ \A x \in N \ {ROOT} : Owner(k, x) \in N
      BY <1>2, <1>5, <1>7, <2>4, <2>5
    <3>7. Ending(n, ids, N, P)
      BY <1>2, <3>1, <3>2, <3>3, <3>4, <3>5, <3>6 DEF Ending
    <3> QED
      BY <1>1, <3>2, <3>7
  <2>6. CASE o # ROOT
    <3>1. PICK more : more = <<o>> \o dead
      OBVIOUS
    <3>2. n = [graph |-> k, at |-> o, over |-> FALSE, dead |-> more]
      BY <2>2, <2>6, <3>1
    <3>3. n.graph = k /\ n.at = o /\ n.over = FALSE /\ n.dead = more
      BY <3>2
    <3>4. /\ more \in Seq(N \ {ROOT}) /\ more \o ids \in Seq(N \ {ROOT})
          /\ IsInjective(more \o ids) /\ ToSet(more \o ids) = W \cup {o}
      <4>1. o \in N \ {ROOT} /\ o \notin ToSet(dead \o ids)
        BY <1>2, <1>4, <2>6
      <4>2. <<o>> \in Seq(N \ {ROOT}) /\ more \in Seq(N \ {ROOT})
        BY <1>2, <3>1, <4>1, SingleLemma, JoinedLemma
      <4>3. more \o ids = <<o>> \o (dead \o ids)
        BY <1>2, <3>1, <4>2, ConcatAssociative
      <4>4. PICK list : list = dead \o ids
        OBVIOUS
      <4>5. /\ <<o>> \o list \in Seq(N \ {ROOT}) /\ IsInjective(<<o>> \o list)
            /\ ToSet(<<o>> \o list) = ToSet(list) \cup {o}
        <5>1. list \in Seq(N \ {ROOT}) /\ IsInjective(list) /\ o \in N \ {ROOT} /\ o \notin ToSet(list)
          BY <1>2, <4>1, <4>4
        <5>2. PICK E : E = N \ {ROOT}
          OBVIOUS
        <5> QED
          BY <5>1, <5>2, LinkedLemma
      <4> QED
        BY <1>2, <4>2, <4>3, <4>4, <4>5
    <3>5. Leaving(n, ids) = W \cup {o} /\ Left(n, ids) = W
      BY <1>4, <3>3, <3>4 DEF Leaving, Left
    <3>6. Extends(h, k) /\ Extends(g, k) /\ Nodes(g) \subseteq Nodes(k)
      BY <1>5, <1>6, <2>4, <2>6, ExtendsTransitive DEF Extends
    <3>7. \A x \in N : Owner(k, x) = Owner(g, x)
      BY <1>2, <3>6 DEF Extends
    <3>8. Slaves(k, ROOT) # <<>>
      BY <1>6, <1>8, <2>3, <2>4, <2>6, <3>6, SlavesStay
    <3>9. Flagged(k) /\ ~k.heap[ROOT].exhausted
      BY <1>2, <3>6, <3>8 DEF Flagged, Extends
    <3>10. \A x \in W \cup {o} : Owner(k, x) \in W \cup {o} \/ x = o
      BY <1>1, <1>2, <1>3, <3>7
    <3>11. N \subseteq Nodes(k) /\ \A x \in N \ {ROOT} : Owner(k, x) \in N
      BY <1>2, <3>6, <3>7
    <3>12. Ending(n, ids, N, P)
      BY <2>4, <3>2, <3>3, <3>4, <3>5, <3>9, <3>10, <3>11 DEF Ending
    <3>13. o \in N \ {ROOT}
      BY <1>4, <2>6
    <3> QED
      BY <1>1, <1>4, <3>5, <3>12, <3>13
  <2> QED
    BY <2>5, <2>6
<1> QED
  BY <1>9, <1>10

(* The recursive function of Ended.                                        *)
EndsBy(start, ending, n) ==
  ending = [k \in 0 .. n |-> IF k = 0 THEN start ELSE FinishNext(ending[k - 1])]

LEMMA EndingExists ==
  ASSUME NEW start, NEW n \in Nat
  PROVE  \E ending : EndsBy(start, ending, n)
<1> DEFINE T == {k \in 0 .. n : \E ending : EndsBy(start, ending, k)}
<1>1. 0 \in T
  <2> DEFINE ending == [k \in {0} |-> start]
  <2>1. EndsBy(start, ending, 0)
    BY DEF EndsBy
  <2> QED
    BY <2>1
<1>2. ASSUME NEW j \in 0 .. n - 1, j \in T PROVE j + 1 \in T
  <2>1. PICK ending : EndsBy(start, ending, j)
    BY <1>2
  <2> DEFINE more == [k \in 0 .. j + 1 |-> IF k \in 0 .. j THEN ending[k] ELSE FinishNext(ending[k - 1])]
  <2>2. \A k \in 0 .. j : more[k] = ending[k]
    OBVIOUS
  <2>3. \A k \in 0 .. j : ending[k] = IF k = 0 THEN start ELSE FinishNext(ending[k - 1])
    BY <2>1 DEF EndsBy
  <2>4. \A k \in 0 .. j + 1 : more[k] = IF k = 0 THEN start ELSE FinishNext(more[k - 1])
    <3> TAKE k \in 0 .. j + 1
    <3>1. CASE k \in 0 .. j
      <4>1. k # 0 => k - 1 \in 0 .. j
        BY <3>1
      <4>2. k # 0 => more[k - 1] = ending[k - 1]
        BY <2>2, <4>1
      <4> QED
        BY <2>2, <2>3, <3>1, <4>2
    <3>2. CASE k = j + 1
      <4>1. k # 0 /\ k - 1 = j /\ k \notin 0 .. j /\ j \in 0 .. j
        BY <3>2
      <4>2. more[j] = ending[j]
        BY <2>2, <4>1
      <4>3. more[k] = FinishNext(ending[k - 1])
        BY <4>1
      <4> QED
        BY <4>1, <4>2, <4>3
    <3> QED
      BY <3>1, <3>2
  <2>5. more = [k \in 0 .. j + 1 |-> more[k]]
    OBVIOUS
  <2> HIDE DEF more
  <2>6. EndsBy(start, more, j + 1)
    BY <2>4, <2>5 DEF EndsBy
  <2> QED
    BY <1>2, <2>6
<1> HIDE DEF T
<1>3. n \in T
  BY <1>1, <1>2, StepByStep
<1> QED
  BY <1>3 DEF T

(* It is over before there are no more tasks to tell.                      *)
LEMMA EndedLemma ==
  ASSUME NEW start, NEW ids, NEW N, NEW P, Ending(start, ids, N, P), ids \in Seq(N \ {ROOT}),
         N = Nodes(start.graph)
  PROVE  Ending(Ended(start), ids, N, P) /\ Ended(start).over
<1>1. IsFiniteSet(N) /\ ROOT \in N
  BY DEF Ending, Growing, Entries, TasksOf
<1>2. PICK c \in Nat : c = Cardinality(N)
  BY <1>1, FS_CardinalityType
<1>3. PICK ending : ending = CHOOSE e : EndsBy(start, e, c)
  OBVIOUS
<1>4. EndsBy(start, ending, c)
  BY <1>3, EndingExists
<1>5. Ended(start) = ending[c]
  BY <1>2, <1>3 DEF Ended, EndsBy, Nodes
<1>6. \A k \in 0 .. c : ending[k] = IF k = 0 THEN start ELSE FinishNext(ending[k - 1])
  BY <1>4 DEF EndsBy
<1> DEFINE Size(f) == Cardinality(Leaving(f, ids))
           T == {k \in 0 .. c : Ending(ending[k], ids, N, P) /\ (ending[k].over \/ Size(ending[k]) >= k)}
<1>7. \A f : Ending(f, ids, N, P) =>
        /\ Leaving(f, ids) \subseteq N \ {ROOT} /\ IsFiniteSet(Leaving(f, ids))
        /\ Size(f) \in Nat /\ Size(f) < c
  <2> TAKE f
  <2> HAVE Ending(f, ids, N, P)
  <2>1. Leaving(f, ids) \subseteq N \ {ROOT}
    BY ToSetLemma DEF Ending, Leaving
  <2>2. IsFiniteSet(N \ {ROOT}) /\ Cardinality(N \ {ROOT}) = c - 1
    BY <1>1, <1>2, FS_RemoveElement
  <2>3. IsFiniteSet(Leaving(f, ids)) /\ Cardinality(Leaving(f, ids)) <= c - 1
    BY <2>1, <2>2, FS_Subset
  <2>4. Cardinality(Leaving(f, ids)) \in Nat
    BY <2>3, FS_CardinalityType
  <2> QED
    BY <2>1, <2>3, <2>4
<1>8. 0 \in T
  <2>1. ending[0] = start
    BY <1>6
  <2>2. Size(start) \in Nat
    BY <1>7
  <2> QED
    BY <2>1, <2>2
<1>9. ASSUME NEW j \in 0 .. c - 1, j \in T PROVE j + 1 \in T
  <2>1. PICK f, n : f = ending[j] /\ n = FinishNext(f)
    OBVIOUS
  <2>2. ending[j + 1] = n /\ j + 1 \in 0 .. c
    BY <1>6, <2>1
  <2>3. Ending(f, ids, N, P) /\ (f.over \/ Size(f) >= j)
    BY <1>9, <2>1
  <2> SUFFICES Ending(n, ids, N, P) /\ (n.over \/ Size(n) >= j + 1)
    BY <2>2
  <2>4. CASE f.over
    <3>1. n = f
      BY <2>1, <2>4 DEF FinishNext
    <3> QED
      BY <2>3, <2>4, <3>1
  <2>5. CASE ~f.over
    <3>1. /\ Ending(n, ids, N, P)
          /\ ~n.over => \E x \in N \ {ROOT} : x \notin Leaving(f, ids) /\ Leaving(n, ids) = Leaving(f, ids) \cup {x}
      BY <2>1, <2>3, <2>5, FinishNextKeeps
    <3>2. CASE ~n.over
      <4>1. PICK x : x \notin Leaving(f, ids) /\ Leaving(n, ids) = Leaving(f, ids) \cup {x}
        BY <3>1, <3>2
      <4>2. IsFiniteSet(Leaving(f, ids)) /\ Size(f) \in Nat
        BY <1>7, <2>3
      <4>3. Size(n) = Size(f) + 1
        BY <4>1, <4>2, FS_AddElement
      <4> QED
        BY <2>3, <2>5, <3>1, <4>2, <4>3
    <3> QED
      BY <3>1, <3>2
  <2> QED
    BY <2>4, <2>5
<1> HIDE DEF T, Size
<1>10. c \in T
  <2>1. c \in Nat /\ c \in 0 .. c
    BY <1>2
  <2>2. \A j \in 0 .. c : j \in T
    BY <1>8, <1>9, <2>1, StepByStep
  <2> QED
    BY <2>1, <2>2
<1>11. Ending(ending[c], ids, N, P) /\ (ending[c].over \/ Size(ending[c]) >= c)
  BY <1>10 DEF T
<1>12. ending[c].over
  BY <1>7, <1>11
<1> QED
  BY <1>5, <1>11, <1>12

----------------------------------------------------------------------------
(* Deletion.  R were deleted; the list has those of U and the slaves of R  *)
(* that were not, each one once.                                           *)
Rest(g, R, heap) == DOMAIN heap = Nodes(g) \ R /\ \A x \in Nodes(g) \ R : heap[x] = g.heap[x]
Deleting(g, U, d, R) ==
  /\ R \subseteq Nodes(g) \ {ROOT}
  /\ d = [graph |-> d.graph, left |-> d.left]
  /\ d.graph = [heap |-> d.graph.heap, ahead |-> d.graph.ahead, bindings |-> d.graph.bindings]
  /\ Rest(g, R, d.graph.heap)
  /\ d.graph.ahead \in Seq(Nodes(g)) /\ IsInjective(d.graph.ahead)
  /\ ToSet(d.graph.ahead) = ToSet(g.ahead) \ R
  /\ d.left \in Seq(Nodes(g) \ {ROOT}) /\ IsInjective(d.left) /\ ToSet(d.left) \cap R = {}
  /\ U \subseteq R \cup ToSet(d.left)
  /\ \A y \in Nodes(g) \ U : Owner(g, y) \in R => y \in R \cup ToSet(d.left)
  /\ \A y \in (R \cup ToSet(d.left)) \ U : Owner(g, y) \in R
  /\ GoodTable(d.graph.bindings)
  /\ \A t \in Holders(g, U) \ R : Open(d.graph.bindings, g.heap[t].vars)

Graph(heap, ahead, b) == [heap |-> heap, ahead |-> ahead, bindings |-> b]
Without(heap, id) == [i \in DOMAIN heap \ {id} |-> heap[i]]
LEMMA GoneLemma ==
  ASSUME NEW heap, NEW ahead, NEW b, NEW g, g = Graph(heap, ahead, b), NEW id
  PROVE  Gone(g, id) = Graph(Without(heap, id), Dropped(ahead, {id}), b)
<1>0. PICK list : list = Dropped(ahead, {id})
  OBVIOUS
<1>1. g = [heap |-> heap, ahead |-> ahead, bindings |-> b] /\ g.heap = heap /\ g.ahead = ahead
  BY DEF Graph
<1>2. PICK rest : rest = Without(heap, id)
  OBVIOUS
<1>3. Gone(g, id) = [g EXCEPT !.heap = rest, !.ahead = list]
  BY <1>0, <1>1, <1>2 DEF Gone, Without
<1>4. PICK m : m = [g EXCEPT !.heap = rest]
  OBVIOUS
<1>5. m = [heap |-> rest, ahead |-> ahead, bindings |-> b]
  BY <1>1, <1>4
<1>6. PICK n : n = [m EXCEPT !.ahead = list]
  OBVIOUS
<1>7. n = [heap |-> rest, ahead |-> list, bindings |-> b]
  BY <1>5, <1>6
<1>8. Gone(g, id) = n
  BY <1>3, <1>4, <1>6
<1> QED
  BY <1>0, <1>2, <1>7, <1>8 DEF Graph

(* A matchrew that is deleted closes the context that it holds.            *)
LEMMA ClosedOwn ==
  ASSUME NEW g, NEW P, NEW U, Growing(g, P, U, U, U), NEW R, NEW id \in Nodes(g) \ R,
         NEW b, GoodTable(b), \A t \in Holders(g, U) \ R : Open(b, g.heap[t].vars),
         NEW heap, NEW ahead, NEW k, k = [heap |-> heap, ahead |-> ahead, bindings |-> b],
         NEW h, h = CloseOwn(k, g.heap[id])
  PROVE  /\ h = [heap |-> heap, ahead |-> ahead, bindings |-> h.bindings]
         /\ GoodTable(h.bindings)
         /\ \A t \in Holders(g, U) \ (R \cup {id}) : Open(h.bindings, g.heap[t].vars)
<1>1. PICK e, c : e = g.heap[id] /\ c = CloseContext(b, e.vars)
  OBVIOUS
<1>2. /\ \A s, t \in Holders(g, U) : g.heap[s].vars = g.heap[t].vars => s = t
      /\ GoodEntry(e)
  BY <1>1 DEF Growing, Held, Entries
<1>3. CASE e.kind # "subterm"
  <2>1. h = k
    BY <1>1, <1>3 DEF CloseOwn
  <2> QED
    BY <2>1
<1>4. CASE e.kind = "subterm"
  <2>1. k.bindings = b
    OBVIOUS
  <2>2. h = [k EXCEPT !.bindings = c]
    BY <1>1, <1>4, <2>1 DEF CloseOwn
  <2>3. h = [heap |-> heap, ahead |-> ahead, bindings |-> c]
    BY <2>2
  <2>4. h.bindings = c
    BY <2>3
  <2>5. CASE e.vars = EMPTY_CONTEXT
    <3>1. c = b
      BY <1>1, <2>5 DEF CloseContext
    <3> QED
      BY <2>3, <2>4, <3>1
  <2>6. CASE e.vars # EMPTY_CONTEXT
    <3>1. IsTask(e)
      BY <1>2, <1>4 DEF GoodEntry, GoodProcess
    <3>2. id \in Holders(g, U) \ R
      BY <1>1, <1>4, <2>6, <3>1 DEF Holders, TasksOf
    <3>3. Open(b, e.vars)
      BY <1>1, <3>2
    <3>4. GoodTable(c) /\ \A x : Open(b, x) /\ x # e.vars => Open(c, x)
      BY <1>1, <3>3, ClosedTable
    <3>5. \A t \in Holders(g, U) \ (R \cup {id}) : Open(b, g.heap[t].vars) /\ g.heap[t].vars # e.vars
      BY <1>1, <1>2, <3>2
    <3> QED
      BY <2>3, <2>4, <3>4, <3>5
  <2> QED
    BY <2>5, <2>6
<1> QED
  BY <1>3, <1>4

LEMMA DeleteNextKeeps ==
  ASSUME NEW g, NEW P, NEW U, Growing(g, P, U, U, U), NEW d, NEW R, Deleting(g, U, d, R),
         d.left # <<>>, NEW id, id = Head(d.left), NEW n, n = DeleteNext(d)
  PROVE  Deleting(g, U, n, R \cup {id}) /\ id \notin R
<1>1. PICK b, ahead, left, heap :
        b = d.graph.bindings /\ ahead = d.graph.ahead /\ left = d.left /\ heap = d.graph.heap
  OBVIOUS
<1>2. /\ R \subseteq Nodes(g) \ {ROOT}
      /\ d.graph = [heap |-> heap, ahead |-> ahead, bindings |-> b] /\ Rest(g, R, heap)
      /\ ahead \in Seq(Nodes(g)) /\ IsInjective(ahead)
      /\ ToSet(ahead) = ToSet(g.ahead) \ R
      /\ left \in Seq(Nodes(g) \ {ROOT}) /\ IsInjective(left) /\ ToSet(left) \cap R = {}
      /\ U \subseteq R \cup ToSet(left)
      /\ \A y \in Nodes(g) \ U : Owner(g, y) \in R => y \in R \cup ToSet(left)
      /\ \A y \in (R \cup ToSet(left)) \ U : Owner(g, y) \in R
      /\ GoodTable(b)
      /\ \A t \in Holders(g, U) \ R : Open(b, g.heap[t].vars)
  BY <1>1 DEF Deleting
<1>3. /\ id \in Nodes(g) \ {ROOT} /\ id \in ToSet(left) /\ Tail(left) \in Seq(Nodes(g) \ {ROOT})
      /\ ToSet(left) = ToSet(Tail(left)) \cup {id}
      /\ IsInjective(Tail(left)) /\ id \notin ToSet(Tail(left))
  BY <1>1, <1>2, TailedLemma
<1>4. id \notin R /\ id \in Nodes(g) \ R
  BY <1>2, <1>3
<1>5. PICK e, slaves : e = g.heap[id] /\ slaves = IF IsTask(e) THEN e.slaves ELSE <<>>
  OBVIOUS
<1>6. d.graph.heap[id] = e
  BY <1>1, <1>2, <1>4, <1>5 DEF Rest
<1>7. PICK k, h : k = d.graph /\ h = CloseOwn(k, e)
  BY Zenon
<1>8. n = [graph |-> Gone(h, id), left |-> slaves \o Tail(left)]
  BY <1>1, <1>5, <1>6, <1>7 DEF DeleteNext
<1>9. PICK c : c = h.bindings
  OBVIOUS
<1>10. /\ h = [heap |-> heap, ahead |-> ahead, bindings |-> c]
       /\ GoodTable(c)
       /\ \A t \in Holders(g, U) \ (R \cup {id}) : Open(c, g.heap[t].vars)
  <2>2. k = [heap |-> heap, ahead |-> ahead, bindings |-> b]
    BY <1>2, <1>7
  <2>3. h = CloseOwn(k, g.heap[id])
    BY <1>5, <1>7
  <2> QED
    BY <1>2, <1>4, <1>9, <2>2, <2>3, ClosedOwn
<1>11. PICK list : list = Dropped(ahead, {id})
  OBVIOUS
<1>12. PICK smaller : smaller = Without(heap, id)
  OBVIOUS
<1>13. Gone(h, id) = [heap |-> smaller, ahead |-> list, bindings |-> c]
  <2>1. h = Graph(heap, ahead, c)
    BY <1>10 DEF Graph
  <2>2. Gone(h, id) = Graph(Without(heap, id), Dropped(ahead, {id}), c)
    BY <2>1, GoneLemma
  <2> QED
    BY <1>11, <1>12, <2>2 DEF Graph
<1>14. Rest(g, R \cup {id}, smaller)
  BY <1>2, <1>12 DEF Rest, Without
<1>15. list \in Seq(Nodes(g)) /\ IsInjective(list) /\ ToSet(list) = ToSet(g.ahead) \ (R \cup {id})
  <2>1. /\ list \in Seq(Nodes(g)) /\ IsInjective(list) /\ ToSet(list) = ToSet(ahead) \ {id}
    BY <1>2, <1>11, DroppedLemma, DroppedInjective
  <2> QED
    BY <1>2, <2>1
<1>16. /\ slaves \in Seq(Nodes(g) \ {ROOT}) /\ IsInjective(slaves)
       /\ ToSet(slaves) = Children(g, U, id)
  <2>1. CASE IsTask(e)
    <3>1. id \in TasksOf(g) /\ Slaves(g, id) = slaves
      BY <1>4, <1>5, <2>1 DEF TasksOf, Slaves
    <3>2. /\ slaves \in Seq(Nodes(g)) /\ IsInjective(slaves) /\ ToSet(slaves) = Children(g, U, id)
      BY <3>1 DEF Growing, Linked
    <3>3. ROOT \notin Children(g, U, id)
      <4>1. Owner(g, ROOT) = NONE /\ Nodes(g) \subseteq Nat
        BY DEF Growing, Entries
      <4> QED
        BY <1>4, <4>1 DEF Children, NONE
    <3>4. ToSet(slaves) \subseteq Nodes(g) \ {ROOT}
      BY <3>2, <3>3 DEF Children
    <3> QED
      BY <3>2, <3>4, WithinLemma
  <2>2. CASE ~IsTask(e)
    <3>1. slaves = <<>>
      BY <1>5, <2>2
    <3>2. id \notin TasksOf(g)
      BY <1>5, <2>2 DEF TasksOf
    <3>3. \A x \in Nodes(g) : Owner(g, x) # id
      <4>1. /\ Owner(g, ROOT) = NONE /\ Nodes(g) \subseteq Nat
            /\ \A x \in Nodes(g) \ {ROOT} : Owner(g, x) \in TasksOf(g)
        BY DEF Growing, Entries, Owned
      <4> QED
        BY <1>4, <3>2, <4>1 DEF NONE
    <3>4. Children(g, U, id) = {}
      BY <3>3 DEF Children
    <3> QED
      BY <3>1, <3>4, EmptyList
  <2> QED
    BY <2>1, <2>2
<1>17. Owner(g, id) # id
  <2>1. {id} \in SUBSET (Nodes(g) \ {ROOT}) /\ {id} # {}
    BY <1>3
  <2>2. \E x \in {id} : Owner(g, x) \notin {id}
    BY <2>1 DEF Growing, Owned
  <2> QED
    BY <2>2
<1>18. ToSet(slaves) \cap (R \cup ToSet(left)) = {}
  BY <1>2, <1>3, <1>4, <1>16 DEF Children
<1>19. PICK left2 : left2 = slaves \o Tail(left)
  OBVIOUS
<1>20. /\ left2 \in Seq(Nodes(g) \ {ROOT}) /\ IsInjective(left2)
       /\ ToSet(left2) = Children(g, U, id) \cup ToSet(Tail(left))
  <2>1. PICK E, rest : E = Nodes(g) \ {ROOT} /\ rest = Tail(left)
    OBVIOUS
  <2>2. /\ slaves \in Seq(E) /\ rest \in Seq(E) /\ IsInjective(slaves) /\ IsInjective(rest)
        /\ ToSet(slaves) \cap ToSet(rest) = {}
    BY <1>3, <1>16, <1>18, <2>1
  <2>3. /\ slaves \o rest \in Seq(E) /\ IsInjective(slaves \o rest)
        /\ ToSet(slaves \o rest) = ToSet(slaves) \cup ToSet(rest)
    BY <2>2, JoinedLemma
  <2> QED
    BY <1>16, <1>19, <2>1, <2>3
<1>21. n = [graph |-> [heap |-> smaller, ahead |-> list, bindings |-> c], left |-> left2]
  BY <1>8, <1>19, <1>13
<1>22. PICK m, Q : m = n.graph /\ Q = R \cup {id}
  OBVIOUS
<1>23. /\ n = [graph |-> m, left |-> left2] /\ n.left = left2
       /\ m = [heap |-> smaller, ahead |-> list, bindings |-> c] /\ Rest(g, Q, smaller)
       /\ m.heap = smaller /\ m.ahead = list /\ m.bindings = c
  BY <1>21, <1>22, <1>14
<1>24. /\ Q \subseteq Nodes(g) \ {ROOT} /\ ToSet(left2) \cap Q = {}
       /\ U \subseteq Q \cup ToSet(left2)
  BY <1>2, <1>3, <1>16, <1>18, <1>20, <1>22
<1>25. \A y \in Nodes(g) \ U : Owner(g, y) \in Q => y \in Q \cup ToSet(left2)
  BY <1>2, <1>3, <1>20, <1>22 DEF Children
<1>26. \A y \in (Q \cup ToSet(left2)) \ U : Owner(g, y) \in Q
  BY <1>2, <1>3, <1>20, <1>22 DEF Children
<1>27. Deleting(g, U, n, Q)
  BY <1>10, <1>15, <1>20, <1>22, <1>23, <1>24, <1>25, <1>26 DEF Deleting
<1> QED
  BY <1>4, <1>22, <1>27

(* What is there after a deletion.                                         *)
Survives(g, h, P) ==
  /\ Growing(h, P \cap Nodes(h), {}, {}, {})
  /\ Nodes(h) \subseteq Nodes(g)
  /\ h.heap[ROOT] = g.heap[ROOT]

LEMMA DeletingEnds ==
  ASSUME NEW g, NEW P, NEW U, Growing(g, P, U, U, U), NEW d, NEW R, Deleting(g, U, d, R), d.left = <<>>
  PROVE  Survives(g, d.graph, P)
<1>1. PICK h : h = d.graph
  OBVIOUS
<1>2. /\ R \subseteq Nodes(g) \ {ROOT} /\ U \subseteq R
      /\ h = [heap |-> h.heap, ahead |-> h.ahead, bindings |-> h.bindings] /\ Rest(g, R, h.heap)
      /\ h.ahead \in Seq(Nodes(g)) /\ IsInjective(h.ahead) /\ ToSet(h.ahead) = ToSet(g.ahead) \ R
      /\ \A y \in Nodes(g) \ U : Owner(g, y) \in R => y \in R
      /\ \A y \in R \ U : Owner(g, y) \in R
      /\ GoodTable(h.bindings)
      /\ \A t \in Holders(g, U) \ R : Open(h.bindings, g.heap[t].vars)
  BY <1>1, EmptyList DEF Deleting
<1>3. Nodes(h) = Nodes(g) \ R /\ \A x \in Nodes(h) : h.heap[x] = g.heap[x] /\ Owner(h, x) = Owner(g, x)
  <2>1. Nodes(h) = Nodes(g) \ R
    BY <1>2 DEF Nodes, Rest
  <2>2. \A x \in Nodes(g) \ R : h.heap[x] = g.heap[x]
    BY <1>2 DEF Rest
  <2> QED
    BY <2>1, <2>2 DEF Owner
<1>4. TasksOf(h) = TasksOf(g) \ R
  BY <1>3 DEF TasksOf
<1>5. Entries(g) /\ Linked(g, U) /\ Owned(g) /\ Listed(g, P) /\ Busy(g, U) /\ Held(g, U) /\ Inherited(g)
  BY DEF Growing
<1>6. ROOT \in Nodes(h) /\ ROOT \in TasksOf(h)
  BY <1>2, <1>3, <1>4, <1>5 DEF Entries, TasksOf
<1>7. Entries(h)
  <2>1. IsFiniteSet(Nodes(h)) /\ Nodes(h) \subseteq Nat
    BY <1>3, <1>5, FS_Subset DEF Entries
  <2>2. h = [heap |-> h.heap, ahead |-> h.ahead, bindings |-> h.bindings]
    BY <1>2
  <2>3. \A x \in Nodes(h) : GoodEntry(h.heap[x])
    BY <1>3, <1>5 DEF Entries
  <2>4. Owner(h, ROOT) = NONE
    BY <1>3, <1>5, <1>6 DEF Entries
  <2>5. \A t \in TasksOf(h) : h.heap[t].kind = "root" <=> t = ROOT
    <3>1. \A t \in TasksOf(h) : t \in TasksOf(g) /\ h.heap[t] = g.heap[t]
      BY <1>3, <1>4 DEF TasksOf
    <3> QED
      BY <1>5, <3>1 DEF Entries
  <2> QED
    BY <1>6, <2>1, <2>2, <2>3, <2>4, <2>5 DEF Entries
<1>8. \A t \in TasksOf(h) : t \in TasksOf(g) /\ t \in Nodes(h) /\ h.heap[t] = g.heap[t] /\ Slaves(h, t) = Slaves(g, t)
  BY <1>3, <1>4 DEF TasksOf, Slaves
<1>9. Linked(h, {})
  <2>1. \A t \in TasksOf(h) : Children(h, {}, t) = Children(g, U, t)
    <3> TAKE t \in TasksOf(h)
    <3>1. t \notin R
      BY <1>4
    <3>2. \A x \in Nodes(g) \ U : Owner(g, x) = t => x \notin R
      BY <1>2, <3>1
    <3>3. \A x \in Children(h, {}, t) : x \in Nodes(g) \ U /\ Owner(g, x) = t
      BY <1>2, <1>3 DEF Children
    <3>4. \A x \in Nodes(g) \ U : Owner(g, x) = t => x \in Nodes(h) /\ Owner(h, x) = t
      BY <1>3, <3>2
    <3> QED
      BY <3>3, <3>4 DEF Children
  <2>2. \A t \in TasksOf(h) :
          /\ Slaves(h, t) \in Seq(Nodes(h)) /\ IsInjective(Slaves(h, t))
          /\ ToSet(Slaves(h, t)) = Children(h, {}, t)
    <3> TAKE t \in TasksOf(h)
    <3>1. /\ Slaves(h, t) \in Seq(Nodes(g)) /\ IsInjective(Slaves(h, t))
          /\ ToSet(Slaves(h, t)) = Children(h, {}, t)
      BY <1>5, <1>8, <2>1 DEF Linked
    <3>2. Children(h, {}, t) \subseteq Nodes(h)
      BY DEF Children
    <3> QED
      BY <3>1, <3>2, WithinLemma
  <2> QED
    BY <2>2 DEF Linked
<1>10. Owned(h)
  <2>1. \A x \in Nodes(h) \ {ROOT} :
          /\ x \in Nodes(g) \ {ROOT} /\ h.heap[x] = g.heap[x]
          /\ Owner(h, x) = Owner(g, x) /\ Owner(g, x) \in TasksOf(h)
          /\ h.heap[Owner(h, x)] = g.heap[Owner(g, x)]
    <3> TAKE x \in Nodes(h) \ {ROOT}
    <3>1. x \in Nodes(g) \ {ROOT} /\ x \notin R /\ x \notin U /\ h.heap[x] = g.heap[x] /\ Owner(h, x) = Owner(g, x)
      BY <1>2, <1>3
    <3>2. Owner(g, x) \in TasksOf(g) /\ Owner(g, x) \notin R
      BY <1>2, <1>5, <3>1 DEF Owned
    <3> QED
      BY <1>4, <1>8, <3>1, <3>2
  <2>2. \A x \in Nodes(h) \ {ROOT} :
         /\ h.heap[Owner(h, x)].kind = "subterm" <=> Inner(h.heap[x])
         /\ Behind(h.heap[x]) => h.heap[Owner(h, x)].kind = "call"
    BY <1>5, <2>1 DEF Owned
  <2>3. \A X \in SUBSET (Nodes(h) \ {ROOT}) : X # {} => \E x \in X : Owner(h, x) \notin X
    <3> TAKE X \in SUBSET (Nodes(h) \ {ROOT})
    <3> HAVE X # {}
    <3>1. X \in SUBSET (Nodes(g) \ {ROOT})
      BY <1>3
    <3>2. PICK x \in X : Owner(g, x) \notin X
      BY <1>5, <3>1 DEF Owned
    <3> QED
      BY <2>1, <3>2
  <2> QED
    BY <2>1, <2>2, <2>3 DEF Owned
<1>11. Listed(h, P \cap Nodes(h))
  <2>1. /\ ToSet(g.ahead) \cap P = {} /\ ToSet(g.ahead) \cup P = Nodes(g) \ TasksOf(g)
    BY <1>5 DEF Listed
  <2>2. ToSet(h.ahead) \subseteq Nodes(h)
    BY <1>2, <1>3, <2>1
  <2>3. h.ahead \in Seq(Nodes(h))
    BY <1>2, <2>2, WithinLemma
  <2>4. ToSet(h.ahead) \cap (P \cap Nodes(h)) = {}
    BY <1>2, <2>1
  <2>5. ToSet(h.ahead) \cup (P \cap Nodes(h)) = Nodes(h) \ TasksOf(h)
    BY <1>2, <1>3, <1>4, <2>1
  <2> QED
    BY <1>2, <2>3, <2>4, <2>5 DEF Listed
<1>12. Busy(h, {})
  BY <1>2, <1>4, <1>5, <1>8 DEF Busy
<1>13. Held(h, {})
  <2>1. \A t \in Holders(h, {}) : t \in Holders(g, U) \ R /\ h.heap[t].vars = g.heap[t].vars
    BY <1>2, <1>4, <1>8 DEF Holders
  <2>2. \A s, t \in Holders(g, U) : g.heap[s].vars = g.heap[t].vars => s = t
    BY <1>5 DEF Held
  <2> QED
    BY <1>2, <2>1, <2>2 DEF Held
<1>14. Inherited(h)
  <2>1. h.heap[ROOT].vars = EMPTY_CONTEXT
    BY <1>3, <1>5, <1>6 DEF Inherited
  <2>2. \A t \in TasksOf(h) : h.heap[t].kind \notin {"root", "subterm", "call"} => h.heap[t].vars = VarsOf(h, t)
    <3> TAKE t \in TasksOf(h)
    <3> HAVE h.heap[t].kind \notin {"root", "subterm", "call"}
    <3>1. t \in Nodes(h) \ {ROOT} /\ t \in TasksOf(g) /\ h.heap[t] = g.heap[t]
      BY <1>7, <1>8 DEF Entries
    <3>2. Owner(h, t) = Owner(g, t) /\ Owner(h, t) \in TasksOf(h)
      BY <1>3, <1>10, <3>1 DEF Owned
    <3>3. h.heap[Owner(h, t)] = g.heap[Owner(g, t)]
      BY <1>8, <3>2
    <3>4. g.heap[t].vars = VarsOf(g, t)
      BY <1>5, <3>1 DEF Inherited
    <3> QED
      BY <3>1, <3>3, <3>4 DEF VarsOf
  <2> QED
    BY <2>1, <2>2 DEF Inherited
<1>15. Growing(h, P \cap Nodes(h), {}, {}, {})
  BY <1>7, <1>9, <1>10, <1>11, <1>12, <1>13, <1>14 DEF Growing
<1> QED
  BY <1>1, <1>3, <1>6, <1>15 DEF Survives

(* The recursive function of Deleted.                                        *)
DeletedBy(start, deletion, n) ==
  deletion = [k \in 0 .. n |-> IF k = 0 THEN start ELSE DeleteNext(deletion[k - 1])]

LEMMA DeletionExists ==
  ASSUME NEW start, NEW n \in Nat
  PROVE  \E deletion : DeletedBy(start, deletion, n)
<1> DEFINE T == {k \in 0 .. n : \E deletion : DeletedBy(start, deletion, k)}
<1>1. 0 \in T
  <2> DEFINE deletion == [k \in {0} |-> start]
  <2>1. DeletedBy(start, deletion, 0)
    BY DEF DeletedBy
  <2> QED
    BY <2>1
<1>2. ASSUME NEW j \in 0 .. n - 1, j \in T PROVE j + 1 \in T
  <2>1. PICK deletion : DeletedBy(start, deletion, j)
    BY <1>2
  <2> DEFINE more == [k \in 0 .. j + 1 |-> IF k \in 0 .. j THEN deletion[k] ELSE DeleteNext(deletion[k - 1])]
  <2>2. \A k \in 0 .. j : more[k] = deletion[k]
    OBVIOUS
  <2>3. \A k \in 0 .. j : deletion[k] = IF k = 0 THEN start ELSE DeleteNext(deletion[k - 1])
    BY <2>1 DEF DeletedBy
  <2>4. \A k \in 0 .. j + 1 : more[k] = IF k = 0 THEN start ELSE DeleteNext(more[k - 1])
    <3> TAKE k \in 0 .. j + 1
    <3>1. CASE k \in 0 .. j
      <4>1. k # 0 => k - 1 \in 0 .. j
        BY <3>1
      <4>2. k # 0 => more[k - 1] = deletion[k - 1]
        BY <2>2, <4>1
      <4> QED
        BY <2>2, <2>3, <3>1, <4>2
    <3>2. CASE k = j + 1
      <4>1. k # 0 /\ k - 1 = j /\ k \notin 0 .. j /\ j \in 0 .. j
        BY <3>2
      <4>2. more[j] = deletion[j]
        BY <2>2, <4>1
      <4>3. more[k] = DeleteNext(deletion[k - 1])
        BY <4>1
      <4> QED
        BY <4>1, <4>2, <4>3
    <3> QED
      BY <3>1, <3>2
  <2>5. more = [k \in 0 .. j + 1 |-> more[k]]
    OBVIOUS
  <2> HIDE DEF more
  <2>6. DeletedBy(start, more, j + 1)
    BY <2>4, <2>5 DEF DeletedBy
  <2> QED
    BY <1>2, <2>6
<1> HIDE DEF T
<1>3. n \in T
  BY <1>1, <1>2, StepByStep
<1> QED
  BY <1>3 DEF T

LEMMA DeletedLemma ==
  ASSUME NEW g, NEW P, NEW U, Growing(g, P, U, U, U), NEW ids \in Seq(Nodes(g) \ {ROOT}),
         IsInjective(ids), ToSet(ids) = U, NEW h, h = Deleted(g, ids)
  PROVE  Survives(g, h, P)
<1>1. IsFiniteSet(Nodes(g)) /\ ROOT \in Nodes(g)
  BY DEF Growing, Entries, TasksOf
<1>2. PICK c \in Nat : c = Cardinality(Nodes(g))
  BY <1>1, FS_CardinalityType
<1>3. PICK start : start = [graph |-> g, left |-> ids]
  OBVIOUS
<1>4. PICK deletion : deletion = CHOOSE e : DeletedBy(start, e, c)
  OBVIOUS
<1>5. DeletedBy(start, deletion, c)
  BY <1>2, <1>4, DeletionExists
<1>6. h = deletion[c].graph
  BY <1>2, <1>3, <1>4 DEF Deleted, DeletedBy, Nodes
<1>7. \A k \in 0 .. c : deletion[k] = IF k = 0 THEN start ELSE DeleteNext(deletion[k - 1])
  BY <1>5 DEF DeletedBy
<1> DEFINE T == {k \in 0 .. c : \E R : /\ Deleting(g, U, deletion[k], R)
                                       /\ deletion[k].left = <<>> \/ Cardinality(R) >= k}
<1>8. \A R : R \subseteq Nodes(g) \ {ROOT} => IsFiniteSet(R) /\ Cardinality(R) \in Nat /\ Cardinality(R) < c
  <2> TAKE R
  <2> HAVE R \subseteq Nodes(g) \ {ROOT}
  <2>1. IsFiniteSet(Nodes(g) \ {ROOT}) /\ Cardinality(Nodes(g) \ {ROOT}) = c - 1
    BY <1>1, <1>2, FS_RemoveElement
  <2>2. IsFiniteSet(R) /\ Cardinality(R) <= c - 1
    BY <2>1, FS_Subset
  <2>3. Cardinality(R) \in Nat
    BY <2>2, FS_CardinalityType
  <2> QED
    BY <1>2, <2>2, <2>3
<1>9. 0 \in T
  <2>1. deletion[0] = start
    BY <1>7
  <2>2. start.graph = g /\ start.left = ids
    BY <1>3
  <2>3. /\ g = [heap |-> g.heap, ahead |-> g.ahead, bindings |-> g.bindings]
        /\ g.ahead \in Seq(Nodes(g)) /\ IsInjective(g.ahead)
        /\ GoodTable(g.bindings) /\ \A t \in Holders(g, U) : Open(g.bindings, g.heap[t].vars)
    BY DEF Growing, Entries, Listed, Held
  <2>4. Rest(g, {}, g.heap)
    BY DEF Rest, Nodes
  <2>5. \A y \in Nodes(g) \ U : Owner(g, y) \notin {}
    OBVIOUS
  <2>6. Deleting(g, U, start, {})
    BY <1>3, <2>2, <2>3, <2>4, <2>5 DEF Deleting
  <2>7. Cardinality({}) = 0
    BY FS_EmptySet
  <2> QED
    BY <1>2, <2>1, <2>6, <2>7
<1>10. ASSUME NEW j \in 0 .. c - 1, j \in T PROVE j + 1 \in T
  <2>1. PICK d, n : d = deletion[j] /\ n = DeleteNext(d)
    OBVIOUS
  <2>2. deletion[j + 1] = n /\ j + 1 \in 0 .. c
    BY <1>2, <1>7, <2>1
  <2>3. PICK R : Deleting(g, U, d, R) /\ (d.left = <<>> \/ Cardinality(R) >= j)
    BY <1>10, <2>1
  <2> SUFFICES \E Q : Deleting(g, U, n, Q) /\ (n.left = <<>> \/ Cardinality(Q) >= j + 1)
    BY <2>2
  <2>4. CASE d.left = <<>>
    <3>1. n = d
      BY <2>1, <2>4 DEF DeleteNext
    <3> QED
      BY <2>3, <2>4, <3>1
  <2>5. CASE d.left # <<>>
    <3>1. PICK id : id = Head(d.left)
      OBVIOUS
    <3>2. Deleting(g, U, n, R \cup {id}) /\ id \notin R
      BY <2>1, <2>3, <2>5, <3>1, DeleteNextKeeps
    <3>3. IsFiniteSet(R) /\ Cardinality(R) \in Nat
      BY <1>8, <2>3 DEF Deleting
    <3>4. Cardinality(R \cup {id}) = Cardinality(R) + 1
      BY <3>2, <3>3, FS_AddElement
    <3>5. Cardinality(R \cup {id}) >= j + 1
      BY <2>3, <2>5, <3>3, <3>4
    <3> QED
      BY <3>2, <3>5
  <2> QED
    BY <2>4, <2>5
<1> HIDE DEF T
<1>11. c \in T
  BY <1>2, <1>9, <1>10, StepByStep, SMTT(30)
<1>12. PICK R : Deleting(g, U, deletion[c], R) /\ (deletion[c].left = <<>> \/ Cardinality(R) >= c)
  BY <1>11 DEF T
<1>13. Cardinality(R) \in Nat /\ Cardinality(R) < c
  BY <1>8, <1>12 DEF Deleting
<1>14. deletion[c].left = <<>>
  BY <1>2, <1>12, <1>13
<1> QED
  BY <1>6, <1>12, <1>14, DeletingEnds

----------------------------------------------------------------------------
(* The end of a run that deletes something.                                *)
LEMMA SurvivorsSettled ==
  ASSUME NEW g, NEW P, NEW h, Survives(g, h, P), Flagged(g)
  PROVE  Settled(h, P \cap Nodes(h))
BY DEF Survives, Flagged, Settled, Slaves

LEMMA BuriedSettled ==
  ASSUME NEW start, NEW ids, NEW N, NEW P, Ending(start, ids, N, P), ids \in Seq(N \ {ROOT}),
         N = Nodes(start.graph), NEW h, h = Buried(Ended(start), ids)
  PROVE  Settled(h, P \cap Nodes(h))
<1>1. PICK f, g, list, W : f = Ended(start) /\ g = f.graph /\ list = f.dead \o ids /\ W = ToSet(list)
  OBVIOUS
<1>2. Ending(f, ids, N, P) /\ f.over
  BY <1>1, EndedLemma
<1>3. Leaving(f, ids) = W /\ Left(f, ids) = W
  BY <1>1, <1>2 DEF Leaving, Left
<1>4. /\ N \subseteq Nodes(g) /\ list \in Seq(N \ {ROOT}) /\ IsInjective(list)
      /\ Growing(g, P, W, W, W) /\ Flagged(g)
  BY <1>1, <1>2, <1>3 DEF Ending
<1>5. ToSet(list) \subseteq Nodes(g) \ {ROOT}
  BY <1>4, ToSetLemma
<1>6. list \in Seq(Nodes(g) \ {ROOT})
  BY <1>4, <1>5, WithinLemma
<1>7. h = Deleted(g, list)
  BY <1>1 DEF Buried
<1>8. Survives(g, h, P)
  BY <1>1, <1>4, <1>6, <1>7, DeletedLemma
<1> QED
  BY <1>4, <1>8, SurvivorsSettled

LEMMA OwnersInside ==
  ASSUME NEW g, NEW P, NEW U, NEW K, NEW H, Growing(g, P, U, K, H)
  PROVE  \A x \in Nodes(g) \ {ROOT} : Owner(g, x) \in Nodes(g)
BY DEF Growing, Owned, TasksOf

LEMMA Widened ==
  ASSUME NEW g, NEW P, NEW U, NEW K, NEW H, Growing(g, P, U, K, H), NEW L, K \subseteq L, NEW G, H \subseteq G
  PROVE  Growing(g, P, U, L, G)
<1>1. Growing(g, P, U, L, H)
  BY BusyWider
<1> QED
  BY <1>1, HeldWider

(* A process requests its deletion.                                        *)
LEMMA DieSettled ==
  ASSUME NEW g, NEW P, Growing(g, P, {}, {}, {}), Flagged(g), ~g.heap[ROOT].exhausted,
         NEW id \in Nodes(g) \ {ROOT}, NEW h, h = Die(g, id)
  PROVE  Settled(h, P \cap Nodes(h))
<1>1. PICK N, ids : N = Nodes(g) /\ ids = <<id>>
  OBVIOUS
<1>2. ids \in Seq(N \ {ROOT}) /\ IsInjective(ids) /\ ToSet(ids) = {id}
  BY <1>1, SingleLemma
<1>3. PICK f : f = [graph |-> g, at |-> id, over |-> FALSE, dead |-> <<>>]
  OBVIOUS
<1>4. f.graph = g /\ f.at = id /\ ~f.over /\ f.dead = <<>>
  BY <1>3
<1>5. <<>> \o ids = ids /\ <<>> \in Seq(N \ {ROOT})
  BY <1>2, EmptyList
<1>6. Leaving(f, ids) = {id} /\ Left(f, ids) = {}
  BY <1>2, <1>4, <1>5 DEF Leaving, Left
<1>7. Growing(g, P, {}, {id}, {id})
  BY Widened
<1>8. f = [graph |-> f.graph, at |-> f.at, over |-> f.over, dead |-> f.dead]
  BY <1>3
<1>9. \A x \in N \ {ROOT} : Owner(g, x) \in N
  BY <1>1, OwnersInside
<1>10. Ending(f, ids, N, P)
  BY <1>1, <1>2, <1>4, <1>5, <1>6, <1>7, <1>8, <1>9 DEF Ending
<1>11. h = Buried(Ended(f), ids)
  BY <1>1, <1>3 DEF Die, Finished
<1> QED
  BY <1>1, <1>2, <1>4, <1>10, <1>11, BuriedSettled

(* Two executions leave, the second one is the slave of the first one.     *)
LEMMA BothSettled ==
  ASSUME NEW g, NEW P, NEW o, NEW id, Growing(g, P, {id}, {o}, {o}) \/ Growing(g, P, {id}, {o}, {}),
         Flagged(g), ~g.heap[ROOT].exhausted,
         o \in Nodes(g) \ {ROOT}, id \in Nodes(g) \ {ROOT}, o # id, Owner(g, id) = o,
         NEW f, NEW ids, f.graph = g, f.at = o, ~f.over,
         f = [graph |-> f.graph, at |-> f.at, over |-> f.over, dead |-> f.dead],
         \/ f.dead = <<>> /\ ids = <<o>> \o <<id>>
         \/ f.dead = <<o>> /\ ids = <<id>>,
         NEW h, h = Buried(Ended(f), ids)
  PROVE  Settled(h, P \cap Nodes(h))
<1>1. PICK N, list : N = Nodes(g) /\ list = f.dead \o ids
  OBVIOUS
<1>2. PICK one, other : one = <<o>> /\ other = <<id>>
  OBVIOUS
<1>3. /\ one \in Seq(N \ {ROOT}) /\ other \in Seq(N \ {ROOT}) /\ IsInjective(one) /\ IsInjective(other)
      /\ ToSet(one) = {o} /\ ToSet(other) = {id} /\ <<>> \in Seq(N \ {ROOT})
  BY <1>1, <1>2, SingleLemma, EmptyList
<1>4. /\ one \o other \in Seq(N \ {ROOT}) /\ IsInjective(one \o other)
      /\ ToSet(one \o other) = {o, id}
  <2>1. PICK E : E = N \ {ROOT}
    OBVIOUS
  <2>2. /\ one \o other \in Seq(E) /\ IsInjective(one \o other)
        /\ ToSet(one \o other) = ToSet(one) \cup ToSet(other)
    BY <1>3, <2>1, JoinedLemma
  <2> QED
    BY <1>3, <2>1, <2>2
<1>5. /\ list = one \o other /\ f.dead \in Seq(N \ {ROOT}) /\ ids \in Seq(N \ {ROOT})
  <2>1. CASE f.dead = <<>> /\ ids = <<o>> \o <<id>>
    <3>1. ids = one \o other
      BY <1>2, <2>1
    <3>2. <<>> \o ids = ids
      BY <1>4, <3>1
    <3> QED
      BY <1>1, <1>3, <1>4, <2>1, <3>1, <3>2
  <2>2. CASE f.dead = <<o>> /\ ids = <<id>>
    BY <1>1, <1>2, <1>3, <2>2
  <2> QED
    BY <2>1, <2>2
<1>6. Leaving(f, ids) = {o, id} /\ Left(f, ids) = {id}
  BY <1>1, <1>4, <1>5 DEF Leaving, Left
<1>7. Growing(g, P, {id}, {o, id}, {o, id})
  BY Widened
<1>8. \A x \in N \ {ROOT} : Owner(g, x) \in N
  BY <1>1, OwnersInside
<1>9. PICK dead : dead = f.dead
  OBVIOUS
<1>10. Ending(f, ids, N, P)
  BY <1>1, <1>4, <1>5, <1>6, <1>7, <1>8, <1>9 DEF Ending
<1> QED
  BY <1>1, <1>5, <1>10, BuriedSettled

(* A process succeeds: its task is told, and may end or have no slaves.    *)
LEMMA SucceededSettled ==
  ASSUME NEW g, NEW P, Growing(g, P, {}, {}, {}), Flagged(g), ~g.heap[ROOT].exhausted,
         g.heap[ROOT].solution = <<>>,
         NEW id \in Nodes(g) \ TasksOf(g), ~Inner(g.heap[id]), NEW dag, NEW h, h = Succeeded(g, id, dag)
  PROVE  Settled(h, P \cap Nodes(h))
<1>1. PICK o, u, told : /\ o = Owner(g, id) /\ u = Unlinked(g, id)
                        /\ told = ExecutionSucceeded(u, o, dag)
  OBVIOUS
<1>2. ROOT \in TasksOf(g) /\ TasksOf(g) \subseteq Nodes(g) /\ id # ROOT
  BY DEF Growing, Entries, TasksOf
<1>3. /\ o \in TasksOf(g) /\ o \in Nodes(g) /\ o # id /\ g.heap[o].kind # "subterm"
  BY <1>1, <1>2 DEF Growing, Owned
<1>4. Leaves(g, u, P, {}, {}, {}, id)
  BY <1>1, <1>2, UnlinkedGrows
<1>5. PICK K : K = (IF IsLast(g, id) THEN {o} ELSE {})
  OBVIOUS
<1>6. /\ Growing(u, P, {id}, K, {}) /\ Extends(g, u) /\ Nodes(u) = Nodes(g) /\ TasksOf(u) = TasksOf(g)
      /\ \A t \in TasksOf(g) \ {o} : u.heap[t] = g.heap[t]
      /\ Slaves(u, o) = <<>> <=> IsLast(g, id)
  <2>1. {} \cup {id} = {id} /\ {} \cup K = K
    OBVIOUS
  <2> QED
    BY <1>1, <1>4, <1>5, <2>1 DEF Leaves
<1>7. u.heap[o].kind # "subterm" /\ o \in TasksOf(u) \ {id} /\ {id} \cap TasksOf(u) = {}
  BY <1>3, <1>6 DEF Extends
<1>8. /\ Growing(told, P, {id}, K, {})
      /\ o # ROOT => Extends(u, told)
      /\ o = ROOT => /\ Nodes(told) = Nodes(u) /\ TasksOf(told) = TasksOf(u)
                     /\ \A x \in Nodes(u) : Owner(told, x) = Owner(u, x)
                     /\ told.heap[ROOT].solution = Append(u.heap[ROOT].solution, dag)
                     /\ told.heap[ROOT].exhausted = u.heap[ROOT].exhausted
                     /\ Slaves(told, ROOT) = Slaves(u, ROOT)
  BY <1>1, <1>6, <1>7, SucceededGrows
<1>9. /\ u.heap[ROOT].solution = <<>> /\ ~u.heap[ROOT].exhausted /\ Slaves(g, ROOT) # <<>>
      /\ Owner(u, id) = o
  BY <1>1, <1>6 DEF Extends, Flagged
<1>10. o # ROOT => /\ Extends(g, told) /\ Flagged(told) /\ ~told.heap[ROOT].exhausted
                   /\ Slaves(told, ROOT) # <<>>
  <2> HAVE o # ROOT
  <2>1. Slaves(u, ROOT) # <<>>
    BY <1>2, <1>6, <1>9 DEF Slaves
  <2>2. Extends(u, told)
    BY <1>8
  <2>3. ROOT \in TasksOf(u)
    BY <1>2, <1>6
  <2>4. Slaves(told, ROOT) # <<>>
    BY <1>6, <1>8, <2>1, <2>2, <2>3, SlavesStay
  <2>5. Extends(g, told)
    BY <1>2, <1>6, <2>2, ExtendsTransitive
  <2>6. told.heap[ROOT].solution = <<>> /\ ~told.heap[ROOT].exhausted
    BY <1>9, <2>2 DEF Extends
  <2>7. Len(<<>>) <= 1
    OBVIOUS
  <2> QED
    BY <2>4, <2>5, <2>6, <2>7 DEF Flagged
<1>11. o # ROOT => o \in Nodes(told) \ {ROOT} /\ id \in Nodes(told) \ {ROOT} /\ Owner(told, id) = o
  BY <1>1, <1>2, <1>3, <1>10 DEF Extends
<1>12. CASE TaskDies(g, o)
  <2>1. o # ROOT
    <3>1. g.heap[ROOT].kind = "root"
      BY <1>2 DEF Growing, Entries
    <3> QED
      BY <1>12, <3>1 DEF TaskDies
  <2>2. PICK f, ids : f = [graph |-> told, at |-> o, over |-> FALSE, dead |-> <<>>] /\ ids = <<o, id>>
    OBVIOUS
  <2>3. /\ f.graph = told /\ f.at = o /\ ~f.over /\ f.dead = <<>>
        /\ f = [graph |-> f.graph, at |-> f.at, over |-> f.over, dead |-> f.dead]
    BY <2>2
  <2>4. ids = <<o>> \o <<id>>
    BY <2>2
  <2>5. h = Buried(Ended(f), ids)
    BY <1>1, <1>12, <2>2 DEF Succeeded, Finished
  <2>6. Growing(told, P, {id}, {o}, {})
    BY <1>5, <1>8, Widened
  <2> QED
    BY <1>3, <1>10, <1>11, <2>1, <2>3, <2>4, <2>5, <2>6, BothSettled
<1>13. CASE ~TaskDies(g, o) /\ IsLast(g, id)
  <2>1. PICK k, f, ids : k = ExecutionsExhausted(told, o) /\ f = Told(told, o, <<>>) /\ ids = <<id>>
    OBVIOUS
  <2>2. h = Buried(Ended(f), ids)
    BY <1>1, <1>13, <2>1 DEF Succeeded, Exhausted
  <2>3. o \in TasksOf(told) \ {id}
    BY <1>3, <1>6, <1>8, <1>10, ExtendsLemma
  <2>4. NoMore(told, k, P, {id}, K, {}, o)
    BY <1>8, <2>1, <2>3, ExhaustedNoMore
  <2>5. K = {o} /\ {} \cup {o} = {o}
    BY <1>5, <1>13
  <2>6. Growing(k, P, {id}, {o}, {o})
    BY <2>4, <2>5 DEF NoMore
  <2>7. CASE o # ROOT
    <3>1. Extends(told, k)
      BY <2>4, <2>7 DEF NoMore
    <3>2. f = [graph |-> k, at |-> o, over |-> FALSE, dead |-> <<o>> \o <<>>]
      BY <2>1, <2>7 DEF Told
    <3>3. <<o>> \o <<>> = <<o>>
      OBVIOUS
    <3>4. PICK dead : dead = <<o>>
      OBVIOUS
    <3>5. f = [graph |-> k, at |-> o, over |-> FALSE, dead |-> dead]
      BY <3>2, <3>3, <3>4
    <3>6. /\ f.graph = k /\ f.at = o /\ ~f.over /\ f.dead = dead
          /\ f = [graph |-> f.graph, at |-> f.at, over |-> f.over, dead |-> f.dead]
      BY <3>5
    <3>7. ROOT \in TasksOf(told)
      BY <1>8 DEF Growing, Entries
    <3>8. Slaves(k, ROOT) # <<>>
      BY <1>8, <1>10, <2>6, <2>7, <3>1, <3>7, SlavesStay
    <3>9. ~k.heap[ROOT].exhausted /\ k.heap[ROOT].solution = told.heap[ROOT].solution
      BY <1>10, <2>7, <3>1 DEF Extends
    <3>10. Flagged(k)
      BY <1>10, <2>7, <3>8, <3>9 DEF Flagged
    <3>11. o \in Nodes(k) \ {ROOT} /\ id \in Nodes(k) \ {ROOT} /\ Owner(k, id) = o
      BY <1>11, <2>7, <3>1 DEF Extends
    <3>12. f.dead = <<o>> /\ ids = <<id>>
      BY <2>1, <3>4, <3>6
    <3>13. ~k.heap[ROOT].exhausted
      BY <3>9
    <3> QED
      BY <1>3, <2>2, <2>6, <3>6, <3>10, <3>11, <3>12, <3>13, BothSettled
  <2>8. CASE o = ROOT
    <3>1. f = [graph |-> k, at |-> o, over |-> TRUE, dead |-> <<>>]
      BY <2>1, <2>8 DEF Told
    <3>2. /\ f.graph = k /\ f.at = o /\ f.over /\ f.dead = <<>>
          /\ f = [graph |-> f.graph, at |-> f.at, over |-> f.over, dead |-> f.dead]
      BY <3>1
    <3>3. /\ Nodes(k) = Nodes(told) /\ k.heap[ROOT].solution = told.heap[ROOT].solution
          /\ k.heap[ROOT].exhausted /\ Slaves(k, ROOT) = Slaves(told, ROOT)
      BY <2>4, <2>8 DEF NoMore
    <3>4. PICK N : N = Nodes(k)
      OBVIOUS
    <3>5. id \in N \ {ROOT} /\ Nodes(told) = Nodes(g)
      BY <1>2, <1>6, <1>8, <2>8, <3>3, <3>4
    <3>6. ids \in Seq(N \ {ROOT}) /\ IsInjective(ids) /\ ToSet(ids) = {id} /\ <<>> \in Seq(N \ {ROOT})
      BY <2>1, <3>5, SingleLemma, EmptyList
    <3>7. <<>> \o ids = ids
      BY <3>6
    <3>8. Leaving(f, ids) = {id} /\ Left(f, ids) = {id}
      BY <3>2, <3>6, <3>7 DEF Leaving, Left
    <3>9. Growing(k, P, {id}, {id}, {id})
      <4>1. Growing(k, P, {id}, {id} \cup {ROOT}, {id} \cup {ROOT})
        BY <2>6, <2>8, Widened
      <4> QED
        BY <4>1, HeldButRoot
    <3>10. Len(k.heap[ROOT].solution) <= 1
      <4>1. k.heap[ROOT].solution = Append(<<>>, dag)
        BY <1>8, <1>9, <2>8, <3>3
      <4> QED
        BY <4>1
    <3>11. Slaves(k, ROOT) = <<>>
      BY <1>6, <1>8, <1>13, <2>8, <3>3
    <3>12. Flagged(k)
      BY <3>3, <3>10, <3>11 DEF Flagged
    <3>13. \A x \in N \ {ROOT} : Owner(k, x) \in N
      BY <2>6, <3>4, OwnersInside
    <3>14. Ending(f, ids, N, P)
      BY <3>2, <3>4, <3>6, <3>7, <3>8, <3>9, <3>12, <3>13 DEF Ending
    <3> QED
      BY <2>2, <3>2, <3>4, <3>6, <3>14, BuriedSettled
  <2> QED
    BY <2>7, <2>8
<1>14. CASE ~TaskDies(g, o) /\ ~IsLast(g, id)
  <2>1. PICK ids : ids = <<id>>
    OBVIOUS
  <2>2. h = Deleted(told, ids)
    BY <1>1, <1>14, <2>1 DEF Succeeded
  <2>3. id \in Nodes(told) \ {ROOT}
    BY <1>2, <1>6, <1>8, <1>11
  <2>4. ids \in Seq(Nodes(told) \ {ROOT}) /\ IsInjective(ids) /\ ToSet(ids) = {id}
    BY <2>1, <2>3, SingleLemma
  <2>5. Growing(told, P, {id}, {id}, {id})
    BY <1>5, <1>8, <1>14, Widened
  <2>6. Survives(told, h, P)
    BY <2>2, <2>4, <2>5, DeletedLemma
  <2>7. Flagged(told)
    <3>1. CASE o = ROOT
      <4>1. told.heap[ROOT].solution = Append(<<>>, dag)
        BY <1>8, <1>9, <3>1
      <4>2. Len(told.heap[ROOT].solution) <= 1
        BY <4>1
      <4> QED
        BY <1>6, <1>8, <1>9, <1>14, <3>1, <4>2 DEF Flagged
    <3> QED
      BY <1>10, <3>1
  <2> QED
    BY <2>6, <2>7, SurvivorsSettled
<1> QED
  BY <1>12, <1>13, <1>14

----------------------------------------------------------------------------
(* A run that has deleted nothing yet, and its process.                    *)
Ready(g, P) ==
  /\ Growing(g, P, {}, {}, {})
  /\ Slaves(g, ROOT) # <<>> /\ ~g.heap[ROOT].exhausted /\ g.heap[ROOT].solution = <<>>
Worker(g, id) == id \in Nodes(g) \ TasksOf(g) /\ g.heap[id].kind # "remaining"

LEMMA ReadyGrows ==
  ASSUME NEW g, NEW P, NEW h, Ready(g, P), Growing(h, P, {}, {}, {}), Extends(g, h)
  PROVE  Ready(h, P) /\ Extends(g, h) /\ \A id : Worker(g, id) => Worker(h, id)
<1>1. Growing(g, P, {}, {}, {}) /\ Slaves(g, ROOT) # <<>>
  BY DEF Ready
<1>2. ROOT \in TasksOf(g)
  BY <1>1 DEF Growing, Entries
<1>3. Slaves(h, ROOT) # <<>>
  BY <1>1, <1>2, SlavesStay
<1>4. \A id : Worker(g, id) => Worker(h, id)
  BY ExtendsLemma DEF Worker
<1> QED
  BY <1>3, <1>4 DEF Ready, Extends

LEMMA ReadyAfter ==
  ASSUME NEW g, NEW P, NEW h, NEW k, Ready(g, P), Ready(h, P), Extends(g, h), Extends(h, k)
  PROVE  Extends(g, k)
<1>1. ROOT \in Nodes(g)
  BY GrowingRoot DEF Ready
<1> QED
  BY <1>1, ExtendsTransitive

LEMMA ReadySettled ==
  ASSUME NEW g, NEW P, Ready(g, P)
  PROVE  Settled(g, P \cap Nodes(g))
<1>1. P \cap Nodes(g) = P
  BY DEF Ready, Growing, Listed
<1>2. Len(<<>>) <= 1
  OBVIOUS
<1> QED
  BY <1>1, <1>2 DEF Ready, Settled

LEMMA ReadyDies ==
  ASSUME NEW g, NEW P, Ready(g, P), NEW id \in Nodes(g) \ TasksOf(g), NEW h, h = Die(g, id)
  PROVE  Settled(h, P \cap Nodes(h))
<1>1. Growing(g, P, {}, {}, {}) /\ ~g.heap[ROOT].exhausted
  BY DEF Ready
<1>2. Flagged(g)
  <2>1. Len(<<>>) <= 1
    OBVIOUS
  <2> QED
    BY <2>1 DEF Ready, Flagged
<1>3. id # ROOT
  BY <1>1 DEF Growing, Entries
<1> QED
  BY <1>1, <1>2, <1>3, DieSettled

LEMMA WorkerLemma ==
  ASSUME NEW g, NEW P, Ready(g, P), NEW id, Worker(g, id), NEW p, p = g.heap[id]
  PROVE  /\ Growing(g, P, {}, {}, {}) /\ Outside(g, {}, id) /\ GoodProcess(p) /\ ~IsTask(p)
         /\ p.pending \in Stacks /\ p.owner = Owner(g, id)
         /\ Owner(g, id) \in TasksOf(g) /\ g.heap[Owner(g, id)].kind # "subterm"
         /\ Place(g, {}, id, Owner(g, id))
<1>1. Growing(g, P, {}, {}, {}) /\ Entries(g)
  BY DEF Ready, Growing
<1>2. id \in Nodes(g) \ TasksOf(g) /\ p.kind # "remaining" /\ id # ROOT
  BY <1>1 DEF Worker, Entries
<1>3. ~IsTask(p)
  BY <1>2 DEF TasksOf
<1>4. GoodProcess(p)
  BY <1>1, <1>2, <1>3 DEF Entries, GoodEntry
<1>5. Outside(g, {}, id)
  BY <1>2, <1>3 DEF Outside, Inner
<1>6. p.pending \in Stacks
  BY <1>2, <1>4 DEF GoodProcess
<1> QED
  BY <1>1, <1>3, <1>4, <1>5, <1>6, OutsideLemma DEF Owner

(* The fields of a process.                                                *)
Touched(g, h, P, id) ==
  /\ Ready(h, P) /\ Extends(g, h)
  /\ h.bindings = g.bindings /\ TasksOf(h) = TasksOf(g)
  /\ \A y \in Nodes(g) \ {id} : h.heap[y] = g.heap[y]

LEMMA FieldReady ==
  ASSUME NEW g, NEW P, Ready(g, P), NEW id \in Nodes(g) \ TasksOf(g),
         NEW field \in {"pending", "todo"}, NEW value,
         field = "pending" => value \in Stacks,
         field = "todo" /\ g.heap[id].kind = "call" => DOMAIN value = DOMAIN g.heap[id].todo,
         NEW h, h = Replaced(g, id, WithField(g.heap[id], field, value))
  PROVE  Touched(g, h, P, id)
<1>1. Growing(g, P, {}, {}, {}) /\ Entries(g)
  BY DEF Ready, Growing
<1>2. PICK e, f : e = g.heap[id] /\ f = WithField(e, field, value)
  OBVIOUS
<1>3. ~IsTask(e) /\ GoodEntry(e) /\ id # ROOT /\ id \in Nodes(g)
  BY <1>1, <1>2 DEF Entries, TasksOf
<1>4. GoodEntry(f) /\ Same(e, f) /\ ~IsTask(f)
  BY <1>2, <1>3, ProcessFieldKept
<1>5. /\ Growing(h, P, {}, {}, {}) /\ Extends(g, h)
      /\ h.bindings = g.bindings /\ TasksOf(h) = TasksOf(g)
      /\ \A y \in Nodes(g) \ {id} : h.heap[y] = g.heap[y]
  BY <1>1, <1>2, <1>3, <1>4, UpdatedGrows
<1>6. Ready(h, P)
  BY <1>5, ReadyGrows
<1> QED
  BY <1>5, <1>6 DEF Touched

LEMMA WithPendingReady ==
  ASSUME NEW g, NEW P, Ready(g, P), NEW id \in Nodes(g) \ TasksOf(g), NEW pending \in Stacks,
         NEW h, h = WithPending(g, id, pending)
  PROVE  Ready(h, P) /\ Extends(g, h)
<1>1. PICK field : field = "pending"
  OBVIOUS
<1>2. h = Replaced(g, id, WithField(g.heap[id], field, pending))
  BY <1>1 DEF WithPending, Replaced, WithField
<1>3. field \in {"pending", "todo"} /\ field # "todo"
  BY <1>1
<1>4. Touched(g, h, P, id)
  BY <1>2, <1>3, FieldReady
<1> QED
  BY <1>4 DEF Touched

LEMMA CloneReady ==
  ASSUME NEW g, NEW P, Ready(g, P), NEW id, Worker(g, id), NEW pending \in Stacks,
         NEW h, h = Clone(g, id, pending)
  PROVE  Ready(h, P) /\ Extends(g, h)
<1>1. PICK o, dag : o = Owner(g, id) /\ dag = g.heap[id].dag
  OBVIOUS
<1>2. /\ Growing(g, P, {}, {}, {}) /\ o \in TasksOf(g) /\ g.heap[o].kind # "subterm"
      /\ Place(g, {}, id, o)
  BY <1>1, WorkerLemma
<1>3. h = NewDecomposition(g, o, id, dag, pending)
  BY <1>1 DEF Clone
<1>4. Extends(g, h) /\ Growing(h, P, {}, {} \ {o}, {})
  BY <1>2, <1>3, NewDecompositionGrows
<1>5. {} \ {o} = {}
  OBVIOUS
<1> QED
  BY <1>4, <1>5, ReadyGrows

(* A process beside another one.                                           *)
LEMMA ProcessReady ==
  ASSUME NEW g, NEW P, Ready(g, P), NEW id, Worker(g, id),
         NEW e, GoodProcess(e), ~IsTask(e), e.owner = Owner(g, id), e.kind # "remaining",
         Behind(e) => g.heap[Owner(g, id)].kind = "call",
         NEW h, h = NewProcess(g, id, e)
  PROVE  Ready(h, P) /\ Extends(g, h)
<1>1. PICK o : o = Owner(g, id)
  OBVIOUS
<1>2. /\ Growing(g, P, {}, {}, {}) /\ o \in TasksOf(g) /\ g.heap[o].kind # "subterm"
      /\ Place(g, {}, id, o)
  BY <1>1, WorkerLemma
<1>3. Fits(g, {}, e) /\ Place(g, {}, id, e.owner)
  BY <1>1, <1>2 DEF Fits, GoodEntry, Inner
<1>4. Extends(g, h) /\ Growing(h, P, {}, {} \ {e.owner}, {})
  BY <1>2, <1>3, NewProcessGrows
<1>5. {} \ {e.owner} = {}
  OBVIOUS
<1> QED
  BY <1>4, <1>5, ReadyGrows

(* The contexts change, and those that are used stay.                      *)
LEMMA BoundReady ==
  ASSUME NEW g, NEW P, Ready(g, P), NEW b, GoodTable(b),
         \A x : Open(g.bindings, x) => Open(b, x), NEW h, h = WithBindings(g, b)
  PROVE  Ready(h, P) /\ Extends(g, h) /\ h.heap = g.heap /\ h.bindings = b
<1>1. Growing(g, P, {}, {}, {})
  BY DEF Ready
<1>2. \A t \in Holders(g, {}) : Open(b, g.heap[t].vars)
  BY <1>1 DEF Growing, Held
<1>3. h = [g EXCEPT !.bindings = b]
  BY DEF WithBindings
<1>4. Growing(h, P, {}, {}, {}) /\ Extends(g, h) /\ h.heap = g.heap /\ h.bindings = b
  BY <1>1, <1>2, <1>3, BoundGrows
<1> QED
  BY <1>4, ReadyGrows

LEMMA ArgumentReady ==
  ASSUME NEW g, NEW P, Ready(g, P), NEW id, Worker(g, id), NEW e,
         NEW b, b = Argument(g, id, e).bindings, NEW h, h = WithBindings(g, b)
  PROVE  Ready(h, P) /\ Extends(g, h) /\ h.heap = g.heap
<1>1. Growing(g, P, {}, {}, {}) /\ GoodTable(g.bindings)
  BY DEF Ready, Growing, Held
<1>2. PICK c : c = VarsOf(g, id)
  OBVIOUS
<1>3. c = EMPTY_CONTEXT \/ Open(g.bindings, c)
  <2>1. Owner(g, id) \in TasksOf(g)
    BY WorkerLemma
  <2> QED
    BY <1>1, <1>2, <2>1, AllOpen DEF VarsOf
<1>4. b = g.bindings \/ b = Prepared(g.bindings, c)
  BY <1>2 DEF Argument, ArgumentIn
<1>5. GoodTable(b) /\ \A x : Open(g.bindings, x) => Open(b, x)
  BY <1>1, <1>3, <1>4, PreparedTable
<1> QED
  BY <1>5, BoundReady

LEMMA ItemLemma ==
  /\ \A s \in Stacks : \A k \in 1 .. Len(s) : s[k] \in DOMAIN Expr
  /\ \A s \in Stacks : Len(s) \in Nat
  /\ \A s \in Stacks : s # <<>> => Len(s) \in Nat \ {0} /\ Head(s) \in DOMAIN Expr /\ Tail(s) \in Stacks
<1>1. \A s \in Stacks : s # <<>> => Head(s) \in DOMAIN Expr /\ Tail(s) \in Stacks
  BY TailedLemma DEF Stacks
<1>2. \A s \in Stacks : s # <<>> => Len(s) \in Nat \ {0}
  BY DEF Stacks
<1>3. \A s \in Stacks : Len(s) \in Nat /\ \A k \in 1 .. Len(s) : s[k] \in DOMAIN Expr
  BY ToSetLemma DEF Stacks
<1> QED
  BY <1>1, <1>2, <1>3

(* The recursive function of Choose.                                       *)
ClonedBy(g, id, args, pending, cloned, n) ==
  cloned = [k \in 0 .. n |-> IF k = 0 THEN g ELSE Clone(cloned[k - 1], id, <<args[k]>> \o pending)]

LEMMA ClonesExist ==
  ASSUME NEW g, NEW id, NEW args, NEW pending, NEW n \in Nat
  PROVE  \E cloned : ClonedBy(g, id, args, pending, cloned, n)
<1> DEFINE T == {k \in 0 .. n : \E cloned : ClonedBy(g, id, args, pending, cloned, k)}
<1>1. 0 \in T
  <2> DEFINE cloned == [k \in {0} |-> g]
  <2>1. ClonedBy(g, id, args, pending, cloned, 0)
    BY DEF ClonedBy
  <2> QED
    BY <2>1
<1>2. ASSUME NEW j \in 0 .. n - 1, j \in T PROVE j + 1 \in T
  <2>1. PICK cloned : ClonedBy(g, id, args, pending, cloned, j)
    BY <1>2
  <2> DEFINE more == [k \in 0 .. j + 1 |->
                        IF k \in 0 .. j THEN cloned[k] ELSE Clone(cloned[k - 1], id, <<args[k]>> \o pending)]
  <2>2. \A k \in 0 .. j : more[k] = cloned[k]
    OBVIOUS
  <2>3. \A k \in 0 .. j : cloned[k] = IF k = 0 THEN g ELSE Clone(cloned[k - 1], id, <<args[k]>> \o pending)
    BY <2>1 DEF ClonedBy
  <2>4. \A k \in 0 .. j + 1 : more[k] = IF k = 0 THEN g ELSE Clone(more[k - 1], id, <<args[k]>> \o pending)
    <3> TAKE k \in 0 .. j + 1
    <3>1. CASE k \in 0 .. j
      <4>1. k # 0 => k - 1 \in 0 .. j
        BY <3>1
      <4>2. k # 0 => more[k - 1] = cloned[k - 1]
        BY <2>2, <4>1
      <4> QED
        BY <2>2, <2>3, <3>1, <4>2
    <3>2. CASE k = j + 1
      <4>1. k # 0 /\ k - 1 = j /\ k \notin 0 .. j /\ j \in 0 .. j
        BY <3>2
      <4>2. more[j] = cloned[j]
        BY <2>2, <4>1
      <4>3. more[k] = Clone(cloned[k - 1], id, <<args[k]>> \o pending)
        BY <4>1
      <4> QED
        BY <4>1, <4>2, <4>3
    <3> QED
      BY <3>1, <3>2
  <2>5. more = [k \in 0 .. j + 1 |-> more[k]]
    OBVIOUS
  <2> HIDE DEF more
  <2>6. ClonedBy(g, id, args, pending, more, j + 1)
    BY <2>4, <2>5 DEF ClonedBy
  <2> QED
    BY <1>2, <2>6
<1> HIDE DEF T
<1>3. n \in T
  BY <1>1, <1>2, StepByStep
<1> QED
  BY <1>3 DEF T

LEMMA ChooseReady ==
  ASSUME NEW g, NEW P, Ready(g, P), NEW id, Worker(g, id), NEW e, e.args \in Stacks, e.args # <<>>,
         NEW h, h = Choose(g, id, e)
  PROVE  Ready(h, P)
<1>1. PICK args, pending : args = e.args /\ pending = g.heap[id].pending
  OBVIOUS
<1>2. /\ args \in Stacks /\ Len(args) \in Nat \ {0} /\ pending \in Stacks
      /\ \A k \in 1 .. Len(args) : <<args[k]>> \o pending \in Stacks
  <2>1. pending \in Stacks
    BY <1>1, WorkerLemma
  <2> QED
    BY <1>1, <2>1, ItemLemma, StackLemma
<1>3. PICK n \in Nat : n = Len(args) - 1
  BY <1>2
<1>4. PICK cloned : cloned = CHOOSE c : ClonedBy(g, id, args, pending, c, n)
  OBVIOUS
<1>5. ClonedBy(g, id, args, pending, cloned, n)
  BY <1>3, <1>4, ClonesExist
<1>6. h = WithPending(cloned[n], id, <<args[n + 1]>> \o pending)
  BY <1>1, <1>3, <1>4 DEF Choose, ClonedBy
<1>7. \A k \in 0 .. n : cloned[k] = IF k = 0 THEN g ELSE Clone(cloned[k - 1], id, <<args[k]>> \o pending)
  BY <1>5 DEF ClonedBy
<1> DEFINE T == {k \in 0 .. n : Ready(cloned[k], P) /\ Worker(cloned[k], id)}
<1>8. 0 \in T
  <2>1. 0 \in 0 .. n
    BY <1>3
  <2>2. cloned[0] = g
    BY <1>7, <2>1
  <2> QED
    BY <2>1, <2>2
<1>9. ASSUME NEW j \in 0 .. n - 1, j \in T PROVE j + 1 \in T
  <2>1. PICK c, d, stack : c = cloned[j] /\ d = cloned[j + 1] /\ stack = <<args[j + 1]>> \o pending
    OBVIOUS
  <2>2. j + 1 \in 0 .. n /\ j + 1 # 0 /\ j + 1 \in 1 .. Len(args) /\ (j + 1) - 1 = j
    BY <1>2, <1>3
  <2>3. d = Clone(c, id, stack)
    BY <1>7, <2>1, <2>2
  <2>4. Ready(c, P) /\ Worker(c, id) /\ stack \in Stacks
    BY <1>2, <1>9, <2>1, <2>2
  <2>5. Ready(d, P) /\ Extends(c, d)
    BY <2>3, <2>4, CloneReady
  <2>6. Worker(d, id)
    BY <2>4, <2>5, ReadyGrows DEF Ready
  <2> QED
    BY <2>1, <2>2, <2>5, <2>6
<1> HIDE DEF T
<1>10. n \in T
  <2>1. n \in Nat /\ n \in 0 .. n
    BY <1>3
  <2> QED
    BY <1>8, <1>9, <2>1, StepByStep
<1>11. PICK c, stack : c = cloned[n] /\ stack = <<args[n + 1]>> \o pending
  OBVIOUS
<1>12. Ready(c, P) /\ Worker(c, id)
  BY <1>10, <1>11 DEF T
<1>13. stack \in Stacks
  <2>1. n + 1 \in 1 .. Len(args)
    BY <1>2, <1>3
  <2> QED
    BY <1>2, <1>11, <2>1
<1> QED
  BY <1>6, <1>11, <1>12, <1>13, WithPendingReady DEF Worker

----------------------------------------------------------------------------
(* Decomposition.                                                          *)
LEMMA WorkerDies ==
  ASSUME NEW g, NEW P, Ready(g, P), NEW id, Worker(g, id), NEW h, Ready(h, P), Extends(g, h),
         NEW k, k = Die(h, id)
  PROVE  Settled(k, P \cap Nodes(k))
<1>1. Growing(h, P, {}, {}, {})
  BY DEF Ready
<1>2. Worker(h, id)
  BY <1>1, ReadyGrows
<1> QED
  BY <1>2, ReadyDies DEF Worker

LEMMA GrownDies ==
  ASSUME NEW g, NEW P, Ready(g, P), NEW id, Worker(g, id), NEW h, Growing(h, P, {}, {}, {}), Extends(g, h),
         NEW k, k = Die(h, id)
  PROVE  Settled(k, P \cap Nodes(k))
<1>1. Ready(h, P)
  BY ReadyGrows
<1> QED
  BY <1>1, WorkerDies

LEMMA RuleSettled ==
  ASSUME NEW g, NEW P, Ready(g, P), NEW id, Worker(g, id), NEW e, e.strategies \in Stacks,
         NEW k, k = DecomposeRule(g, id, e)
  PROVE  Settled(k, P \cap Nodes(k))
<1>1. PICK p, argument, b, n, todo : /\ p = g.heap[id] /\ argument = Argument(g, id, e)
                                      /\ b = argument.bindings /\ n = WithBindings(g, b)
                                      /\ todo = {r[3] : r \in {r \in Rewrites[e.rule] :
                                                     r[1] = argument.value /\ r[2] = p.dag}}
  OBVIOUS
<1>2. PICK q : q = [kind |-> "application", owner |-> p.owner, rule |-> e.rule,
                    strategies |-> e.strategies, pending |-> p.pending, todo |-> todo]
  OBVIOUS
<1>3. PICK h : h = NewProcess(n, id, q)
  OBVIOUS
<1>4. k = Die(h, id)
  BY <1>1, <1>2, <1>3 DEF DecomposeRule
<1>5. Ready(n, P) /\ Extends(g, n) /\ n.heap = g.heap
  BY <1>1, ArgumentReady
<1>6. Worker(n, id) /\ Owner(n, id) = p.owner
  BY <1>1, <1>5, ReadyGrows DEF Owner, Ready
<1>7. p.pending \in Stacks
  BY <1>1, WorkerLemma
<1>8. /\ GoodProcess(q) /\ ~IsTask(q) /\ q.owner = p.owner /\ q.kind # "remaining" /\ ~Behind(q)
  BY <1>2, <1>7 DEF GoodProcess, IsTask, Behind
<1>9. Ready(h, P) /\ Extends(n, h)
  BY <1>3, <1>5, <1>6, <1>8, ProcessReady
<1> QED
  BY <1>4, <1>5, <1>6, <1>9, WorkerDies

LEMMA AnyCallSettled ==
  ASSUME NEW g, NEW P, Ready(g, P), NEW id, Worker(g, id), NEW e, e.strategy \in DOMAIN Strategies,
         NEW k, k = DecomposeAnyCall(g, id, e)
  PROVE  Settled(k, P \cap Nodes(k))
<1>1. PICK p, argument, b, n, definitions, matches, tail :
        /\ p = g.heap[id] /\ argument = Argument(g, id, e)
        /\ b = argument.bindings /\ n = WithBindings(g, b)
        /\ definitions = Strategies[e.strategy].definitions
        /\ matches = [d \in DOMAIN definitions |->
                        {m[2] : m \in {m \in definitions[d].matches : m[1] = argument.value}}]
        /\ tail = TailCall(g, id)
  OBVIOUS
<1>2. PICK q : q = [kind |-> "call", owner |-> p.owner, dag |-> p.dag, strategy |-> e.strategy,
                    pending |-> p.pending, tail |-> tail, todo |-> matches]
  OBVIOUS
<1>3. PICK h : h = NewProcess(n, id, q)
  OBVIOUS
<1>4. k = Die(h, id)
  BY <1>1, <1>2, <1>3 DEF DecomposeAnyCall
<1>5. Ready(n, P) /\ Extends(g, n) /\ n.heap = g.heap
  BY <1>1, ArgumentReady
<1>6. Worker(n, id) /\ Owner(n, id) = p.owner /\ Owner(g, id) = p.owner
  BY <1>1, <1>5, ReadyGrows DEF Owner, Ready
<1>7. p.pending \in Stacks
  BY <1>1, WorkerLemma
<1>8. DOMAIN matches = DOMAIN definitions
  BY <1>1
<1>9. /\ q.kind = "call" /\ q.owner = p.owner /\ q.strategy = e.strategy /\ q.pending = p.pending
      /\ q.tail = tail /\ q.todo = matches
      /\ DOMAIN q = {"kind", "owner", "dag", "strategy", "pending", "tail", "todo"}
  BY <1>2
<1>10. GoodProcess(q) /\ ~IsTask(q) /\ q.kind # "remaining"
  BY <1>1, <1>7, <1>8, <1>9 DEF GoodProcess, IsTask
<1>11. Behind(q) => n.heap[Owner(n, id)].kind = "call"
  <2>1. tail => g.heap[Owner(g, id)].kind = "call"
    BY <1>1 DEF TailCall
  <2> QED
    BY <1>5, <1>6, <1>9, <2>1 DEF Behind
<1>12. Ready(h, P) /\ Extends(n, h)
  BY <1>3, <1>5, <1>6, <1>9, <1>10, <1>11, ProcessReady
<1> QED
  BY <1>4, <1>5, <1>6, <1>12, WorkerDies

(* The definitions of a strategy.                                          *)
LEMMA DefinitionLemma ==
  ASSUME NEW s \in DOMAIN Strategies, NEW definitions, definitions = Strategies[s].definitions
  PROVE  /\ \A k \in DOMAIN definitions : definitions[k].rhs \in DOMAIN Expr
         /\ Len(definitions) \in Nat /\ DOMAIN definitions = 1 .. Len(definitions)
         /\ definitions # <<>> => definitions[1].rhs \in DOMAIN Expr
<1>1. PICK D : D = Range(definitions)
  OBVIOUS
<1>2. definitions \in Seq(D) /\ \A d \in D : d.rhs \in DOMAIN Expr
  BY <1>1, StrategyAssumption
<1>3. /\ Len(definitions) \in Nat /\ DOMAIN definitions = 1 .. Len(definitions)
      /\ \A k \in 1 .. Len(definitions) : definitions[k] \in D
  BY <1>2, ToSetLemma
<1>4. definitions # <<>> => 1 \in 1 .. Len(definitions)
  BY <1>2
<1> QED
  BY <1>2, <1>3, <1>4

LEMMA SimpleCallSettled ==
  ASSUME NEW g, NEW P, Ready(g, P), NEW id, Worker(g, id), NEW e, e.strategy \in DOMAIN Strategies,
         Strategies[e.strategy].definitions # <<>>,
         NEW k, k = DecomposeSimpleCall(g, id, e)
  PROVE  Settled(k, P \cap Nodes(k))
<1>1. PICK p, rhs : p = g.heap[id] /\ rhs = Strategies[e.strategy].definitions[1].rhs
  OBVIOUS
<1>2. rhs \in DOMAIN Expr
  BY <1>1, DefinitionLemma
<1>3. CASE TailCall(g, id)
  <2>1. PICK stack : stack = <<rhs>>
    OBVIOUS
  <2>2. k = WithPending(g, id, stack)
    BY <1>1, <1>3, <2>1 DEF DecomposeSimpleCall
  <2>3. stack \in Stacks
    BY <1>2, <2>1, StackLemma
  <2>4. Ready(k, P)
    BY <2>2, <2>3, WithPendingReady DEF Worker
  <2> QED
    BY <2>4, ReadySettled
<1>4. CASE ~TailCall(g, id)
  <2>1. PICK h : h = NewCallTask(g, id, p.dag, rhs, p.pending, EMPTY_CONTEXT)
    OBVIOUS
  <2>2. k = Die(h, id)
    BY <1>1, <1>4, <2>1 DEF DecomposeSimpleCall
  <2>3. p.pending \in Stacks /\ Outside(g, {}, id) /\ Growing(g, P, {}, {}, {})
    BY <1>1, WorkerLemma
  <2>4. Extends(g, h) /\ Growing(h, P, {}, {}, {})
    BY <1>2, <2>1, <2>3, NewCallTaskGrows
  <2> QED
    BY <2>2, <2>4, GrownDies
<1> QED
  BY <1>3, <1>4

LEMMA CallSettled ==
  ASSUME NEW g, NEW P, Ready(g, P), NEW id, Worker(g, id), NEW e, e.strategy \in DOMAIN Strategies,
         NEW k, k = DecomposeCall(g, id, e)
  PROVE  Settled(k, P \cap Nodes(k))
<1>1. PICK definitions : definitions = Strategies[e.strategy].definitions
  OBVIOUS
<1>2. CASE definitions = <<>>
  <2>1. k = Die(g, id)
    BY <1>1, <1>2 DEF DecomposeCall
  <2> QED
    BY <2>1, ReadyDies DEF Worker
<1>3. CASE definitions # <<>>
  <2>1. k = DecomposeSimpleCall(g, id, e) \/ k = DecomposeAnyCall(g, id, e)
    BY <1>1, <1>3 DEF DecomposeCall
  <2> QED
    BY <1>1, <1>3, <2>1, SimpleCallSettled, AnyCallSettled
<1> QED
  BY <1>2, <1>3

LEMMA MatchrewSettled ==
  ASSUME NEW g, NEW P, Ready(g, P), NEW id, Worker(g, id), NEW expression \in Matchrews,
         NEW k, k = DecomposeMatchrew(g, id, expression)
  PROVE  Settled(k, P \cap Nodes(k))
<1>1. PICK p, e, todo : /\ p = g.heap[id] /\ e = Expr[expression]
                         /\ todo = {m \in Patterns[e.pattern] : m.term = p.dag /\ m.argument = Outer(g, id, e)}
  OBVIOUS
<1>2. PICK q : q = [kind |-> "matchrew", owner |-> p.owner, expression |-> expression,
                    pending |-> p.pending, todo |-> todo]
  OBVIOUS
<1>3. PICK h : h = NewProcess(g, id, q)
  OBVIOUS
<1>4. k = Die(h, id)
  BY <1>1, <1>2, <1>3 DEF DecomposeMatchrew
<1>5. p.pending \in Stacks /\ p.owner = Owner(g, id)
  BY <1>1, WorkerLemma
<1>6. /\ GoodProcess(q) /\ ~IsTask(q) /\ q.owner = p.owner /\ q.kind # "remaining" /\ ~Behind(q)
  BY <1>2, <1>5 DEF GoodProcess, IsTask, Behind
<1>7. Ready(h, P) /\ Extends(g, h)
  BY <1>3, <1>5, <1>6, ProcessReady
<1> QED
  BY <1>4, <1>7, WorkerDies

LEMMA StarSettled ==
  ASSUME NEW g, NEW P, Ready(g, P), NEW id, Worker(g, id), NEW expression \in DOMAIN Expr,
         Expr[expression].child \in DOMAIN Expr, NEW k, k = DecomposeStar(g, id, expression)
  PROVE  Settled(k, P \cap Nodes(k))
<1>1. PICK pending, h, stack : /\ pending = g.heap[id].pending /\ h = Clone(g, id, pending)
                               /\ stack = <<Expr[expression].child, expression>> \o pending
  OBVIOUS
<1>2. k = WithPending(h, id, stack)
  BY <1>1 DEF DecomposeStar
<1>3. pending \in Stacks
  BY <1>1, WorkerLemma
<1>4. stack \in Stacks
  <2>1. <<Expr[expression].child, expression>> \in Stacks
    BY DEF Stacks
  <2> QED
    BY <1>1, <1>3, <2>1, StackLemma
<1>5. Ready(h, P) /\ Extends(g, h)
  BY <1>1, <1>3, CloneReady
<1>6. Worker(h, id)
  BY <1>5, ReadyGrows DEF Ready
<1>7. Ready(k, P)
  BY <1>2, <1>4, <1>5, <1>6, WithPendingReady DEF Worker
<1> QED
  BY <1>7, ReadySettled

(* The process has more to execute first.                                  *)
LEMMA MoreSettled ==
  ASSUME NEW g, NEW P, Ready(g, P), NEW id, Worker(g, id), NEW stack \in Stacks,
         NEW k, k = WithPending(g, id, stack \o g.heap[id].pending)
  PROVE  Settled(k, P \cap Nodes(k))
<1>1. PICK pending : pending = stack \o g.heap[id].pending
  OBVIOUS
<1>2. pending \in Stacks
  BY <1>1, WorkerLemma, StackLemma
<1>3. Ready(k, P)
  BY <1>1, <1>2, WithPendingReady DEF Worker
<1> QED
  BY <1>3, ReadySettled

LEMMA DecomposeSettled ==
  ASSUME NEW g, NEW P, Ready(g, P), NEW id, Worker(g, id), NEW expression \in DOMAIN Expr,
         NEW k, k = Decompose(g, id, expression)
  PROVE  Settled(k, P \cap Nodes(k))
<1>1. PICK p, e : p = g.heap[id] /\ e = Expr[expression]
  OBVIOUS
<1>2. IsExpression(e)
  BY <1>1, StrategyAssumption
<1>3. id \in Nodes(g) \ TasksOf(g)
  BY DEF Worker
<1>4. /\ Growing(g, P, {}, {}, {}) /\ Outside(g, {}, id) /\ p.pending \in Stacks /\ p.owner = Owner(g, id)
  BY <1>1, WorkerLemma
<1>5. e.op \in {"idle", "fail", "test", "seq", "alt", "star", "one", "plus", "rule", "branch", "call", "matchrew"}
  BY <1>2 DEF IsExpression
<1>6. k = g \/ k = Die(g, id) => Settled(k, P \cap Nodes(k))
  BY <1>3, ReadySettled, ReadyDies
<1>7. CASE e.op \in {"idle", "fail", "test"}
  <2>1. k = g \/ k = Die(g, id)
    BY <1>1, <1>7 DEF Decompose
  <2> QED
    BY <1>6, <2>1
<1>8. CASE e.op = "seq"
  <2>1. k = WithPending(g, id, e.args \o g.heap[id].pending) /\ e.args \in Stacks
    BY <1>1, <1>2, <1>8 DEF Decompose, IsExpression
  <2> QED
    BY <2>1, MoreSettled
<1>9. CASE e.op = "alt"
  <2>1. k = Choose(g, id, e) /\ e.args \in Stacks /\ e.args # <<>>
    BY <1>1, <1>2, <1>9 DEF Decompose, IsExpression
  <2> QED
    BY <2>1, ChooseReady, ReadySettled
<1>10. CASE e.op = "star"
  <2>1. k = DecomposeStar(g, id, expression) /\ Expr[expression].child \in DOMAIN Expr
    BY <1>1, <1>2, <1>10 DEF Decompose, IsExpression
  <2> QED
    BY <2>1, StarSettled
<1>11. CASE e.op = "plus"
  <2>1. PICK stack : stack = <<e.child, e.star>>
    OBVIOUS
  <2>2. k = WithPending(g, id, stack \o g.heap[id].pending) /\ e.child \in DOMAIN Expr /\ e.star \in DOMAIN Expr
    BY <1>1, <1>2, <1>11, <2>1 DEF Decompose, IsExpression
  <2>3. stack \in Stacks
    BY <2>1, <2>2 DEF Stacks
  <2> QED
    BY <2>2, <2>3, MoreSettled
<1>12. CASE e.op = "rule"
  <2>1. k = DecomposeRule(g, id, e) /\ e.strategies \in Stacks
    BY <1>1, <1>2, <1>12 DEF Decompose, IsExpression
  <2> QED
    BY <2>1, RuleSettled
<1>13. CASE e.op = "branch"
  <2>1. PICK h : h = NewBranchTask(g, id, p.dag, expression, p.pending)
    OBVIOUS
  <2>2. k = Die(h, id)
    BY <1>1, <1>13, <2>1 DEF Decompose
  <2>3. expression \in Branches
    BY <1>1, <1>13 DEF Branches
  <2>4. Extends(g, h) /\ Growing(h, P, {}, {}, {})
    BY <1>4, <2>1, <2>3, NewBranchTaskGrows
  <2> QED
    BY <2>2, <2>4, GrownDies
<1>14. CASE e.op = "one"
  <2>1. PICK h : h = NewTask(g, id, Task("one", Owner(g, id), VarsOf(g, id), p.pending), p.dag, e.child)
    OBVIOUS
  <2>2. k = Die(h, id) /\ e.child \in DOMAIN Expr
    BY <1>1, <1>2, <1>4, <1>14, <2>1 DEF Decompose, IsExpression
  <2>3. Extends(g, h) /\ Growing(h, P, {}, {}, {})
    BY <1>4, <2>1, <2>2, NewOneTaskGrows
  <2> QED
    BY <2>2, <2>3, GrownDies
<1>15. CASE e.op = "call"
  <2>1. k = DecomposeCall(g, id, e) /\ e.strategy \in DOMAIN Strategies
    BY <1>1, <1>2, <1>15 DEF Decompose, IsExpression
  <2> QED
    BY <2>1, CallSettled
<1>16. CASE e.op = "matchrew"
  <2>1. k = DecomposeMatchrew(g, id, expression) /\ expression \in Matchrews
    BY <1>1, <1>2, <1>16 DEF Decompose, Matchrews
  <2> QED
    BY <2>1, MatchrewSettled
<1> QED
  BY <1>5, <1>7, <1>8, <1>9, <1>10, <1>11, <1>12, <1>13, <1>14, <1>15, <1>16

LEMMA DecompositionSettled ==
  ASSUME NEW g, NEW P, Ready(g, P), NEW id \in Nodes(g) \ TasksOf(g), g.heap[id].kind = "decomposition",
         NEW k, k = RunDecomposition(g, id)
  PROVE  Settled(k, P \cap Nodes(k))
<1>1. PICK p, o, dag, pending, seen :
        /\ p = g.heap[id] /\ o = p.owner /\ dag = p.dag /\ pending = p.pending
        /\ seen = See(g, o, dag, pending)
  OBVIOUS
<1>2. Worker(g, id)
  BY DEF Worker
<1>3. /\ Growing(g, P, {}, {}, {}) /\ o \in TasksOf(g) /\ pending \in Stacks
  BY <1>1, <1>2, WorkerLemma
<1>4. Ready(seen, P) /\ Extends(g, seen) /\ Worker(seen, id)
  <2>1. Growing(seen, P, {}, {}, {}) /\ Extends(g, seen)
    BY <1>1, <1>3, SeeGrows
  <2> QED
    BY <1>2, <2>1, ReadyGrows
<1>5. CASE AlreadySeen(g, o, dag, pending)
  <2>1. k = Die(g, id)
    BY <1>1, <1>5 DEF RunDecomposition
  <2> QED
    BY <2>1, ReadyDies
<1>6. CASE ~AlreadySeen(g, o, dag, pending) /\ pending = <<>>
  <2>1. k = Succeeded(seen, id, dag)
    BY <1>1, <1>6 DEF RunDecomposition
  <2>2. Outside(seen, {}, id)
    BY <1>4, WorkerLemma
  <2>3. ~Inner(seen.heap[id]) /\ id \in Nodes(seen) \ TasksOf(seen)
    BY <1>4, <2>2 DEF Outside, Worker
  <2>4. Flagged(seen)
    <3>1. Len(<<>>) <= 1
      OBVIOUS
    <3> QED
      BY <1>4, <3>1 DEF Ready, Flagged
  <2> QED
    BY <1>4, <2>1, <2>3, <2>4, SucceededSettled DEF Ready
<1>7. CASE ~AlreadySeen(g, o, dag, pending) /\ pending # <<>>
  <2>1. PICK h, expression, stack : /\ stack = Tail(pending) /\ h = WithPending(seen, id, stack)
                                    /\ expression = Head(pending)
    OBVIOUS
  <2>2. k = Decompose(h, id, expression)
    BY <1>1, <1>7, <2>1 DEF RunDecomposition
  <2>3. expression \in DOMAIN Expr /\ stack \in Stacks
    BY <1>3, <1>7, <2>1, ItemLemma
  <2>4. Ready(h, P) /\ Extends(seen, h)
    BY <1>4, <2>1, <2>3, WithPendingReady DEF Worker
  <2>5. Worker(h, id)
    BY <1>4, <2>4, ReadyGrows DEF Ready
  <2> QED
    BY <2>2, <2>3, <2>4, <2>5, DecomposeSettled
<1> QED
  BY <1>5, <1>6, <1>7

----------------------------------------------------------------------------
(* The processes that search.                                              *)
LEMMA BesideReady ==
  ASSUME NEW g, NEW P, Ready(g, P), NEW id, Worker(g, id), NEW dag, NEW pending \in Stacks,
         NEW h, h = NewDecomposition(g, Owner(g, id), id, dag, pending)
  PROVE  Ready(h, P)
<1>1. PICK o : o = Owner(g, id)
  OBVIOUS
<1>2. /\ Growing(g, P, {}, {}, {}) /\ o \in TasksOf(g) /\ g.heap[o].kind # "subterm"
      /\ Place(g, {}, id, o)
  BY <1>1, WorkerLemma
<1>3. Extends(g, h) /\ Growing(h, P, {}, {} \ {o}, {})
  BY <1>1, <1>2, NewDecompositionGrows
<1>4. {} \ {o} = {}
  OBVIOUS
<1> QED
  BY <1>3, <1>4, ReadyGrows

LEMMA RewriteSettled ==
  ASSUME NEW g, NEW P, Ready(g, P), NEW id \in Nodes(g) \ TasksOf(g), g.heap[id].kind \in {"application", "match"},
         NEW value, NEW k, k = RunRewrite(g, id, value)
  PROVE  Settled(k, P \cap Nodes(k))
<1>1. PICK p, todo, field, h, rule, strategies, pending :
        /\ p = g.heap[id] /\ todo = p.todo \ {value} /\ field = "todo"
        /\ h = Replaced(g, id, WithField(p, field, todo))
        /\ rule = p.rule /\ strategies = p.strategies /\ pending = p.pending
  OBVIOUS
<1>2. Worker(g, id)
  BY DEF Worker
<1>3. k = Resolve(h, id, value, rule, strategies, pending)
  BY <1>1 DEF RunRewrite, Replaced, WithField
<1>4. pending \in Stacks /\ strategies \in Stacks
  <2>1. GoodProcess(p) /\ p.pending \in Stacks
    BY <1>1, <1>2, WorkerLemma
  <2> QED
    BY <1>1, <2>1 DEF GoodProcess
<1>5. Ready(h, P) /\ Extends(g, h)
  <2>1. field \in {"pending", "todo"} /\ field # "pending" /\ g.heap[id].kind # "call"
    BY <1>1
  <2> QED
    BY <1>1, <2>1, FieldReady DEF Touched
<1>6. Worker(h, id)
  BY <1>2, <1>5, ReadyGrows DEF Ready
<1>7. CASE strategies = <<>>
  <2>1. k = NewDecomposition(h, Owner(h, id), id, value, pending)
    BY <1>3, <1>7 DEF Resolve
  <2>2. Ready(k, P)
    BY <1>4, <1>5, <1>6, <2>1, BesideReady
  <2> QED
    BY <2>2, ReadySettled
<1>8. CASE strategies # <<>>
  <2>1. k = NewRewriteTask(h, id, value, rule, strategies, pending)
    BY <1>3, <1>8 DEF Resolve
  <2>2. Outside(h, {}, id) /\ Growing(h, P, {}, {}, {})
    BY <1>5, <1>6, WorkerLemma
  <2>3. Extends(h, k) /\ Growing(k, P, {}, {}, {})
    BY <1>4, <1>8, <2>1, <2>2, NewRewriteTaskGrows
  <2>4. Ready(k, P)
    BY <1>5, <2>3, ReadyGrows
  <2> QED
    BY <2>4, ReadySettled
<1> QED
  BY <1>7, <1>8

(* A context is opened, which no task has yet, and something was found.    *)
OpenFor(g, context) ==
  context # EMPTY_CONTEXT => Open(g.bindings, context) /\ \A t \in Holders(g, {}) : g.heap[t].vars # context

LEMMA OpenedReady ==
  ASSUME NEW g, NEW P, Ready(g, P), NEW values, NEW b, NEW c,
         b = OpenIfBound(g, values).bindings, c = OpenIfBound(g, values).context,
         NEW n, n = WithBindings(g, b), NEW id \in Nodes(g) \ TasksOf(g), NEW todo,
         g.heap[id].kind = "call" => DOMAIN todo = DOMAIN g.heap[id].todo,
         NEW field, field = "todo", NEW h, h = Replaced(n, id, WithField(g.heap[id], field, todo))
  PROVE  /\ Ready(h, P) /\ Extends(g, h) /\ OpenFor(h, c)
         /\ \A y \in Nodes(g) \ {id} : h.heap[y] = g.heap[y]
<1>1. GoodTable(g.bindings) /\ \A t \in Holders(g, {}) : Open(g.bindings, g.heap[t].vars)
  BY DEF Ready, Growing, Held
<1>2. /\ GoodTable(b) /\ \A x : Open(g.bindings, x) => Open(b, x)
      /\ c # EMPTY_CONTEXT => Open(b, c) /\ ~Open(g.bindings, c)
  <2>1. CASE values = <<>>
    <3>1. b = g.bindings /\ c = EMPTY_CONTEXT
      BY <2>1 DEF OpenIfBound
    <3> QED
      BY <1>1, <3>1
  <2>2. CASE values # <<>>
    <3>1. PICK d, next : d = OpenCell(g.bindings, values, NoFilter) /\ next = NextContext(g.bindings)
      OBVIOUS
    <3>2. OpenIfBound(g, values) = [bindings |-> d, context |-> next]
      BY <2>2, <3>1, OpenedAlone DEF OpenIfBound
    <3>3. b = d /\ c = next
      BY <3>2
    <3>4. /\ GoodTable(d) /\ Open(d, next) /\ ~Open(g.bindings, next)
          /\ \A x : Open(g.bindings, x) => Open(d, x)
      BY <1>1, <3>1, OpenedTable
    <3> QED
      BY <3>3, <3>4
  <2> QED
    BY <2>1, <2>2
<1>3. Ready(n, P) /\ Extends(g, n) /\ n.heap = g.heap /\ n.bindings = b
  BY <1>2, BoundReady
<1>4. Nodes(n) = Nodes(g) /\ TasksOf(n) = TasksOf(g) /\ id \in Nodes(n) \ TasksOf(n) /\ n.heap[id] = g.heap[id]
  BY <1>3 DEF Nodes, TasksOf
<1>5. /\ Ready(h, P) /\ Extends(n, h) /\ h.bindings = n.bindings /\ TasksOf(h) = TasksOf(n)
      /\ \A y \in Nodes(n) \ {id} : h.heap[y] = n.heap[y]
  <2>1. field \in {"pending", "todo"} /\ field # "pending"
    OBVIOUS
  <2>2. h = Replaced(n, id, WithField(n.heap[id], field, todo))
    BY <1>4
  <2>3. n.heap[id].kind = "call" => DOMAIN todo = DOMAIN n.heap[id].todo
    BY <1>4
  <2> QED
    <3>1. field = "pending" => todo \in Stacks
      BY <2>1
    <3>2. Touched(n, h, P, id)
      BY <1>3, <1>4, <2>1, <2>2, <2>3, <3>1, FieldReady
    <3> QED
      BY <3>2 DEF Touched
<1>6. \A y \in Nodes(g) \ {id} : h.heap[y] = g.heap[y]
  BY <1>3, <1>4, <1>5
<1>7. Extends(g, h)
  BY <1>3, <1>5, ReadyAfter
<1>8. \A t \in Holders(h, {}) : t \in Holders(g, {}) /\ h.heap[t].vars = g.heap[t].vars
  <2>1. \A t \in TasksOf(h) : t \in TasksOf(g) /\ h.heap[t] = g.heap[t]
    BY <1>4, <1>5, <1>6 DEF TasksOf
  <2> QED
    BY <2>1 DEF Holders
<1>9. OpenFor(h, c)
  BY <1>1, <1>2, <1>3, <1>5, <1>8 DEF OpenFor
<1> QED
  BY <1>5, <1>6, <1>7, <1>9

LEMMA PendingLemma ==
  ASSUME NEW todo, NEW n \in Nat, DOMAIN todo = 1 .. n, Pending(todo) # 0
  PROVE  Pending(todo) \in 1 .. n
<1> DEFINE I == {i \in 1 .. Len(todo) : todo[i] # {}}
<1>1. Len(todo) = n
  OBVIOUS
<1>2. Pending(todo) = IF I # {} THEN Min(I) ELSE 0
  BY DEF Pending, SelectInSeq
<1>3. I # {} /\ I \in SUBSET Nat
  BY <1>1, <1>2
<1> HIDE DEF I
<1>4. Min(I) \in I
  BY <1>3, MinLemma
<1> QED
  BY <1>1, <1>2, <1>3, <1>4 DEF I

LEMMA RunCallSettled ==
  ASSUME NEW g, NEW P, Ready(g, P), NEW id \in Nodes(g) \ TasksOf(g), g.heap[id].kind = "call",
         NEW values, values \in NextFound(g, id), NEW k, k = RunCall(g, id, values)
  PROVE  Settled(k, P \cap Nodes(k))
<1>1. PICK p, i, b, c, n, todo, field, h, sibling, pending, rhs :
        /\ p = g.heap[id] /\ i = Pending(p.todo)
        /\ b = OpenIfBound(g, values).bindings /\ c = OpenIfBound(g, values).context
        /\ n = WithBindings(g, b) /\ todo = [p.todo EXCEPT ![i] = p.todo[i] \ {values}] /\ field = "todo"
        /\ h = Replaced(n, id, WithField(p, field, todo))
        /\ sibling = (IF p.tail THEN p.owner ELSE id)
        /\ pending = (IF p.tail THEN g.heap[p.owner].pending ELSE p.pending)
        /\ rhs = Strategies[p.strategy].definitions[i].rhs
  OBVIOUS
<1>2. Worker(g, id)
  BY DEF Worker
<1>3. n.heap = g.heap
  BY <1>1, SMTT(30) DEF WithBindings
<1>4. k = NewCallTask(h, sibling, p.dag, rhs, pending, c)
  <2>1. h = [n EXCEPT !.heap[id].todo[i] = @ \ {values}]
    BY <1>1, <1>3 DEF Replaced, WithField
  <2> QED
    BY <1>1, <2>1 DEF RunCall
<1>5. /\ Growing(g, P, {}, {}, {}) /\ GoodProcess(p) /\ ~IsTask(p) /\ p.pending \in Stacks
      /\ p.owner = Owner(g, id) /\ Owner(g, id) \in TasksOf(g) /\ Outside(g, {}, id)
  BY <1>1, <1>2, WorkerLemma
<1>6. p.strategy \in DOMAIN Strategies /\ DOMAIN p.todo = DOMAIN Strategies[p.strategy].definitions
  BY <1>1, <1>5, SMTT(30) DEF GoodProcess
<1>7. rhs \in DOMAIN Expr
  <2>1. i # 0
    BY <1>1 DEF NextFound
  <2>2. PICK definitions, m : definitions = Strategies[p.strategy].definitions /\ m = Len(definitions)
    OBVIOUS
  <2>3. /\ m \in Nat /\ DOMAIN definitions = 1 .. m
        /\ \A d \in DOMAIN definitions : definitions[d].rhs \in DOMAIN Expr
    BY <1>6, <2>2, DefinitionLemma
  <2>4. i \in 1 .. m
    BY <1>1, <1>6, <2>1, <2>2, <2>3, PendingLemma, SMTT(30)
  <2> QED
    BY <1>1, <2>2, <2>3, <2>4
<1>8. /\ Ready(h, P) /\ Extends(g, h) /\ OpenFor(h, c)
      /\ \A y \in Nodes(g) \ {id} : h.heap[y] = g.heap[y]
  <2>1. DOMAIN todo = DOMAIN g.heap[id].todo
    BY <1>1
  <2> QED
    BY <1>1, <2>1, OpenedReady
<1>9. Growing(h, P, {}, {}, {})
  BY <1>8 DEF Ready
<1>10. Outside(h, {}, sibling) /\ pending \in Stacks
  <2>1. CASE p.tail
    <3>1. sibling = Owner(g, id) /\ pending = g.heap[sibling].pending /\ id \in Nodes(g) \ {ROOT}
      BY <1>1, <1>5, <2>1 DEF Outside
    <3>2. g.heap[sibling].kind = "call"
      BY <1>1, <1>5, <2>1, <3>1 DEF Growing, Owned, Behind
    <3>3. sibling \in TasksOf(g) \ {} /\ g.heap[sibling].kind \notin {"root", "child"}
      BY <1>5, <3>1, <3>2
    <3>4. Outside(g, {}, sibling) /\ GoodTask(g.heap[sibling])
      BY <1>5, <3>3, TaskOutside
    <3>5. Outside(h, {}, sibling)
      BY <1>5, <1>8, <3>4, OutsideLemma
    <3> QED
      BY <3>1, <3>4, <3>5 DEF GoodTask
  <2>2. CASE ~p.tail
    <3>1. sibling = id /\ pending = p.pending
      BY <1>1, <2>2
    <3> QED
      BY <1>5, <1>8, <3>1, OutsideLemma
  <2> QED
    BY <2>1, <2>2
<1>11. Extends(h, k) /\ Growing(k, P, {}, {}, {})
  BY <1>4, <1>7, <1>8, <1>9, <1>10, NewCallTaskGrows DEF OpenFor
<1>12. Ready(k, P)
  BY <1>8, <1>11, ReadyGrows
<1> QED
  BY <1>12, ReadySettled

----------------------------------------------------------------------------
(* A matchrew: a task, and a child of it for each subterm.                 *)
ChildAdded(d, id, context, match, strategies, k) ==
  NewTask(d, Alone, Extended(Task("child", id, context, <<>>), [index |-> k]),
          match.subterms[k], strategies[k])
AddedBy(start, id, context, match, strategies, added, n) ==
  added = [k \in 0 .. n |-> IF k = 0 THEN start
                            ELSE ChildAdded(added[k - 1], id, context, match, strategies, k)]

LEMMA AddedExist ==
  ASSUME NEW start, NEW id, NEW context, NEW match, NEW strategies, NEW n \in Nat
  PROVE  \E added : AddedBy(start, id, context, match, strategies, added, n)
<1> DEFINE T == {k \in 0 .. n : \E added : AddedBy(start, id, context, match, strategies, added, k)}
<1>1. 0 \in T
  <2> DEFINE added == [k \in {0} |-> start]
  <2>1. AddedBy(start, id, context, match, strategies, added, 0)
    BY DEF AddedBy
  <2> QED
    BY <2>1
<1>2. ASSUME NEW j \in 0 .. n - 1, j \in T PROVE j + 1 \in T
  <2>1. PICK added : AddedBy(start, id, context, match, strategies, added, j)
    BY <1>2
  <2> DEFINE more == [k \in 0 .. j + 1 |->
                        IF k \in 0 .. j THEN added[k]
                        ELSE ChildAdded(added[k - 1], id, context, match, strategies, k)]
  <2>2. \A k \in 0 .. j : more[k] = added[k]
    OBVIOUS
  <2>3. \A k \in 0 .. j : added[k] = IF k = 0 THEN start
                                     ELSE ChildAdded(added[k - 1], id, context, match, strategies, k)
    BY <2>1 DEF AddedBy
  <2>4. \A k \in 0 .. j + 1 : more[k] = IF k = 0 THEN start
                                        ELSE ChildAdded(more[k - 1], id, context, match, strategies, k)
    <3> TAKE k \in 0 .. j + 1
    <3>1. CASE k \in 0 .. j
      <4>1. k # 0 => k - 1 \in 0 .. j
        BY <3>1
      <4>2. k # 0 => more[k - 1] = added[k - 1]
        BY <2>2, <4>1
      <4> QED
        BY <2>2, <2>3, <3>1, <4>2
    <3>2. CASE k = j + 1
      <4>1. k # 0 /\ k - 1 = j /\ k \notin 0 .. j /\ j \in 0 .. j
        BY <3>2
      <4>2. more[j] = added[j]
        BY <2>2, <4>1
      <4>3. more[k] = ChildAdded(added[k - 1], id, context, match, strategies, k)
        BY <4>1
      <4> QED
        BY <4>1, <4>2, <4>3
    <3> QED
      BY <3>1, <3>2
  <2>5. more = [k \in 0 .. j + 1 |-> more[k]]
    OBVIOUS
  <2> HIDE DEF more
  <2>6. AddedBy(start, id, context, match, strategies, more, j + 1)
    BY <2>4, <2>5 DEF AddedBy
  <2> QED
    BY <1>2, <2>6
<1> HIDE DEF T
<1>3. n \in T
  BY <1>1, <1>2, StepByStep
<1> QED
  BY <1>3 DEF T

(* The matchrew task that is being filled.                                 *)
Filling(d, P, id, context) ==
  /\ Growing(d, P, {}, {id}, {})
  /\ id \in TasksOf(d) /\ d.heap[id].kind = "subterm" /\ d.heap[id].vars = context

LEMMA ChildAddedGrows ==
  ASSUME NEW d, NEW P, NEW id, NEW context, Filling(d, P, id, context), NEW match,
         NEW strategies \in Stacks, NEW k \in 1 .. Len(strategies),
         NEW h, h = ChildAdded(d, id, context, match, strategies, k)
  PROVE  Extends(d, h) /\ Filling(h, P, id, context) /\ Growing(h, P, {}, {}, {})
<1>1. PICK more, child, dag, strategy :
        /\ more = [index |-> k] /\ child = Extended(Task("child", id, context, <<>>), more)
        /\ dag = match.subterms[k] /\ strategy = strategies[k]
  OBVIOUS
<1>2. h = NewTask(d, Alone, child, dag, strategy)
  BY <1>1 DEF ChildAdded
<1>3. PICK none : none = <<>>
  OBVIOUS
<1>4. /\ IsTask(child) /\ child.kind = "child" /\ child.owner = id /\ child.vars = context
      /\ child.pending = none /\ child.slaves = <<>>
      /\ {"kind", "owner", "slaves", "seen", "vars", "pending"} \subseteq DOMAIN child
  BY <1>1, <1>3, TaskFields
<1>5. none \in Stacks
  BY <1>3, StackLemma
<1>6. GoodEntry(child)
  BY <1>4, <1>5 DEF GoodEntry, GoodTask, TaskKinds
<1>7. Fits(d, {}, child) /\ Place(d, {}, Alone, child.owner) /\ child.kind # "subterm"
  BY <1>4, <1>6 DEF Fits, Inner, Behind, GoodVars, Place, Filling
<1>8. strategy \in DOMAIN Expr
  BY <1>1, ItemLemma
<1>9. Growing(d, P, {}, {id}, {}) /\ id \in Nodes(d) /\ IsTask(d.heap[id])
  BY DEF Filling, TasksOf
<1>10. Extends(d, h) /\ Growing(h, P, {}, {id} \ {id}, {})
  BY <1>2, <1>4, <1>7, <1>8, <1>9, NewTaskGrows
<1>11. {id} \ {id} = {}
  OBVIOUS
<1>12. Growing(h, P, {}, {}, {})
  BY <1>10, <1>11
<1>13. Growing(h, P, {}, {id}, {})
  BY <1>12, BusyWider
<1>14. id \in TasksOf(h) /\ h.heap[id].kind = "subterm" /\ h.heap[id].vars = context
  BY <1>9, <1>10 DEF Extends, Filling, TasksOf
<1> QED
  BY <1>10, <1>12, <1>13, <1>14 DEF Filling

LEMMA NewSubtermTaskGrows ==
  ASSUME NEW g, NEW P, NEW sibling, NEW expression \in Matchrews, NEW match, NEW context,
         NEW pending \in Stacks, Growing(g, P, {}, {}, {}), Outside(g, {}, sibling), OpenFor(g, context),
         NEW h, h = NewSubtermTask(g, sibling, expression, match, context, pending)
  PROVE  Extends(g, h) /\ Growing(h, P, {}, {}, {})
<1>1. PICK strategies, id, more, o, task, start, n :
        /\ strategies = Expr[expression].strategies /\ id = FreshId(g)
        /\ more = [pattern |-> Expr[expression].pattern, results |-> [k \in DOMAIN strategies |-> <<>>]]
        /\ o = Owner(g, sibling) /\ task = Extended(Task("subterm", o, context, pending), more)
        /\ start = NewExecution(g, sibling, task) /\ n = Len(strategies)
  OBVIOUS
<1>2. strategies \in Stacks /\ strategies # <<>>
  BY <1>1, StrategyAssumption DEF IsExpression, Matchrews
<1>3. n \in Nat /\ n # 0
  BY <1>1, <1>2, ItemLemma
<1>4. PICK added : added = CHOOSE a : AddedBy(start, id, context, match, strategies, a, n)
  OBVIOUS
<1>5. AddedBy(start, id, context, match, strategies, added, n)
  BY <1>3, <1>4, AddedExist
<1>6. h = added[n]
  BY <1>1, <1>4 DEF NewSubtermTask, AddedBy, ChildAdded
<1>7. \A k \in 0 .. n : added[k] = IF k = 0 THEN start
                                   ELSE ChildAdded(added[k - 1], id, context, match, strategies, k)
  BY <1>5 DEF AddedBy
<1>8. /\ IsTask(task) /\ task.kind = "subterm" /\ task.owner = o /\ task.vars = context
      /\ task.pending = pending /\ task.slaves = <<>>
      /\ {"kind", "owner", "slaves", "seen", "vars", "pending"} \subseteq DOMAIN task
  BY <1>1, TaskFields
<1>9. GoodEntry(task)
  BY <1>8 DEF GoodEntry, GoodTask, TaskKinds
<1>10. o \in TasksOf(g) /\ g.heap[o].kind # "subterm" /\ Place(g, {}, sibling, o)
  BY <1>1, OutsideLemma
<1>11. Fits(g, {}, task)
  BY <1>8, <1>9, <1>10 DEF Fits, Inner, Behind, GoodVars, OpenFor
<1>12. /\ Inserts(g, start, id, task) /\ Extends(g, start)
       /\ Growing(start, P, {}, ({} \ {task.owner}) \cup {id}, {})
  <2>1. PICK none : none = {}
    OBVIOUS
  <2>2. Growing(g, P, none, none, none) /\ Fits(g, none, task) /\ Place(g, none, sibling, task.owner)
    BY <1>8, <1>10, <1>11, <2>1
  <2>3. /\ Inserts(g, start, id, task) /\ Extends(g, start)
        /\ Growing(start, P, none, (none \ {task.owner}) \cup {id}, none)
    BY <1>1, <1>8, <2>2, NewExecutionGrows
  <2> QED
    BY <2>1, <2>3
<1>13. Filling(start, P, id, context)
  <2>1. ({} \ {task.owner}) \cup {id} = {id}
    OBVIOUS
  <2>2. id \in TasksOf(start) /\ start.heap[id] = task
    BY <1>8, <1>12 DEF Inserts, TasksOf
  <2> QED
    BY <1>8, <1>12, <2>1, <2>2 DEF Filling
<1>14. ROOT \in Nodes(g)
  BY GrowingRoot
<1> DEFINE T == {k \in 0 .. n : /\ Extends(g, added[k]) /\ Filling(added[k], P, id, context)
                                /\ k = 0 \/ Growing(added[k], P, {}, {}, {})}
<1>15. 0 \in T
  <2>1. 0 \in 0 .. n
    BY <1>3
  <2>2. added[0] = start
    BY <1>7, <2>1
  <2> QED
    BY <1>12, <1>13, <2>1, <2>2
<1>16. ASSUME NEW j \in 0 .. n - 1, j \in T PROVE j + 1 \in T
  <2>1. PICK c, d, k : c = added[j] /\ d = added[j + 1] /\ k = j + 1
    OBVIOUS
  <2>2. k \in 0 .. n /\ k # 0 /\ k \in 1 .. Len(strategies) /\ k - 1 = j
    BY <1>1, <1>3, <2>1
  <2>3. d = ChildAdded(c, id, context, match, strategies, k)
    BY <1>7, <2>1, <2>2
  <2>4. Extends(g, c) /\ Filling(c, P, id, context)
    BY <1>16, <2>1
  <2>5. Extends(c, d) /\ Filling(d, P, id, context) /\ Growing(d, P, {}, {}, {})
    BY <1>2, <2>2, <2>3, <2>4, ChildAddedGrows
  <2>6. Extends(g, d)
    BY <1>14, <2>4, <2>5, ExtendsTransitive
  <2> QED
    BY <2>1, <2>2, <2>5, <2>6
<1> HIDE DEF T
<1>17. n \in T
  <2>1. n \in Nat /\ n \in 0 .. n
    BY <1>3
  <2> QED
    BY <1>15, <1>16, <2>1, StepByStep
<1> QED
  BY <1>3, <1>6, <1>17 DEF T

LEMMA RunMatchrewSettled ==
  ASSUME NEW g, NEW P, Ready(g, P), NEW id \in Nodes(g) \ TasksOf(g), g.heap[id].kind = "matchrew",
         NEW match, NEW k, k = RunMatchrew(g, id, match)
  PROVE  Settled(k, P \cap Nodes(k))
<1>1. PICK p, values, b, c, n, todo, field, h, pending, expression :
        /\ p = g.heap[id] /\ values = match.values \o ValuesOf(g.bindings, VarsOf(g, id))
        /\ b = OpenIfBound(g, values).bindings /\ c = OpenIfBound(g, values).context
        /\ n = WithBindings(g, b) /\ todo = p.todo \ {match} /\ field = "todo"
        /\ h = Replaced(n, id, WithField(p, field, todo))
        /\ pending = p.pending /\ expression = p.expression
  OBVIOUS
<1>2. Worker(g, id)
  BY DEF Worker
<1>3. n.heap = g.heap
  BY <1>1 DEF WithBindings
<1>4. k = NewSubtermTask(h, id, expression, match, c, pending)
  <2>1. h = [n EXCEPT !.heap[id].todo = @ \ {match}]
    BY <1>1, <1>3 DEF Replaced, WithField
  <2> QED
    BY <1>1, <2>1 DEF RunMatchrew
<1>5. GoodProcess(p) /\ pending \in Stacks /\ Outside(g, {}, id) /\ Growing(g, P, {}, {}, {})
  BY <1>1, <1>2, WorkerLemma
<1>6. expression \in Matchrews
  BY <1>1, <1>5 DEF GoodProcess
<1>7. Ready(h, P) /\ Extends(g, h) /\ OpenFor(h, c)
  <2>1. g.heap[id].kind = "call" => DOMAIN todo = DOMAIN g.heap[id].todo
    OBVIOUS
  <2>2. h = Replaced(n, id, WithField(g.heap[id], field, todo)) /\ field = "todo" /\ n = WithBindings(g, b)
    BY <1>1
  <2>3. b = OpenIfBound(g, values).bindings /\ c = OpenIfBound(g, values).context
    BY <1>1
  <2> QED
    BY <2>1, <2>2, <2>3, OpenedReady
<1>8. Growing(h, P, {}, {}, {}) /\ Outside(h, {}, id)
  BY <1>5, <1>7, OutsideLemma DEF Ready
<1>9. Extends(h, k) /\ Growing(k, P, {}, {}, {})
  BY <1>4, <1>5, <1>6, <1>7, <1>8, NewSubtermTaskGrows
<1>10. Ready(k, P)
  BY <1>7, <1>9, ReadyGrows
<1> QED
  BY <1>10, ReadySettled

(* The combinations of a matchrew.                                         *)
LEMMA OdometerFields ==
  ASSUME NEW g, NEW p, NEW n, n = Odometer(g, p), {"kind", "owner"} \subseteq DOMAIN p
  PROVE  DOMAIN n = DOMAIN p /\ n.kind = p.kind /\ n.owner = p.owner
<1>1. \A k, index : /\ DOMAIN Selected(g, p, k, index) = DOMAIN p
                    /\ Selected(g, p, k, index).kind = p.kind
                    /\ Selected(g, p, k, index).owner = p.owner
  <2> TAKE k, index
  <2>1. PICK a, b : /\ a = [p.indices EXCEPT ![k] = index]
                    /\ b = [p.nodes EXCEPT ![k] = g.heap[p.owner].results[k][index]]
    OBVIOUS
  <2>2. PICK m : m = [p EXCEPT !.indices = a]
    OBVIOUS
  <2>3. DOMAIN m = DOMAIN p /\ m.kind = p.kind /\ m.owner = p.owner /\ m.nodes = p.nodes
    BY <2>2
  <2>4. Selected(g, p, k, index) = [m EXCEPT !.nodes = b]
    BY <2>1, <2>2, <2>3 DEF Selected
  <2> QED
    BY <2>3, <2>4
<1>2. \E k, index, i : n = [Selected(g, p, k, index) EXCEPT !.i = i]
  BY DEF Odometer
<1>3. PICK k, index, i : n = [Selected(g, p, k, index) EXCEPT !.i = i]
  BY <1>2
<1>4. PICK s : s = Selected(g, p, k, index)
  OBVIOUS
<1>5. DOMAIN s = DOMAIN p /\ s.kind = p.kind /\ s.owner = p.owner
  BY <1>1, <1>4
<1>6. n = [s EXCEPT !.i = i]
  BY <1>3, <1>4
<1> QED
  BY <1>5, <1>6

LEMMA RemainingSettled ==
  ASSUME NEW g, NEW P, Ready(g, P), NEW id \in Nodes(g) \ TasksOf(g), g.heap[id].kind = "remaining",
         NEW k, k = RunRemaining(g, id)
  PROVE  Settled(k, P \cap Nodes(k))
<1>1. PICK p, next, o, m, h : /\ p = g.heap[id] /\ next = Odometer(g, p) /\ o = p.owner
                              /\ m = PushSolution(g, o, p.nodes) /\ h = Replaced(m, id, next)
  OBVIOUS
<1>2. k = IF next.i < 1 THEN Die(h, id) ELSE h
  BY <1>1 DEF RunRemaining, Replaced
<1>3. Growing(g, P, {}, {}, {}) /\ Entries(g) /\ Owned(g)
  BY DEF Ready, Growing
<1>4. id \in Nodes(g) \ {ROOT} /\ ~IsTask(p) /\ GoodProcess(p) /\ o = Owner(g, id)
  BY <1>1, <1>3 DEF Entries, TasksOf, GoodEntry, Owner
<1>5. o \in TasksOf(g) \ {} /\ g.heap[o].kind = "subterm"
  BY <1>1, <1>3, <1>4 DEF Owned, Inner
<1>6. Growing(m, P, {}, {}, {}) /\ Extends(g, m)
  <2>1. PICK nodes, none : nodes = p.nodes /\ none = {}
    OBVIOUS
  <2>2. m = PushSolution(g, o, nodes) /\ Growing(g, P, none, none, none) /\ o \in TasksOf(g) \ none
    BY <1>1, <1>3, <1>5, <2>1
  <2>3. Growing(m, P, none, none, none) /\ Extends(g, m)
    BY <1>5, <2>2, PushSolutionGrows
  <2> QED
    BY <2>1, <2>3
<1>7. PICK e : e = m.heap[id]
  BY Zenon
<1>8. id \in Nodes(m) /\ e.kind = p.kind /\ e.owner = p.owner /\ ~IsTask(e)
  BY <1>1, <1>4, <1>6, <1>7 DEF Extends, Owner
<1>9. DOMAIN next = DOMAIN p /\ next.kind = p.kind /\ next.owner = p.owner /\ {"kind", "owner"} \subseteq DOMAIN p
  <2>1. {"kind", "owner"} \subseteq DOMAIN p
    BY <1>4 DEF GoodProcess
  <2>2. next = Odometer(g, p)
    BY <1>1
  <2> QED
    BY <2>1, <2>2, OdometerFields
<1>10. ~IsTask(next)
  BY <1>4, <1>9 DEF IsTask
<1>11. GoodEntry(next)
  BY <1>1, <1>9, <1>10 DEF GoodEntry, GoodProcess
<1>12. Same(e, next)
  BY <1>1, <1>8, <1>9, <1>10 DEF Same, Behind
<1>13. Growing(h, P, {}, {}, {}) /\ Extends(m, h) /\ TasksOf(h) = TasksOf(m) /\ Nodes(h) = Nodes(m)
  <2>1. h = Replaced(m, id, next) /\ Same(m.heap[id], next)
    BY <1>1, <1>7, <1>12
  <2>2. IsTask(next) => next.slaves = Slaves(m, id)
    BY <1>10
  <2>3. id # ROOT
    BY <1>4
  <2> QED
    BY <1>6, <1>8, <1>11, <2>1, <2>2, <2>3, UpdatedGrows
<1>14. Ready(m, P)
  BY <1>6, ReadyGrows
<1>15. Ready(h, P)
  BY <1>13, <1>14, ReadyGrows
<1>16. id \in Nodes(h) \ TasksOf(h)
  BY <1>7, <1>8, <1>13 DEF TasksOf
<1> QED
  BY <1>2, <1>15, <1>16, ReadySettled, ReadyDies

----------------------------------------------------------------------------
(* Between two runs.                                                       *)
LEMMA RootBusy ==
  ASSUME NEW g, NEW P, NEW K, NEW H, Growing(g, P, {}, K, H), NEW x \in Nodes(g) \ {ROOT}
  PROVE  Slaves(g, ROOT) # <<>>
<1>1. Entries(g) /\ Owned(g) /\ Linked(g, {})
  BY DEF Growing
<1>2. ROOT \in TasksOf(g)
  BY <1>1 DEF Entries
<1>3. PICK X : X = Nodes(g) \ {ROOT}
  OBVIOUS
<1>4. PICK y \in X : Owner(g, y) \notin X
  BY <1>1, <1>3 DEF Owned
<1>5. Owner(g, y) = ROOT
  BY <1>1, <1>3, <1>4 DEF Owned, TasksOf
<1>6. y \in Children(g, {}, ROOT)
  BY <1>3, <1>4, <1>5 DEF Children
<1>7. Slaves(g, ROOT) \in Seq(Nodes(g)) /\ ToSet(Slaves(g, ROOT)) # {}
  BY <1>1, <1>2, <1>6 DEF Linked
<1> QED
  BY <1>7, NonEmptyList

(* Each task has a slave of its own, and the root is nobody's: there are   *)
(* more executions than tasks.                                             *)
LEMMA ProcessLeft ==
  ASSUME NEW g, NEW P, Growing(g, P, {}, {}, {}), Slaves(g, ROOT) # <<>>
  PROVE  Nodes(g) \ TasksOf(g) # {}
<1> SUFFICES ASSUME Nodes(g) \ TasksOf(g) = {} PROVE FALSE
  OBVIOUS
<1>1. Entries(g) /\ Linked(g, {}) /\ Busy(g, {})
  BY DEF Growing
<1>2. PICK S, R : S = Nodes(g) /\ R = S \ {ROOT}
  OBVIOUS
<1>3. IsFiniteSet(S) /\ ROOT \in S /\ TasksOf(g) = S
  BY <1>1, <1>2 DEF Entries, TasksOf
<1>4. \A t \in S : Head(Slaves(g, t)) \in R /\ Owner(g, Head(Slaves(g, t))) = t
  <2> TAKE t \in S
  <2>1. Slaves(g, t) # <<>>
    BY <1>1, <1>3 DEF Busy
  <2>2. Slaves(g, t) \in Seq(S) /\ ToSet(Slaves(g, t)) = Children(g, {}, t)
    BY <1>1, <1>2, <1>3 DEF Linked
  <2>3. PICK s : s = Head(Slaves(g, t))
    OBVIOUS
  <2>4. s \in Children(g, {}, t)
    BY <2>1, <2>2, <2>3, TailedLemma
  <2>5. s \in S /\ Owner(g, s) = t
    BY <1>2, <2>4 DEF Children
  <2>6. s # ROOT
    <3>1. Owner(g, ROOT) = NONE /\ t \in Nat
      BY <1>1, <1>2 DEF Entries
    <3> QED
      BY <2>5, <3>1 DEF NONE
  <2> QED
    BY <1>2, <2>3, <2>5, <2>6
<1>5. PICK first : first = [t \in S |-> Head(Slaves(g, t))]
  OBVIOUS
<1>6. first \in [S -> R] /\ \A t \in S : Owner(g, first[t]) = t
  BY <1>4, <1>5
<1>7. \A s, t \in S : first[s] = first[t] => s = t
  BY <1>6
<1>8. first \in Injection(S, R)
  BY <1>6, <1>7 DEF Injection, IsInjective
<1>9. IsFiniteSet(R) /\ Cardinality(R) = Cardinality(S) - 1 /\ Cardinality(S) \in Nat
  BY <1>2, <1>3, FS_RemoveElement, FS_CardinalityType
<1>10. Cardinality(S) <= Cardinality(R)
  BY <1>8, <1>9, FS_Injection
<1> QED
  BY <1>9, <1>10

LEMMA RunStarts ==
  ASSUME Inv, pc = "search", ~IsOver
  PROVE  Ready(tree, ToSet(queue)) /\ queue # <<>> /\ Current \in Nodes(tree) \ TasksOf(tree)
<1>1. PICK P : P = ToSet(queue)
  OBVIOUS
<1>2. /\ Growing(tree, P, {}, {}, {}) /\ tree.heap[ROOT].solution = <<>>
      /\ tree.heap[ROOT].exhausted <=> Slaves(tree, ROOT) = <<>>
      /\ queue \in Seq(Nodes(tree)) /\ tree.ahead = <<>> /\ search \in {"fair", "depth"}
  BY <1>1 DEF Inv, Settled
<1>3. P = Nodes(tree) \ TasksOf(tree)
  <2>1. ToSet(tree.ahead) = {}
    BY <1>2, EmptyList
  <2>2. ToSet(tree.ahead) \cup P = Nodes(tree) \ TasksOf(tree)
    BY <1>2 DEF Growing, Listed
  <2> QED
    BY <2>1, <2>2
<1>4. ROOT \in TasksOf(tree)
  BY <1>2 DEF Growing, Entries
<1>5. CASE search = "fair"
  <2>1. Slaves(tree, ROOT) # <<>>
    BY <1>2, <1>5 DEF IsOver
  <2>2. P # {}
    BY <1>2, <1>3, <2>1, ProcessLeft
  <2>3. queue # <<>>
    BY <1>1, <1>2, <2>2, NonEmptyList
  <2>4. Current \in P
    BY <1>1, <1>2, <2>3, TailedLemma DEF Current
  <2> QED
    BY <1>1, <1>2, <1>3, <2>1, <2>3, <2>4 DEF Ready
<1>6. CASE search # "fair"
  <2>1. queue # <<>>
    BY <1>6 DEF IsOver
  <2>2. Current \in P
    BY <1>1, <1>2, <2>1, TailedLemma DEF Current
  <2>3. Current \in Nodes(tree) \ {ROOT}
    BY <1>3, <1>4, <2>2
  <2>4. Slaves(tree, ROOT) # <<>>
    BY <1>2, <2>3, RootBusy
  <2> QED
    BY <1>1, <1>2, <1>3, <2>1, <2>2, <2>4 DEF Ready
<1> QED
  BY <1>5, <1>6

(* The processes that a run created are in the list.                       *)
LEMMA ListedGrows ==
  ASSUME NEW g, NEW P, Growing(g, P, {}, {}, {}), NEW Q, Q = ToSet(g.ahead) \cup P,
         NEW h, h = [g EXCEPT !.ahead = <<>>]
  PROVE  /\ Growing(h, Q, {}, {}, {}) /\ h.ahead = <<>> /\ h.heap = g.heap /\ Nodes(h) = Nodes(g)
         /\ Q = Nodes(g) \ TasksOf(g)
<1>1. Entries(g) /\ Linked(g, {}) /\ Owned(g) /\ Listed(g, P) /\ Busy(g, {}) /\ Held(g, {}) /\ Inherited(g)
  BY DEF Growing
<1>2. PICK heap, b, none : heap = g.heap /\ b = g.bindings /\ none = <<>>
  OBVIOUS
<1>3. h = [heap |-> heap, ahead |-> none, bindings |-> b]
  <2>1. PICK ahead : ahead = g.ahead
    OBVIOUS
  <2>2. g = [heap |-> heap, ahead |-> ahead, bindings |-> b]
    BY <1>1, <1>2, <2>1 DEF Entries
  <2>3. h = [g EXCEPT !.ahead = none]
    BY <1>2
  <2> QED
    BY <2>2, <2>3
<1>4. h.heap = heap /\ h.ahead = none /\ h.bindings = b
  BY <1>3
<1>5. h.heap = g.heap /\ h.bindings = g.bindings /\ h = [heap |-> h.heap, ahead |-> h.ahead, bindings |-> h.bindings]
  BY <1>2, <1>3, <1>4
<1>6. /\ Nodes(h) = Nodes(g) /\ TasksOf(h) = TasksOf(g)
      /\ \A x : Owner(h, x) = Owner(g, x) /\ Slaves(h, x) = Slaves(g, x)
  BY <1>5 DEF Nodes, TasksOf, Owner, Slaves
<1>7. Entries(h)
  BY <1>1, <1>5, <1>6 DEF Entries
<1>8. Linked(h, {})
  BY <1>1, <1>6 DEF Linked, Children
<1>9. Owned(h)
  BY <1>1, <1>5, <1>6 DEF Owned
<1>10. Busy(h, {})
  BY <1>1, <1>6 DEF Busy
<1>11. Held(h, {})
  BY <1>1, <1>5, <1>6 DEF Held, Holders
<1>12. Inherited(h)
  BY <1>1, <1>5, <1>6 DEF Inherited, VarsOf
<1>13. Q = Nodes(g) \ TasksOf(g)
  BY <1>1 DEF Listed
<1>14. Listed(h, Q)
  <2>1. none \in Seq(Nodes(h)) /\ IsInjective(none) /\ ToSet(none) = {}
    BY <1>2, EmptyList
  <2> QED
    BY <1>4, <1>6, <1>13, <2>1 DEF Listed
<1> QED
  BY <1>2, <1>4, <1>5, <1>6, <1>7, <1>8, <1>9, <1>10, <1>11, <1>12, <1>13, <1>14 DEF Growing

(* The list of processes after a run.                                      *)
LEMMA AliveLemma ==
  ASSUME NEW g, NEW E, NEW list \in Seq(E), IsInjective(list), NEW q, q = Alive(g, list)
  PROVE  q \in Seq(Nodes(g)) /\ IsInjective(q) /\ ToSet(q) = ToSet(list) \cap Nodes(g)
<1>1. PICK drop : drop = ToSet(list) \ Nodes(g)
  OBVIOUS
<1>2. q = Dropped(list, drop)
  BY <1>1 DEF Alive, Nodes
<1>3. q \in Seq(E) /\ IsInjective(q) /\ ToSet(q) = ToSet(list) \ drop
  BY <1>2, DroppedLemma, DroppedInjective
<1>4. ToSet(q) = ToSet(list) \cap Nodes(g)
  BY <1>1, <1>3
<1> QED
  BY <1>3, <1>4, WithinLemma

LEMMA QueueLemma ==
  ASSUME NEW g, NEW E, NEW list \in Seq(E), IsInjective(list), list # <<>>,
         NEW ahead \in Seq(E), IsInjective(ahead), ToSet(ahead) \cap ToSet(list) = {},
         NEW q, \/ q = Alive(g, Tail(list) \o ahead \o <<Head(list)>>)
                \/ q = Alive(g, ahead \o <<Head(list)>> \o Tail(list))
  PROVE  /\ q \in Seq(Nodes(g)) /\ IsInjective(q)
         /\ ToSet(q) = (ToSet(list) \cup ToSet(ahead)) \cap Nodes(g)
<1>1. PICK first, one, rest : first = Head(list) /\ one = <<first>> /\ rest = Tail(list)
  OBVIOUS
<1>2. /\ first \in E /\ rest \in Seq(E) /\ IsInjective(rest)
      /\ ToSet(list) = ToSet(rest) \cup {first} /\ first \notin ToSet(rest)
  BY <1>1, TailedLemma
<1>3. one \in Seq(E) /\ IsInjective(one) /\ ToSet(one) = {first}
  BY <1>1, <1>2, SingleLemma
<1>4. CASE q = Alive(g, Tail(list) \o ahead \o <<Head(list)>>)
  <2>1. PICK a, b : a = rest \o ahead /\ b = a \o one
    OBVIOUS
  <2>2. a \in Seq(E) /\ IsInjective(a) /\ ToSet(a) = ToSet(rest) \cup ToSet(ahead)
    BY <1>2, <2>1, JoinedLemma
  <2>3. b \in Seq(E) /\ IsInjective(b) /\ ToSet(b) = ToSet(a) \cup ToSet(one)
    <3>1. a \in Seq(E) /\ one \in Seq(E) /\ IsInjective(a) /\ IsInjective(one) /\ ToSet(a) \cap ToSet(one) = {}
      BY <1>2, <1>3, <2>2
    <3>2. /\ a \o one \in Seq(E) /\ IsInjective(a \o one)
          /\ ToSet(a \o one) = ToSet(a) \cup ToSet(one)
      BY <3>1, JoinedLemma
    <3> QED
      BY <2>1, <3>2
  <2>4. q = Alive(g, b)
    BY <1>1, <1>4, <2>1
  <2>5. ToSet(b) = ToSet(list) \cup ToSet(ahead)
    BY <1>2, <1>3, <2>2, <2>3
  <2> QED
    BY <2>3, <2>4, <2>5, AliveLemma
<1>5. CASE q = Alive(g, ahead \o <<Head(list)>> \o Tail(list))
  <2>1. PICK a, b : a = ahead \o one /\ b = a \o rest
    OBVIOUS
  <2>2. a \in Seq(E) /\ IsInjective(a) /\ ToSet(a) = ToSet(ahead) \cup ToSet(one)
    <3>1. ToSet(ahead) \cap ToSet(one) = {}
      BY <1>2, <1>3
    <3> QED
      BY <1>3, <2>1, <3>1, JoinedLemma
  <2>3. b \in Seq(E) /\ IsInjective(b) /\ ToSet(b) = ToSet(a) \cup ToSet(rest)
    <3>1. a \in Seq(E) /\ rest \in Seq(E) /\ IsInjective(a) /\ IsInjective(rest) /\ ToSet(a) \cap ToSet(rest) = {}
      BY <1>2, <1>3, <2>2
    <3>2. /\ a \o rest \in Seq(E) /\ IsInjective(a \o rest)
          /\ ToSet(a \o rest) = ToSet(a) \cup ToSet(rest)
      BY <3>1, JoinedLemma
    <3> QED
      BY <2>1, <3>2
  <2>4. q = Alive(g, b)
    BY <1>1, <1>5, <2>1
  <2>5. ToSet(b) = ToSet(list) \cup ToSet(ahead)
    BY <1>2, <1>3, <2>2, <2>3
  <2> QED
    BY <2>3, <2>4, <2>5, AliveLemma
<1> QED
  BY <1>4, <1>5

LEMMA RanKeeps ==
  ASSUME Inv, queue # <<>>, NEW g, Ran(g), Settled(g, ToSet(queue) \cap Nodes(g))
  PROVE  Inv'
<1>1. PICK P, h, q, E, ahead :
        /\ P = ToSet(queue) /\ h = tree' /\ q = queue' /\ E = Nodes(tree) \cup Nodes(g)
        /\ ahead = g.ahead
  OBVIOUS
<1>2. /\ h = [g EXCEPT !.ahead = <<>>]
      /\ q = IF search = "fair" THEN GoesOn(g) ELSE StaysFirst(g)
      /\ pc' = IF g.heap[ROOT].solution = <<>> THEN "search" ELSE "idle"
      /\ done' = done /\ search' = search
  BY <1>1 DEF Ran
<1>3. /\ Growing(g, P \cap Nodes(g), {}, {}, {})
      /\ Len(g.heap[ROOT].solution) <= 1
      /\ g.heap[ROOT].exhausted <=> Slaves(g, ROOT) = <<>>
  BY <1>1 DEF Settled
<1>4. PICK Q : Q = ToSet(ahead) \cup (P \cap Nodes(g))
  OBVIOUS
<1>5. /\ Growing(h, Q, {}, {}, {}) /\ h.ahead = <<>> /\ h.heap = g.heap /\ Nodes(h) = Nodes(g)
      /\ Q = Nodes(g) \ TasksOf(g)
  BY <1>1, <1>2, <1>3, <1>4, ListedGrows
<1>6. ahead \in Seq(Nodes(g)) /\ IsInjective(ahead) /\ ToSet(ahead) \cap (P \cap Nodes(g)) = {}
  BY <1>1, <1>3 DEF Growing, Listed
<1>7. queue \in Seq(Nodes(tree)) /\ IsInjective(queue) /\ done \in BOOLEAN /\ search \in {"fair", "depth"}
  BY DEF Inv
<1>8. /\ queue \in Seq(E) /\ ahead \in Seq(E) /\ ToSet(ahead) \cap P = {} /\ ToSet(ahead) \subseteq Nodes(g)
  <2>1. ToSet(ahead) \subseteq Nodes(g) /\ P \subseteq Nodes(tree)
    BY <1>1, <1>6, <1>7, ToSetLemma
  <2>2. ToSet(ahead) \subseteq E /\ ToSet(queue) \subseteq E
    BY <1>1, <2>1
  <2> QED
    BY <1>6, <1>7, <2>1, <2>2, WithinLemma
<1>9. \/ q = Alive(g, Tail(queue) \o ahead \o <<Head(queue)>>)
      \/ q = Alive(g, ahead \o <<Head(queue)>> \o Tail(queue))
  BY <1>1, <1>2 DEF GoesOn, StaysFirst, Current
<1>10. /\ q \in Seq(Nodes(g)) /\ IsInjective(q)
       /\ ToSet(q) = (P \cup ToSet(ahead)) \cap Nodes(g)
  BY <1>1, <1>6, <1>7, <1>8, <1>9, QueueLemma
<1>11. ToSet(q) = Q
  BY <1>4, <1>8, <1>10
<1>12. Settled(h, ToSet(q))
  BY <1>3, <1>5, <1>11 DEF Settled, Slaves
<1> QED
  BY <1>1, <1>2, <1>5, <1>7, <1>10, <1>12 DEF Inv

----------------------------------------------------------------------------
(* Each action keeps the invariant.                                        *)

(* What the runs of a process of one of these kinds start from and leave.  *)
LEMMA RunKeeps ==
  ASSUME Inv, NEW kinds, Runs(kinds), NEW g, Ran(g),
         NEW P, NEW id, P = ToSet(queue), id = Current,
         /\ Ready(tree, P) /\ id \in Nodes(tree) \ TasksOf(tree) /\ tree.heap[id].kind \in kinds
            => Settled(g, P \cap Nodes(g))
  PROVE  Inv'
<1>1. pc = "search" /\ ~IsOver /\ Kind \in kinds
  BY DEF Runs
<1>2. Ready(tree, P) /\ queue # <<>> /\ id \in Nodes(tree) \ TasksOf(tree)
  BY <1>1, RunStarts
<1>3. tree.heap[id].kind \in kinds
  BY <1>1 DEF Kind
<1>4. Settled(g, ToSet(queue) \cap Nodes(g))
  BY <1>2, <1>3
<1> QED
  BY <1>2, <1>4, RanKeeps

LEMMA DecompositionKeeps ==
  ASSUME Inv, Decomposition
  PROVE  Inv'
<1>1. PICK P, id, kinds, g : /\ P = ToSet(queue) /\ id = Current /\ kinds = {"decomposition"}
                             /\ g = RunDecomposition(tree, id)
  OBVIOUS
<1>2. Runs(kinds) /\ Ran(g)
  BY <1>1 DEF Decomposition, Ran
<1>3. Ready(tree, P) /\ id \in Nodes(tree) \ TasksOf(tree) /\ tree.heap[id].kind \in kinds
      => Settled(g, P \cap Nodes(g))
  BY <1>1, DecompositionSettled
<1> QED
  BY <1>1, <1>2, <1>3, RunKeeps

LEMMA RewriteKeeps ==
  ASSUME Inv, Rewrite
  PROVE  Inv'
<1>1. PICK value \in NextFound(tree, Current) : Ran(RunRewrite(tree, Current, value))
  BY DEF Rewrite
<1>2. PICK P, id, kinds, g : /\ P = ToSet(queue) /\ id = Current /\ kinds = {"application", "match"}
                             /\ g = RunRewrite(tree, id, value)
  OBVIOUS
<1>3. Runs(kinds) /\ Ran(g)
  BY <1>1, <1>2 DEF Rewrite, Ran
<1>4. Ready(tree, P) /\ id \in Nodes(tree) \ TasksOf(tree) /\ tree.heap[id].kind \in kinds
      => Settled(g, P \cap Nodes(g))
  BY <1>2, RewriteSettled
<1> QED
  BY <1>2, <1>3, <1>4, RunKeeps

LEMMA CallKeeps ==
  ASSUME Inv, Call
  PROVE  Inv'
<1>1. PICK values \in NextFound(tree, Current) : Ran(RunCall(tree, Current, values))
  BY DEF Call
<1>2. PICK P, id, kinds, g : /\ P = ToSet(queue) /\ id = Current /\ kinds = {"call"}
                             /\ g = RunCall(tree, id, values)
  OBVIOUS
<1>3. Runs(kinds) /\ Ran(g) /\ values \in NextFound(tree, id)
  BY <1>1, <1>2 DEF Call, Ran
<1>4. Ready(tree, P) /\ id \in Nodes(tree) \ TasksOf(tree) /\ tree.heap[id].kind \in kinds
      => Settled(g, P \cap Nodes(g))
  BY <1>2, <1>3, RunCallSettled
<1> QED
  BY <1>2, <1>3, <1>4, RunKeeps

LEMMA MatchrewKeeps ==
  ASSUME Inv, Matchrew
  PROVE  Inv'
<1>1. PICK match \in NextFound(tree, Current) : Ran(RunMatchrew(tree, Current, match))
  BY DEF Matchrew
<1>2. PICK P, id, kinds, g : /\ P = ToSet(queue) /\ id = Current /\ kinds = {"matchrew"}
                             /\ g = RunMatchrew(tree, id, match)
  OBVIOUS
<1>3. Runs(kinds) /\ Ran(g)
  BY <1>1, <1>2 DEF Matchrew, Ran
<1>4. Ready(tree, P) /\ id \in Nodes(tree) \ TasksOf(tree) /\ tree.heap[id].kind \in kinds
      => Settled(g, P \cap Nodes(g))
  BY <1>2, RunMatchrewSettled
<1> QED
  BY <1>2, <1>3, <1>4, RunKeeps

LEMMA NothingFoundKeeps ==
  ASSUME Inv, NothingFound
  PROVE  Inv'
<1>1. PICK P, id, kinds, g : /\ P = ToSet(queue) /\ id = Current
                             /\ kinds = {"application", "match", "call", "matchrew"}
                             /\ g = Die(tree, id)
  OBVIOUS
<1>2. Runs(kinds) /\ Ran(g)
  BY <1>1 DEF NothingFound, Ran
<1>3. Ready(tree, P) /\ id \in Nodes(tree) \ TasksOf(tree) => Settled(g, P \cap Nodes(g))
  BY <1>1, ReadyDies
<1> QED
  BY <1>1, <1>2, <1>3, RunKeeps

LEMMA RemainingKeeps ==
  ASSUME Inv, Remaining
  PROVE  Inv'
<1>1. PICK P, id, kinds, g : /\ P = ToSet(queue) /\ id = Current /\ kinds = {"remaining"}
                             /\ g = RunRemaining(tree, id)
  OBVIOUS
<1>2. Runs(kinds) /\ Ran(g)
  BY <1>1 DEF Remaining, Ran
<1>3. Ready(tree, P) /\ id \in Nodes(tree) \ TasksOf(tree) /\ tree.heap[id].kind \in kinds
      => Settled(g, P \cap Nodes(g))
  BY <1>1, RemainingSettled
<1> QED
  BY <1>1, <1>2, <1>3, RunKeeps

LEMMA RootSolution ==
  ASSUME NEW g, NEW P, NEW U, NEW K, NEW H, Growing(g, P, U, K, H), ROOT \in TasksOf(g), NEW value,
         NEW field, field = "solution", NEW h, h = Replaced(g, ROOT, WithField(g.heap[ROOT], field, value))
  PROVE  /\ Growing(h, P, U, K, H) /\ Kept(g, h, ROOT)
         /\ h.heap[ROOT].solution = value /\ h.heap[ROOT].exhausted = g.heap[ROOT].exhausted
<1>1. PICK x : x = ROOT
  OBVIOUS
<1>2. x \in TasksOf(g) /\ h = Replaced(g, x, WithField(g.heap[x], field, value))
  BY <1>1
<1>3. /\ Growing(h, P, U, K, H) /\ Kept(g, h, x)
      /\ x = ROOT /\ field = "solution" =>
           h.heap[ROOT].solution = value /\ h.heap[ROOT].exhausted = g.heap[ROOT].exhausted
  BY <1>2, FieldGrows
<1> QED
  BY <1>1, <1>3

LEMMA FindNextSolutionKeeps ==
  ASSUME Inv, FindNextSolution
  PROVE  Inv'
<1>1. PICK P, g, h, value, field, e : /\ P = ToSet(queue) /\ g = tree /\ h = tree'
                                      /\ value = <<>> /\ field = "solution" /\ e = g.heap[ROOT]
  OBVIOUS
<1>2. Growing(g, P, {}, {}, {}) /\ g.ahead = value /\ (g.heap[ROOT].exhausted <=> Slaves(g, ROOT) = <<>>)
  BY <1>1 DEF Inv, Settled
<1>3. ROOT \in TasksOf(g) /\ ROOT \in Nodes(g)
  BY <1>2 DEF Growing, Entries, TasksOf
<1>4. h = Replaced(g, ROOT, WithField(g.heap[ROOT], field, value))
  BY <1>1 DEF FindNextSolution, Replaced, WithField
<1>5. /\ Growing(h, P, {}, {}, {}) /\ Kept(g, h, ROOT)
      /\ h.heap[ROOT].solution = value /\ h.heap[ROOT].exhausted = g.heap[ROOT].exhausted
  BY <1>1, <1>2, <1>3, <1>4, RootSolution
<1>6. Slaves(h, ROOT) = Slaves(g, ROOT) /\ Nodes(h) = Nodes(g)
  BY <1>3, <1>5 DEF Kept
<1>7. h.ahead = value
  BY <1>2, <1>4 DEF Replaced, Growing, Entries
<1>8. Len(<<>>) <= 1
  OBVIOUS
<1>9. Settled(h, P)
  BY <1>1, <1>2, <1>5, <1>6, <1>8 DEF Settled
<1>10. /\ queue' = queue /\ pc' = "search" /\ done' = done /\ search' = search
  BY DEF FindNextSolution
<1>11. queue \in Seq(Nodes(tree)) /\ IsInjective(queue) /\ done \in BOOLEAN /\ search \in {"fair", "depth"}
  BY DEF Inv
<1> QED
  BY <1>1, <1>5, <1>6, <1>7, <1>9, <1>10, <1>11 DEF Inv

LEMMA StepKeeps ==
  ASSUME Inv, [Next]_vars
  PROVE  Inv'
<1>1. CASE NoMoreSolutions
  BY <1>1 DEF Inv, NoMoreSolutions
<1>2. CASE UNCHANGED vars
  BY <1>2 DEF Inv, vars
<1> QED
  BY <1>1, <1>2, FindNextSolutionKeeps, DecompositionKeeps, RewriteKeeps, CallKeeps, MatchrewKeeps,
     NothingFoundKeeps, RemainingKeeps DEF Next

----------------------------------------------------------------------------
(* The tree at the start of a search.                                      *)
LEMMA RootTaskLemma ==
  ASSUME NEW e, e = RootTask
  PROVE  /\ GoodTask(e) /\ IsTask(e) /\ e.kind = "root" /\ e.owner = NONE
         /\ e.slaves = <<>> /\ e.vars = EMPTY_CONTEXT /\ e.solution = <<>> /\ e.exhausted = FALSE
<1>1. PICK kind, owner, context, pending, more :
        /\ kind = "root" /\ owner = NONE /\ context = EMPTY_CONTEXT /\ pending = <<>>
        /\ more = [solution |-> <<>>, exhausted |-> FALSE]
  OBVIOUS
<1>2. e = Extended(Task(kind, owner, context, pending), more)
  BY <1>1 DEF RootTask
<1>3. /\ IsTask(e) /\ e.kind = kind /\ e.owner = owner /\ e.vars = context /\ e.pending = pending
      /\ e.slaves = <<>>
      /\ {"kind", "owner", "slaves", "seen", "vars", "pending"} \subseteq DOMAIN e
  BY <1>2, TaskFields
<1>4. "solution" \in DOMAIN e /\ e.solution = <<>>
  <2>1. PICK x : x = "solution"
    OBVIOUS
  <2>2. x \in DOMAIN more /\ x \notin {"kind", "owner", "slaves", "seen", "vars", "pending"} /\ more[x] = <<>>
    BY <1>1, <2>1
  <2>3. x \in DOMAIN e /\ e[x] = more[x]
    BY <1>2, <2>2, MoreFields
  <2> QED
    BY <2>1, <2>2, <2>3
<1>5. "exhausted" \in DOMAIN e /\ e.exhausted = FALSE
  <2>1. PICK x : x = "exhausted"
    OBVIOUS
  <2>2. x \in DOMAIN more /\ x \notin {"kind", "owner", "slaves", "seen", "vars", "pending"} /\ more[x] = FALSE
    BY <1>1, <2>1
  <2>3. x \in DOMAIN e /\ e[x] = more[x]
    BY <1>2, <2>2, MoreFields
  <2> QED
    BY <2>1, <2>2, <2>3
<1>6. e.pending \in Stacks
  BY <1>1, <1>3, EmptyList DEF Stacks
<1>7. GoodTask(e)
  BY <1>1, <1>3, <1>4, <1>5, <1>6 DEF GoodTask, TaskKinds
<1> QED
  BY <1>1, <1>3, <1>4, <1>5, <1>7

LEMMA NoTable ==
  GoodTable(NoBindings) /\ Contexts(NoBindings) = {}
<1>1. PICK none : none = <<>>
  OBVIOUS
<1>2. PICK b : b = NoBindings
  OBVIOUS
<1>3. b = [table |-> none, free |-> none, current |-> EMPTY_CONTEXT, substitution |-> none]
  BY <1>1, <1>2 DEF NoBindings
<1>4. b.table = none /\ b.free = none /\ b.current = EMPTY_CONTEXT /\ b.substitution = none
  BY <1>3
<1>5. DOMAIN none = {}
  BY <1>1, EmptyList, LenProperties DEF ToSet
<1>6. Contexts(b) = {}
  BY <1>4, <1>5 DEF Contexts
<1>7. none \in Seq(Range(none)) /\ none \in Seq(Contexts(b)) /\ IsInjective(none)
  BY <1>1, EmptyList
<1> QED
  BY <1>2, <1>3, <1>4, <1>6, <1>7 DEF GoodTable

LEMMA RootOnly ==
  ASSUME NEW g, g = [heap |-> [id \in {ROOT} |-> RootTask], ahead |-> <<>>, bindings |-> NoBindings]
  PROVE  /\ Growing(g, {}, {}, {}, {}) /\ g.ahead = <<>> /\ ROOT \in TasksOf(g)
         /\ g.heap[ROOT].kind = "root" /\ g.heap[ROOT].solution = <<>> /\ ~g.heap[ROOT].exhausted
<1>1. PICK e, none, b, heap : e = RootTask /\ none = <<>> /\ b = NoBindings /\ heap = [id \in {ROOT} |-> e]
  OBVIOUS
<1>2. g = [heap |-> heap, ahead |-> none, bindings |-> b]
  BY <1>1
<1>3. /\ GoodTask(e) /\ IsTask(e) /\ e.kind = "root" /\ e.owner = NONE
      /\ e.slaves = none /\ e.vars = EMPTY_CONTEXT /\ e.solution = none /\ e.exhausted = FALSE
  BY <1>1, RootTaskLemma
<1>4. /\ g.heap = heap /\ g.ahead = none /\ g.bindings = b
      /\ g = [heap |-> g.heap, ahead |-> g.ahead, bindings |-> g.bindings]
  BY <1>2
<1>5. /\ DOMAIN heap = {ROOT} /\ heap[ROOT] = e
  BY <1>1
<1>6. Nodes(g) = {ROOT} /\ TasksOf(g) = {ROOT} /\ Owner(g, ROOT) = NONE /\ Slaves(g, ROOT) = none
  BY <1>3, <1>4, <1>5 DEF Nodes, TasksOf, Owner, Slaves
<1>7. \A S : none \in Seq(S) /\ IsInjective(none) /\ ToSet(none) = {}
  BY <1>1, EmptyList
<1>8. Entries(g)
  <2>1. IsFiniteSet({ROOT})
    BY FS_Singleton
  <2>2. {ROOT} \subseteq Nat
    BY DEF ROOT
  <2>3. GoodEntry(e)
    BY <1>3 DEF GoodEntry
  <2> QED
    BY <1>3, <1>4, <1>5, <1>6, <2>1, <2>2, <2>3 DEF Entries
<1>9. Linked(g, {})
  <2>1. Children(g, {}, ROOT) = {}
    <3>1. NONE # ROOT
      BY DEF NONE, ROOT
    <3> QED
      BY <1>6, <3>1 DEF Children
  <2> QED
    BY <1>6, <1>7, <2>1 DEF Linked
<1>10. Owned(g)
  BY <1>6 DEF Owned
<1>11. Listed(g, {})
  BY <1>4, <1>6, <1>7 DEF Listed
<1>12. Busy(g, {})
  BY <1>6 DEF Busy
<1>13. Held(g, {})
  <2>1. Holders(g, {}) = {}
    BY <1>3, <1>4, <1>5, <1>6 DEF Holders
  <2>2. GoodTable(g.bindings)
    BY <1>1, <1>4, NoTable
  <2> QED
    BY <2>1, <2>2 DEF Held
<1>14. Inherited(g)
  BY <1>3, <1>4, <1>5, <1>6 DEF Inherited
<1> QED
  BY <1>1, <1>3, <1>4, <1>5, <1>6, <1>8, <1>9, <1>10, <1>11, <1>12, <1>13, <1>14 DEF Growing

LEMMA FirstTreeLemma ==
  ASSUME NEW strategy \in DOMAIN Expr, NEW g, g = FirstTree(strategy)
  PROVE  /\ Growing(g, {}, {}, {}, {}) /\ g.heap[ROOT].solution = <<>> /\ ~g.heap[ROOT].exhausted
         /\ Slaves(g, ROOT) # <<>>
<1>1. PICK g0, root0, dag, pending :
        /\ g0 = [heap |-> [id \in {ROOT} |-> RootTask], ahead |-> <<>>, bindings |-> NoBindings]
        /\ root0 = ROOT /\ dag = Start[strategy] /\ pending = <<strategy>>
  OBVIOUS
<1>2. g = NewDecomposition(g0, root0, Alone, dag, pending)
  BY <1>1 DEF FirstTree
<1>3. /\ Growing(g0, {}, {}, {}, {}) /\ g0.ahead = <<>> /\ ROOT \in TasksOf(g0)
      /\ g0.heap[ROOT].kind = "root" /\ g0.heap[ROOT].solution = <<>> /\ ~g0.heap[ROOT].exhausted
  BY <1>1, RootOnly
<1>4. pending \in Stacks
  BY <1>1, SingleLemma DEF Stacks
<1>5. Place(g0, {}, Alone, root0) /\ root0 \in TasksOf(g0) /\ g0.heap[root0].kind # "subterm"
  BY <1>1, <1>3 DEF Place
<1>6. Extends(g0, g) /\ Growing(g, {}, {}, {} \ {root0}, {})
  BY <1>2, <1>3, <1>4, <1>5, NewDecompositionGrows
<1>7. Growing(g, {}, {}, {}, {})
  <2>1. {} \ {root0} = {}
    OBVIOUS
  <2> QED
    BY <1>6, <2>1
<1>8. Slaves(g, ROOT) # <<>>
  <2>1. g.ahead # <<>>
    <3>1. PICK e, n : /\ e = [kind |-> "decomposition", owner |-> root0, dag |-> dag, pending |-> pending]
                      /\ n = NewExecution(g0, Alone, e)
      OBVIOUS
    <3>2. e.owner = root0 /\ Entries(g0) /\ Linked(g0, {})
      BY <1>3, <3>1 DEF Growing
    <3>3. n.ahead = g0.ahead /\ Inserts(g0, n, FreshId(g0), e)
      BY <1>5, <3>1, <3>2, NewExecutionLemma
    <3>4. g = [n EXCEPT !.ahead = Append(@, FreshId(g0))]
      BY <1>2, <3>1 DEF NewDecomposition, NewProcess
    <3>5. n = [heap |-> n.heap, ahead |-> n.ahead, bindings |-> n.bindings]
      BY <3>3 DEF Inserts
    <3>6. g.ahead = Append(n.ahead, FreshId(g0))
      BY <3>4, <3>5
    <3> QED
      BY <1>3, <3>3, <3>6
  <2>2. Entries(g) /\ Listed(g, {})
    BY <1>7 DEF Growing
  <2>3. PICK x : x \in ToSet(g.ahead)
    BY <2>1, <2>2, NonEmptyList DEF Listed
  <2>4. x \in Nodes(g) \ {ROOT}
    BY <2>2, <2>3 DEF Listed, Entries
  <2> QED
    BY <1>7, <2>4, RootBusy
<1> QED
  BY <1>3, <1>6, <1>7, <1>8 DEF Extends

LEMMA InitKeeps ==
  ASSUME Init
  PROVE  Inv
<1>1. PICK g, strategy : strategy = root /\ g = FirstTree(strategy)
  OBVIOUS
<1>2. strategy \in DOMAIN Expr
  BY <1>1, RootsAssumption DEF Init
<1>3. /\ Growing(g, {}, {}, {}, {}) /\ g.heap[ROOT].solution = <<>> /\ ~g.heap[ROOT].exhausted
      /\ Slaves(g, ROOT) # <<>>
  BY <1>1, <1>2, FirstTreeLemma
<1>4. PICK h, q, Q, P : /\ h = [g EXCEPT !.ahead = <<>>] /\ q = g.ahead
                        /\ P = {} /\ Q = ToSet(g.ahead) \cup P
  OBVIOUS
<1>5. tree = h /\ queue = q /\ Q = ToSet(q)
  BY <1>1, <1>4 DEF Init
<1>6. /\ Growing(h, Q, {}, {}, {}) /\ h.ahead = <<>> /\ h.heap = g.heap /\ Nodes(h) = Nodes(g)
  <2>1. Growing(g, P, {}, {}, {})
    BY <1>3, <1>4
  <2> QED
    BY <1>4, <2>1, ListedGrows
<1>7. q \in Seq(Nodes(h)) /\ IsInjective(q)
  BY <1>3, <1>4, <1>6 DEF Growing, Listed
<1>8. Len(<<>>) <= 1
  OBVIOUS
<1>9. Settled(h, ToSet(q))
  BY <1>3, <1>5, <1>6, <1>8 DEF Settled, Slaves
<1> QED
  BY <1>5, <1>6, <1>7, <1>9 DEF Inv, Init

----------------------------------------------------------------------------
(* The properties.                                                         *)
LEMMA InvLists ==
  ASSUME Inv
  PROVE  ListsExact
<1>1. PICK P, b : P = ToSet(queue) /\ b = tree.bindings
  OBVIOUS
<1>2. /\ Growing(tree, P, {}, {}, {}) /\ Len(tree.heap[ROOT].solution) <= 1
      /\ tree.heap[ROOT].exhausted <=> Slaves(tree, ROOT) = <<>>
      /\ tree.ahead = <<>> /\ IsInjective(queue)
      /\ pc \in {"idle", "search"} /\ done \in BOOLEAN
  BY <1>1 DEF Inv, Settled
<1>3. Entries(tree) /\ Linked(tree, {}) /\ Owned(tree) /\ Listed(tree, P) /\ Busy(tree, {})
  BY <1>2 DEF Growing
<1>4. Tasks = TasksOf(tree) /\ Processes = Nodes(tree) \ TasksOf(tree) /\ Nodes(tree) = DOMAIN tree.heap
  BY DEF Tasks, Processes, TasksOf, Nodes
<1>5. \A s : Range(s) = ToSet(s)
  BY DEF Range, ToSet
<1>6. TypeOK
  <2>1. \A t \in Tasks : tree.heap[t].vars \in Contexts(tree.bindings) \cup {EMPTY_CONTEXT}
    BY <1>2, <1>4, AllOpen DEF Open
  <2> QED
    BY <1>2, <1>3, <1>4, <2>1 DEF TypeOK, Entries
<1>7. \A id \in DOMAIN tree.heap \ {ROOT} : Owner(tree, id) \in Tasks
  BY <1>3, <1>4 DEF Owned
<1>8. \A t \in Tasks : Range(Slaves(tree, t)) = {id \in DOMAIN tree.heap : Owner(tree, id) = t}
  <2> TAKE t \in Tasks
  <2>1. ToSet(Slaves(tree, t)) = Children(tree, {}, t)
    BY <1>3, <1>4 DEF Linked
  <2>2. Children(tree, {}, t) = {id \in DOMAIN tree.heap : Owner(tree, id) = t}
    BY <1>4 DEF Children
  <2> QED
    BY <1>5, <2>1, <2>2
<1>9. \A t \in Tasks : IsInjective(Slaves(tree, t))
  BY <1>3, <1>4 DEF Linked
<1>10. \A t \in Tasks \ {ROOT} : Slaves(tree, t) # <<>>
  BY <1>3, <1>4 DEF Busy
<1>11. Range(queue) = Processes
  <2>1. ToSet(tree.ahead) = {}
    BY <1>2, EmptyList
  <2>2. ToSet(tree.ahead) \cup P = Nodes(tree) \ TasksOf(tree)
    BY <1>3 DEF Listed
  <2> QED
    BY <1>1, <1>4, <1>5, <2>1, <2>2
<1> QED
  BY <1>2, <1>6, <1>7, <1>8, <1>9, <1>10, <1>11 DEF ListsExact

LEMMA InvContexts ==
  ASSUME Inv
  PROVE  ContextsLive
<1>1. PICK P : P = ToSet(queue)
  OBVIOUS
<1>2. Growing(tree, P, {}, {}, {})
  BY <1>1 DEF Inv, Settled
<1>3. Held(tree, {})
  BY <1>2 DEF Growing
<1>4. Tasks = TasksOf(tree)
  BY DEF Tasks, TasksOf, Nodes
<1>5. \A t \in Tasks : tree.heap[t].vars # EMPTY_CONTEXT => Open(tree.bindings, tree.heap[t].vars)
  BY <1>2, <1>4, AllOpen
<1>6. {t \in Tasks : Opens(t)} = Holders(tree, {})
  BY <1>4 DEF Opens, Holders
<1>7. \A s, t \in {x \in Tasks : Opens(x)} : tree.heap[s].vars = tree.heap[t].vars => s = t
  BY <1>3, <1>6 DEF Held
<1>8. tree.bindings.current # EMPTY_CONTEXT =>
        tree.bindings.substitution = ValuesOf(tree.bindings, tree.bindings.current)
  BY <1>3 DEF Held, GoodTable, ValuesOf
<1> QED
  BY <1>5, <1>7, <1>8 DEF ContextsLive

LEMMA Invariance == Spec => []Inv
BY InitKeeps, StepKeeps, PTL DEF Spec

(* Between two runs of srewrite and dsrewrite, and however a run ends, what*)
(* it deletes and how many tasks it ends in turn, each execution is in the *)
(* list of slaves of its owner once and in no other, the processes listed  *)
(* are those of the tree, and no task that has no more slaves is left.     *)
THEOREM ListsExactAlways == Spec => []ListsExact
BY Invariance, InvLists, PTL

(* The contexts that the tasks of srewrite and dsrewrite use are open, each*)
(* call and matchrew that opened one has it for itself until it closes it, *)
(* and the cached substitution is that of the context it says.             *)
THEOREM ContextsLiveAlways == Spec => []ContextsLive
BY Invariance, InvContexts, PTL
=============================================================================
