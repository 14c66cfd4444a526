----------------------- MODULE VariableBindingsManager -----------------------
(***************************************************************************)
(* The table of variable contexts on its own, used by any clients that     *)
(* close a context as often as they opened or protected it.  The numbers   *)
(* of closed contexts are handed out again, contexts of tail calls are     *)
(* shared, and the substitution of the last context instantiated is kept:  *)
(* what could go wrong is that a client sees the values of another one.    *)
(***************************************************************************)
EXTENDS VariableBindings

CONSTANTS
  Values,         \* what the variables of a context may be bound to
  Filters,        \* the groups of tail calls whose contexts are compared
  MaxContexts,    \* bound of the cells
  MaxUsers        \* bound of the users of a context

ASSUME FiltersAssumption == NoFilter \notin Filters
ASSUME BoundsAssumption == MaxContexts \in Nat /\ MaxUsers \in Nat

VARIABLES
  bindings,
  clients         \* what they hold: context -> how often, with which values

tableVars == <<bindings, clients>>

Nobody == [times |-> 0, values |-> <<>>]
WithoutOne(client) ==
  IF client.times = 1 THEN Nobody ELSE [client EXCEPT !.times = @ - 1]
Held(c) == c \in DOMAIN clients /\ clients[c].times > 0

TableInit ==
  /\ bindings = NoBindings
  /\ clients = <<>>

(* A strategy is called or a match of matchrew found (with NoFilter).  The *)
(* values of a matchrew that come from the context around it are in values.*)
OpenFor(values, filter) ==
  LET opened == OpenContext(bindings, values, filter)
      c == opened.context
      held == [d \in Contexts(opened.bindings) |-> IF d \in DOMAIN clients THEN clients[d] ELSE Nobody]
  IN  /\ bindings' = opened.bindings
      /\ clients' = [held EXCEPT ![c] = [times |-> @.times + 1, values |-> values]]
      /\ clients'[c].times <= MaxUsers /\ Len(opened.bindings.table) <= MaxContexts

(* A task of the state graph keeps the context of another one.             *)
ProtectHeld(c) ==
  /\ Held(c) /\ clients[c].times < MaxUsers
  /\ bindings' = Protect(bindings, c)
  /\ clients' = [clients EXCEPT ![c].times = @ + 1]

(* A call ends, or the matchrew is deleted.                                *)
CloseHeld(c) ==
  /\ Held(c)
  /\ bindings' = CloseContext(bindings, c)
  /\ clients' = [clients EXCEPT ![c] = WithoutOne(@)]

(* The arguments of a call or an application are instantiated.             *)
InstantiateHeld(c) ==
  /\ Held(c)
  /\ bindings' = Prepared(bindings, c)
  /\ UNCHANGED clients

TableNext ==
  \/ \E values \in Values, filter \in Filters \cup {NoFilter} : OpenFor(values, filter)
  \/ \E c \in DOMAIN clients : ProtectHeld(c) \/ CloseHeld(c) \/ InstantiateHeld(c)

TableSpec == TableInit /\ [][TableNext]_tableVars

----------------------------------------------------------------------------
Cells == [users : Nat, values : Values \cup {<<>>}, filter : Filters \cup {NoFilter}]

(* Type invariant: cells, numbers of cells and values where they belong.   *)
TableTypeOK ==
  /\ bindings \in [table : Seq(Cells), free : Seq(Nat), current : Nat,
                   substitution : Values \cup {<<>>}]
  /\ clients \in Seq([times : Nat, values : Values \cup {<<>>}])

(* Sharing, protecting and closing count the clients of every context, and *)
(* no client finds other values in a context than those it opened it with: *)
(* openContext never takes a cell that is in use, and closeContext never   *)
(* frees one (variableBindingsManager.hh, closeContext).                   *)
ClientsServed ==
  /\ DOMAIN clients = Contexts(bindings)
  /\ \A c \in Contexts(bindings) :
       /\ bindings.table[c].users = clients[c].times
       /\ bindings.table[c].values = clients[c].values

(* The queue of free cells has every cell without users, once: a cell is   *)
(* neither lost nor handed out twice.                                      *)
FreeExact ==
  /\ \A c \in Contexts(bindings) :
       ~Open(bindings, c) <=> \E i \in DOMAIN bindings.free : bindings.free[i] = c
  /\ \A i \in DOMAIN bindings.free : bindings.free[i] \in Contexts(bindings)
  /\ \A i, j \in DOMAIN bindings.free : bindings.free[i] = bindings.free[j] => i = j

(* The substitution that instantiate keeps is that of a context that is    *)
(* open, with the values of its clients, whatever was closed, opened or    *)
(* shared since (variableBindingsManager.cc, instantiate).                 *)
CacheCurrent ==
  bindings.current # EMPTY_CONTEXT =>
    Held(bindings.current) /\ bindings.substitution = clients[bindings.current].values

(* Two contexts of a group of tail calls differ: the state graph finds the *)
(* cycles of calls with equal arguments by comparing context numbers.      *)
SharedOnce ==
  \A c, d \in Contexts(bindings) :
    /\ Open(bindings, c) /\ Open(bindings, d)
    /\ bindings.table[c].filter # NoFilter
    /\ bindings.table[c].filter = bindings.table[d].filter
    /\ bindings.table[c].values = bindings.table[d].values
    => c = d
=============================================================================
