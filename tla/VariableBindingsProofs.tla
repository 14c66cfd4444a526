----------------------- MODULE VariableBindingsProofs -----------------------
(***************************************************************************)
(* Theorems about the table of variable contexts, for any values, filters  *)
(* and bounds: clients see their own values, cells are neither lost nor    *)
(* handed out twice, the kept substitution is never stale, and equal       *)
(* contexts of a group of tail calls are one.                              *)
(*                                                                         *)
(* openContext opens a cell, and when it finds a context to share it also  *)
(* closes that cell and protects the other one.  The invariant is stated   *)
(* for any table b and clients k, so that the three parts compose.         *)
(***************************************************************************)
EXTENDS VariableBindingsManager, SequenceTheorems, TLAPS

Client == [times : Nat, values : Values \cup {<<>>}]
Tables == [table : Seq(Cells), free : Seq(Nat), current : Nat, substitution : Values \cup {<<>>}]

Typed(b, k) == b \in Tables /\ k \in Seq(Client)
Served(b, k) ==
  /\ DOMAIN k = Contexts(b)
  /\ \A c \in Contexts(b) : b.table[c].users = k[c].times /\ b.table[c].values = k[c].values
Free(b) ==
  /\ \A c \in Contexts(b) : ~Open(b, c) <=> \E i \in DOMAIN b.free : b.free[i] = c
  /\ \A i \in DOMAIN b.free : b.free[i] \in Contexts(b)
  /\ \A i, j \in DOMAIN b.free : b.free[i] = b.free[j] => i = j
Kept(b, k) ==
  b.current # EMPTY_CONTEXT =>
    b.current \in DOMAIN k /\ k[b.current].times > 0 /\ b.substitution = k[b.current].values
Once(b) ==
  \A c, d \in Contexts(b) :
    /\ Open(b, c) /\ Open(b, d)
    /\ b.table[c].filter # NoFilter
    /\ b.table[c].filter = b.table[d].filter
    /\ b.table[c].values = b.table[d].values
    => c = d
(* The strengthening: a cell that is shared instead of the one filled for  *)
(* the comparison leaves the latter as its absent clients expect it.       *)
Blank(k) == \A c \in DOMAIN k : k[c].times = 0 => k[c].values = <<>>

Good(b, k) == Typed(b, k) /\ Served(b, k) /\ Free(b) /\ Kept(b, k) /\ Once(b) /\ Blank(k)

(* The clients after a cell is opened, closed and protected.               *)
Opened(b, k, v) ==
  [d \in Contexts(WithCell(b, NextContext(b), EmptyCell)) |->
     IF d = NextContext(b) THEN [times |-> 1, values |-> v] ELSE k[d]]
Released(k, c) == [k EXCEPT ![c] = WithoutOne(@)]
Protected(k, c) == [k EXCEPT ![c].times = @ + 1]

----------------------------------------------------------------------------
LEMMA WithCellLemma ==
  ASSUME NEW b \in Tables, NEW c \in 1 .. Len(b.table) + 1, NEW cell \in Cells
  PROVE  /\ WithCell(b, c, cell) \in Tables
         /\ Len(WithCell(b, c, cell).table) = IF c = Len(b.table) + 1 THEN c ELSE Len(b.table)
         /\ \A d \in 1 .. Len(WithCell(b, c, cell).table) :
              WithCell(b, c, cell).table[d] = IF d = c THEN cell ELSE b.table[d]
         /\ WithCell(b, c, cell).free = b.free
         /\ WithCell(b, c, cell).current = b.current
         /\ WithCell(b, c, cell).substitution = b.substitution
<1>1. b.table \in Seq(Cells)
  BY DEF Tables
<1>2. CASE c = Len(b.table) + 1
  <2>1. WithCell(b, c, cell) = [b EXCEPT !.table = Append(b.table, cell)]
    BY <1>2 DEF WithCell, Tables
  <2>2. /\ Append(b.table, cell) \in Seq(Cells)
        /\ Len(Append(b.table, cell)) = Len(b.table) + 1
        /\ \A i \in 1 .. Len(b.table) : Append(b.table, cell)[i] = b.table[i]
        /\ Append(b.table, cell)[Len(b.table) + 1] = cell
    BY <1>1, AppendProperties
  <2>3. Len(b.table) \in Nat
    BY <1>1
  <2> DEFINE t == Append(b.table, cell)
  <2>4. /\ Len(t) = c
        /\ \A d \in 1 .. Len(t) : t[d] = IF d = c THEN cell ELSE b.table[d]
    BY <1>2, <2>2, <2>3
  <2>5. t \in Seq(Cells)
    BY <2>2
  <2> HIDE DEF t
  <2>6. WithCell(b, c, cell) = [b EXCEPT !.table = t]
    BY <2>1 DEF t
  <2> QED
    BY <1>2, <2>4, <2>5, <2>6 DEF Tables
<1>3. CASE c # Len(b.table) + 1
  <2>1. WithCell(b, c, cell) = [b EXCEPT !.table = [b.table EXCEPT ![c] = cell]]
    BY <1>3 DEF WithCell, Tables
  <2>2. c \in 1 .. Len(b.table)
    BY <1>1, <1>3
  <2>3. /\ [b.table EXCEPT ![c] = cell] \in Seq(Cells)
        /\ Len([b.table EXCEPT ![c] = cell]) = Len(b.table)
        /\ \A j \in 1 .. Len(b.table) :
             [b.table EXCEPT ![c] = cell][j] = IF j = c THEN cell ELSE b.table[j]
    BY <1>1, <2>2, ExceptSeq
  <2> QED
    BY <1>1, <1>3, <2>1, <2>3 DEF Tables
<1> QED
  BY <1>2, <1>3

(* The cell of a context to be opened is a new one or nobody's.            *)
LEMMA NextContextLemma ==
  ASSUME NEW b, NEW k, Good(b, k)
  PROVE  /\ NextContext(b) \in 1 .. Len(b.table) + 1
         /\ NextContext(b) \in Contexts(b) => ~Open(b, NextContext(b))
<1>1. b.table \in Seq(Cells) /\ b.free \in Seq(Nat)
  BY DEF Good, Typed, Tables
<1>2. CASE b.free = <<>>
  BY <1>1, <1>2 DEF NextContext, Contexts
<1>3. CASE b.free # <<>>
  <2>1. 1 \in DOMAIN b.free /\ NextContext(b) = b.free[1]
    BY <1>1, <1>3 DEF NextContext
  <2> QED
    BY <1>1, <2>1 DEF Good, Free, Contexts
<1> QED
  BY <1>2, <1>3

----------------------------------------------------------------------------
(* A context is opened, and no other one of its group has its values.      *)
LEMMA OpenGood ==
  ASSUME NEW b, NEW k, Good(b, k),
         NEW values \in Values, NEW filter \in Filters \cup {NoFilter},
         SameContexts(b, values, filter) = {}
  PROVE  Good(OpenCell(b, values, filter), Opened(b, k, values))
<1> DEFINE n == NextContext(b)
           cell == [users |-> 1, values |-> values, filter |-> filter]
           free == IF b.free = <<>> THEN b.free ELSE Tail(b.free)
           taken == [b EXCEPT !.free = free]
           o == OpenCell(b, values, filter)
           l == Opened(b, k, values)
           m == IF n = Len(b.table) + 1 THEN n ELSE Len(b.table)
<1>1. b \in Tables /\ k \in Seq(Client) /\ b.table \in Seq(Cells) /\ b.free \in Seq(Nat)
  BY DEF Good, Typed, Tables
<1>2. n \in 1 .. Len(b.table) + 1 /\ (n \in Contexts(b) => ~Open(b, n))
  BY NextContextLemma
<1>3. cell \in Cells /\ EmptyCell \in Cells
  BY DEF Cells, EmptyCell
<1>4. free \in Seq(Nat) /\ taken \in Tables /\ taken.table = b.table
  <2>1. free \in Seq(Nat)
    BY <1>1, HeadTailProperties
  <2> HIDE DEF free
  <2> QED
    BY <1>1, <2>1 DEF Tables
<1>5. o = WithCell(taken, n, cell)
  BY <1>1 DEF OpenCell, Tables
<1>6. /\ o \in Tables /\ Len(o.table) = m
      /\ \A d \in 1 .. m : o.table[d] = IF d = n THEN cell ELSE b.table[d]
      /\ o.free = free /\ o.current = b.current /\ o.substitution = b.substitution
  <2> HIDE DEF n, cell, free
  <2>1. taken.free = free /\ taken.current = b.current /\ taken.substitution = b.substitution
    BY <1>1 DEF Tables
  <2> HIDE DEF taken, o, l, m
  <2>2. n \in 1 .. Len(taken.table) + 1 /\ cell \in Cells /\ taken \in Tables
    BY <1>2, <1>3, <1>4
  <2> DEFINE w == WithCell(taken, n, cell)
  <2>3. /\ w \in Tables
        /\ Len(w.table) = IF n = Len(taken.table) + 1 THEN n ELSE Len(taken.table)
        /\ \A d \in 1 .. Len(w.table) : w.table[d] = IF d = n THEN cell ELSE taken.table[d]
        /\ w.free = taken.free /\ w.current = taken.current /\ w.substitution = taken.substitution
    BY <2>2, WithCellLemma
  <2> HIDE DEF w
  <2>4. o = w
    BY <1>5 DEF w
  <2> QED
    BY <1>4, <2>1, <2>3, <2>4 DEF m
<1>7. Contexts(o) = 1 .. m /\ Contexts(b) = 1 .. Len(b.table) /\ m \in Nat /\ Len(b.table) \in Nat
  BY <1>1, <1>2, <1>6 DEF Contexts, Tables
<1>8. Contexts(WithCell(b, n, EmptyCell)) = 1 .. m
  BY <1>1, <1>2, <1>3, WithCellLemma DEF Contexts, Tables
<1>9. l = [d \in 1 .. m |-> IF d = n THEN [times |-> 1, values |-> values] ELSE k[d]]
  BY <1>8 DEF Opened
<1> HIDE DEF n, cell, o, l, m, free
<1>10. m = (IF n = Len(b.table) + 1 THEN n ELSE Len(b.table)) /\ n \in 1 .. m
  BY <1>2, <1>7 DEF m
<1>11. \A d \in 1 .. m : d # n => d \in 1 .. Len(b.table)
  BY <1>2, <1>7, <1>10
<1>12. DOMAIN k = 1 .. Len(b.table)
  BY <1>7 DEF Good, Served
<1>13. \A d \in 1 .. m : l[d] \in Client
  <2>1. [times |-> 1, values |-> values] \in Client
    BY DEF Client
  <2>2. \A d \in DOMAIN k : k[d] \in Client
    BY <1>1
  <2> QED
    BY <1>9, <1>11, <1>12, <2>1, <2>2
<1>14. Typed(o, l)
  <2>1. l \in [1 .. m -> Client]
    BY <1>9, <1>13
  <2> QED
    BY <1>6, <1>7, <2>1, SeqDef DEF Typed
<1>15. Served(o, l)
  BY <1>6, <1>7, <1>9, <1>11 DEF Served, Good, cell
<1>16. Free(o)
  <2>1. \A d \in 1 .. m : Open(o, d) <=> d = n \/ (d \in Contexts(b) /\ Open(b, d))
    BY <1>6, <1>7, <1>10, <1>11 DEF Open, cell
  <2>2. CASE b.free = <<>>
    <3>1. free = <<>> /\ n = Len(b.table) + 1
      BY <1>1, <2>2 DEF free, n, NextContext
    <3>2. \A d \in Contexts(b) : Open(b, d)
      BY <2>2 DEF Good, Free
    <3> QED
      BY <1>6, <1>7, <1>11, <2>1, <3>1, <3>2 DEF Free
  <2>3. CASE b.free # <<>>
    <3>1. n = b.free[1] /\ 1 \in DOMAIN b.free
      BY <1>1, <2>3 DEF n, NextContext
    <3>2. n \in Contexts(b)
      BY <3>1 DEF Good, Free
    <3>3. m = Len(b.table)
      BY <1>7, <1>10, <3>2
    <3>4. /\ Len(free) = Len(b.free) - 1 /\ Len(free) \in Nat
          /\ \A i \in 1 .. Len(free) : free[i] = b.free[i + 1]
      BY <1>1, <2>3, HeadTailProperties DEF free
    <3>5. DOMAIN free = 1 .. Len(free) /\ DOMAIN b.free = 1 .. Len(free) + 1
      BY <1>1, <1>4, <3>4
    <3>6. \A i \in DOMAIN free : i + 1 \in DOMAIN b.free /\ free[i] = b.free[i + 1] /\ i + 1 # 1
      BY <3>4, <3>5
    <3>7. \A i \in DOMAIN b.free : i = 1 \/ (i - 1 \in DOMAIN free /\ free[i - 1] = b.free[i])
      BY <3>4, <3>5
    <3>8. \A i \in DOMAIN free : free[i] # n /\ free[i] \in Contexts(b)
      BY <3>1, <3>6 DEF Good, Free
    <3>9. \A d \in 1 .. m : ~Open(o, d) <=> \E i \in DOMAIN free : free[i] = d
      <4>1. ASSUME NEW d \in 1 .. m, ~Open(o, d)
            PROVE  \E i \in DOMAIN free : free[i] = d
        <5>1. d # n /\ d \in Contexts(b) /\ ~Open(b, d)
          BY <1>7, <1>11, <2>1, <4>1
        <5>2. PICK i \in DOMAIN b.free : b.free[i] = d
          BY <5>1 DEF Good, Free
        <5> QED
          BY <3>1, <3>7, <5>1, <5>2
      <4>2. ASSUME NEW d \in 1 .. m, NEW i \in DOMAIN free, free[i] = d
            PROVE  ~Open(o, d)
        BY <1>7, <2>1, <3>6, <3>8, <4>2 DEF Good, Free
      <4> QED
        BY <4>1, <4>2
    <3>10. \A i, j \in DOMAIN free : free[i] = free[j] => i = j
      <4> SUFFICES ASSUME NEW i \in DOMAIN free, NEW j \in DOMAIN free, free[i] = free[j]
                   PROVE  i = j
        OBVIOUS
      <4>1. i + 1 = j + 1
        BY <3>6 DEF Good, Free
      <4> QED
        BY <3>4, <3>5, <4>1
    <3> QED
      BY <1>6, <1>7, <3>3, <3>8, <3>9, <3>10 DEF Free
  <2> QED
    BY <2>2, <2>3
<1>17. Kept(o, l)
  <2>1. ASSUME b.current # EMPTY_CONTEXT
        PROVE  b.current \in 1 .. Len(b.table) /\ b.current # n
    BY <1>1, <1>2, <1>7, <1>12, <2>1 DEF Good, Kept, Served, Open
  <2> QED
    BY <1>6, <1>7, <1>9, <1>10, <2>1 DEF Good, Kept
<1>18. Once(o)
  <2> SUFFICES ASSUME NEW c \in 1 .. m, NEW d \in 1 .. m,
                      Open(o, c), Open(o, d), o.table[c].filter # NoFilter,
                      o.table[c].filter = o.table[d].filter,
                      o.table[c].values = o.table[d].values
               PROVE  c = d
    BY <1>7 DEF Once
  <2>1. \A e \in 1 .. m : e # n /\ Open(o, e) =>
           e \in Contexts(b) /\ Open(b, e) /\ o.table[e] = b.table[e]
    BY <1>6, <1>7, <1>11 DEF Open
  <2>2. \A e \in Contexts(b) : Open(b, e) /\ filter # NoFilter =>
           ~(b.table[e].values = values /\ b.table[e].filter = filter)
    BY DEF SameContexts, Holds
  <2>3. o.table[n].filter = filter /\ o.table[n].values = values
    BY <1>6, <1>10 DEF cell
  <2>4. CASE c = n
    BY <2>1, <2>2, <2>3, <2>4
  <2>5. CASE d = n
    BY <2>1, <2>2, <2>3, <2>5
  <2>6. CASE c # n /\ d # n
    BY <2>1, <2>6 DEF Good, Once
  <2> QED
    BY <2>4, <2>5, <2>6
<1>19. Blank(l)
  BY <1>9, <1>11, <1>12 DEF Good, Blank
<1> QED
  BY <1>14, <1>15, <1>16, <1>17, <1>18, <1>19 DEF Good, o, l

----------------------------------------------------------------------------
(* A context that has clients is closed by one of them.                    *)
LEMMA CloseGood ==
  ASSUME NEW b, NEW k, Good(b, k), NEW c \in DOMAIN k, k[c].times > 0
  PROVE  Good(CloseContext(b, c), Released(k, c))
<1> DEFINE n == Len(b.table)
           x == CloseContext(b, c)
           l == Released(k, c)
           last == b.table[c].users = 1
           cell == IF last THEN EmptyCell ELSE [b.table[c] EXCEPT !.users = @ - 1]
           client == IF last THEN Nobody ELSE [k[c] EXCEPT !.times = @ - 1]
<1>1. b \in Tables /\ k \in Seq(Client) /\ b.table \in Seq(Cells) /\ b.free \in Seq(Nat)
  BY DEF Good, Typed, Tables
<1>2. n \in Nat /\ DOMAIN k = 1 .. n /\ Contexts(b) = 1 .. n /\ c \in 1 .. n
  BY <1>1 DEF Good, Served, Contexts
<1>3. b.table[c] \in Cells /\ k[c] \in Client
  BY <1>1, <1>2
<1>4. b.table[c].users = k[c].times /\ b.table[c].values = k[c].values /\ b.table[c].users \in Nat
  BY <1>2, <1>3 DEF Good, Served, Cells
<1>5. cell \in Cells /\ client \in Client
  BY <1>3, <1>4 DEF Cells, Client, EmptyCell, Nobody
<1>6. cell.users = client.times /\ cell.values = client.values
      /\ (client.times = 0 => client.values = <<>>)
  BY <1>3, <1>4 DEF Cells, Client, EmptyCell, Nobody
<1>7. ~last => cell.users > 0 /\ cell.filter = b.table[c].filter /\ cell.values = b.table[c].values
  BY <1>3, <1>4 DEF Cells
<1>8. last => cell.users = 0
  BY DEF EmptyCell
<1>9. l = [k EXCEPT ![c] = client]
  BY <1>4 DEF Released, WithoutOne
<1>10. b.free \in Seq(Nat) /\ Append(b.free, c) \in Seq(Nat) /\ c \in Nat
  BY <1>1, <1>2
<1> DEFINE free == IF last THEN Append(b.free, c) ELSE b.free
           current == IF last /\ b.current = c THEN EMPTY_CONTEXT ELSE b.current
<1>11. x = [b EXCEPT !.table = [b.table EXCEPT ![c] = cell], !.free = free, !.current = current]
  <2>1. CASE last
    <3>1. x = [b EXCEPT !.table[c] = EmptyCell, !.free = Append(@, c),
                        !.current = IF @ = c THEN EMPTY_CONTEXT ELSE @]
      BY <1>2, <2>1 DEF CloseContext, CloseCell, EMPTY_CONTEXT
    <3> QED
      BY <1>1, <2>1, <3>1 DEF Tables
  <2>2. CASE ~last
    <3>1. x = [b EXCEPT !.table[c].users = @ - 1]
      BY <1>2, <2>2 DEF CloseContext, CloseCell, EMPTY_CONTEXT
    <3> QED
      BY <1>1, <2>2, <3>1 DEF Tables
  <2> QED
    BY <2>1, <2>2
<1> HIDE DEF x, l, cell, client
<1>12. /\ [b.table EXCEPT ![c] = cell] \in Seq(Cells)
       /\ Len([b.table EXCEPT ![c] = cell]) = n
       /\ \A j \in 1 .. n : [b.table EXCEPT ![c] = cell][j] = IF j = c THEN cell ELSE b.table[j]
  BY <1>1, <1>2, <1>5, ExceptSeq
<1>13. free \in Seq(Nat) /\ current \in Nat
  BY <1>1, <1>10 DEF Tables, EMPTY_CONTEXT
<1> HIDE DEF free, current
<1>14. /\ x \in Tables /\ Len(x.table) = n
       /\ \A j \in 1 .. n : x.table[j] = IF j = c THEN cell ELSE b.table[j]
       /\ x.free = free /\ x.current = current /\ x.substitution = b.substitution
  BY <1>1, <1>11, <1>12, <1>13 DEF Tables
<1>15. Contexts(x) = 1 .. n
  BY <1>14 DEF Contexts, Tables
<1>16. /\ l \in Seq(Client) /\ DOMAIN l = 1 .. n
       /\ \A j \in 1 .. n : l[j] = IF j = c THEN client ELSE k[j]
  <2>1. c \in 1 .. Len(k) /\ Len(k) = n
    BY <1>1, <1>2
  <2> QED
    BY <1>1, <1>2, <1>5, <1>9, <2>1, ExceptSeq
<1>17. Typed(x, l)
  BY <1>14, <1>16 DEF Typed
<1>18. Served(x, l)
  BY <1>2, <1>6, <1>14, <1>15, <1>16 DEF Good, Served
<1>19. \A d \in 1 .. n : Open(x, d) <=> Open(b, d) /\ ~(last /\ d = c)
  BY <1>2, <1>4, <1>7, <1>8, <1>14, <1>15 DEF Open
<1>20. Free(x)
  <2>1. CASE ~last
    BY <1>2, <1>14, <1>15, <1>19, <2>1 DEF Good, Free, free
  <2>2. CASE last
    <3>1. Open(b, c)
      BY <1>2, <1>4 DEF Open
    <3>2. \A i \in DOMAIN b.free : b.free[i] # c
      BY <1>2, <3>1 DEF Good, Free
    <3>3. /\ free = Append(b.free, c) /\ Len(b.free) \in Nat
          /\ DOMAIN b.free = 1 .. Len(b.free) /\ DOMAIN free = 1 .. Len(b.free) + 1
          /\ \A i \in DOMAIN b.free : free[i] = b.free[i]
          /\ free[Len(b.free) + 1] = c
      BY <1>1, <1>10, <2>2 DEF free
    <3>4. \A i \in DOMAIN free : i \in DOMAIN b.free \/ i = Len(b.free) + 1
      BY <3>3
    <3>5. \A i \in DOMAIN free : free[i] \in 1 .. n
      BY <1>2, <3>3, <3>4 DEF Good, Free
    <3>6. \A i, j \in DOMAIN free : free[i] = free[j] => i = j
      <4>1. \A i, j \in DOMAIN b.free : b.free[i] = b.free[j] => i = j
        BY DEF Good, Free
      <4> QED
        BY <3>2, <3>3, <3>4, <4>1
    <3>7. \A d \in 1 .. n : ~Open(x, d) <=> \E i \in DOMAIN free : free[i] = d
      <4>1. ASSUME NEW d \in 1 .. n, ~Open(x, d)
            PROVE  \E i \in DOMAIN free : free[i] = d
        <5>1. CASE d = c
          BY <3>3, <5>1
        <5>2. CASE d # c
          <6>1. PICK i \in DOMAIN b.free : b.free[i] = d
            BY <1>2, <1>19, <4>1, <5>2 DEF Good, Free
          <6> QED
            BY <3>3, <6>1
        <5> QED
          BY <5>1, <5>2
      <4>2. ASSUME NEW d \in 1 .. n, NEW i \in DOMAIN free, free[i] = d
            PROVE  ~Open(x, d)
        <5>1. CASE i = Len(b.free) + 1
          BY <1>19, <2>2, <3>3, <4>2, <5>1
        <5>2. CASE i \in DOMAIN b.free
          BY <1>2, <1>19, <3>3, <4>2, <5>2 DEF Good, Free
        <5> QED
          BY <3>4, <5>1, <5>2
      <4> QED
        BY <4>1, <4>2
    <3> QED
      BY <1>14, <1>15, <3>5, <3>6, <3>7 DEF Free
  <2> QED
    BY <2>1, <2>2
<1>21. Kept(x, l)
  <2>1. CASE current = EMPTY_CONTEXT
    BY <1>14, <2>1 DEF Kept
  <2>2. CASE current # EMPTY_CONTEXT
    <3>1. current = b.current /\ ~(last /\ b.current = c)
      BY <2>2 DEF current
    <3>2. b.current \in 1 .. n /\ k[b.current].times > 0 /\ b.substitution = k[b.current].values
      BY <1>2, <2>2, <3>1 DEF Good, Kept
    <3>3. ~last => client.times > 0 /\ client.values = k[c].values
      BY <1>4, <1>6, <1>7
    <3> QED
      BY <1>14, <1>16, <3>1, <3>2, <3>3 DEF Kept
  <2> QED
    BY <2>1, <2>2
<1>22. Once(x)
  <2>1. \A d \in 1 .. n : Open(x, d) => Open(b, d) /\ x.table[d].filter = b.table[d].filter
                                       /\ x.table[d].values = b.table[d].values
    BY <1>7, <1>14, <1>19
  <2> QED
    BY <1>2, <1>15, <2>1 DEF Good, Once
<1>23. Blank(l)
  BY <1>2, <1>6, <1>16 DEF Good, Blank
<1> QED
  BY <1>17, <1>18, <1>20, <1>21, <1>22, <1>23 DEF Good, x, l

(* A context that has clients gets another one.                            *)
LEMMA ProtectGood ==
  ASSUME NEW b, NEW k, Good(b, k), NEW c \in DOMAIN k, k[c].times > 0
  PROVE  Good(Protect(b, c), Protected(k, c))
<1> DEFINE n == Len(b.table)
           x == Protect(b, c)
           l == Protected(k, c)
           cell == [b.table[c] EXCEPT !.users = @ + 1]
           client == [k[c] EXCEPT !.times = @ + 1]
<1>1. b \in Tables /\ k \in Seq(Client) /\ b.table \in Seq(Cells)
  BY DEF Good, Typed, Tables
<1>2. n \in Nat /\ DOMAIN k = 1 .. n /\ Contexts(b) = 1 .. n /\ c \in 1 .. n
  BY <1>1 DEF Good, Served, Contexts
<1>3. b.table[c] \in Cells /\ k[c] \in Client
  BY <1>1, <1>2
<1>4. b.table[c].users = k[c].times /\ b.table[c].values = k[c].values /\ b.table[c].users \in Nat
  BY <1>2, <1>3 DEF Good, Served, Cells
<1>5. /\ cell \in Cells /\ client \in Client
      /\ cell.users = client.times /\ cell.users > 0 /\ cell.values = client.values
      /\ cell.filter = b.table[c].filter /\ cell.values = b.table[c].values
      /\ client.values = k[c].values
  BY <1>3, <1>4 DEF Cells, Client
<1>6. x = [b EXCEPT !.table = [b.table EXCEPT ![c] = cell]]
  BY <1>1, <1>2 DEF Protect, EMPTY_CONTEXT, Tables
<1>7. l = [k EXCEPT ![c] = client]
  BY DEF Protected
<1> HIDE DEF x, l, cell, client
<1>8. /\ [b.table EXCEPT ![c] = cell] \in Seq(Cells)
      /\ Len([b.table EXCEPT ![c] = cell]) = n
      /\ \A j \in 1 .. n : [b.table EXCEPT ![c] = cell][j] = IF j = c THEN cell ELSE b.table[j]
  BY <1>1, <1>2, <1>5, ExceptSeq
<1>9. /\ x \in Tables /\ Len(x.table) = n
      /\ \A j \in 1 .. n : x.table[j] = IF j = c THEN cell ELSE b.table[j]
      /\ x.free = b.free /\ x.current = b.current /\ x.substitution = b.substitution
  BY <1>1, <1>6, <1>8 DEF Tables
<1>10. Contexts(x) = 1 .. n
  BY <1>9 DEF Contexts, Tables
<1>11. /\ l \in Seq(Client) /\ DOMAIN l = 1 .. n
       /\ \A j \in 1 .. n : l[j] = IF j = c THEN client ELSE k[j]
  <2>1. c \in 1 .. Len(k) /\ Len(k) = n
    BY <1>1, <1>2
  <2> QED
    BY <1>1, <1>2, <1>5, <1>7, <2>1, ExceptSeq
<1>12. \A d \in 1 .. n : Open(x, d) <=> Open(b, d)
  BY <1>2, <1>4, <1>5, <1>9, <1>10 DEF Open
<1>13. Typed(x, l)
  BY <1>9, <1>11 DEF Typed
<1>14. Served(x, l)
  BY <1>2, <1>5, <1>9, <1>10, <1>11 DEF Good, Served
<1>15. Free(x)
  BY <1>2, <1>9, <1>10, <1>12 DEF Good, Free
<1>16. Kept(x, l)
  BY <1>2, <1>4, <1>5, <1>9, <1>11 DEF Good, Kept
<1>17. Once(x)
  <2>1. \A d \in 1 .. n : x.table[d].filter = b.table[d].filter
                            /\ x.table[d].values = b.table[d].values
    BY <1>5, <1>9
  <2> QED
    BY <1>2, <1>10, <1>12, <2>1 DEF Good, Once
<1>18. Blank(l)
  BY <1>2, <1>5, <1>11 DEF Good, Blank
<1> QED
  BY <1>13, <1>14, <1>15, <1>16, <1>17, <1>18 DEF Good, x, l

(* The values of a context with clients are kept in the substitution.      *)
LEMMA PreparedGood ==
  ASSUME NEW b, NEW k, Good(b, k), NEW c \in DOMAIN k, k[c].times > 0
  PROVE  Good(Prepared(b, c), k)
<1>1. CASE c \in {EMPTY_CONTEXT, b.current}
  BY <1>1 DEF Prepared
<1>2. CASE c \notin {EMPTY_CONTEXT, b.current}
  <2> DEFINE x == [b EXCEPT !.current = c, !.substitution = b.table[c].values]
  <2>1. Prepared(b, c) = x
    BY <1>2 DEF Prepared
  <2>2. b \in Tables /\ k \in Seq(Client) /\ c \in 1 .. Len(b.table) /\ c \in Contexts(b)
        /\ b.table \in Seq(Cells) /\ Len(b.table) \in Nat /\ b.table[c].values = k[c].values
    BY DEF Good, Typed, Served, Contexts, Tables
  <2>3. b.table[c].values \in Values \cup {<<>>} /\ c \in Nat
    <3>1. b.table[c] \in Cells
      BY <2>2
    <3> QED
      BY <2>2, <3>1 DEF Cells
  <2>4. /\ x \in Tables /\ x.table = b.table /\ x.free = b.free
        /\ x.current = c /\ x.substitution = k[c].values
    BY <2>2, <2>3 DEF Tables
  <2> HIDE DEF x
  <2>5. Contexts(x) = Contexts(b) /\ \A d : Open(x, d) <=> Open(b, d)
    BY <2>4 DEF Contexts, Open
  <2>6. Typed(x, k)
    BY <2>2, <2>4 DEF Typed
  <2>7. Served(x, k)
    BY <2>4, <2>5 DEF Good, Served
  <2>8. Free(x)
    BY <2>4, <2>5 DEF Good, Free
  <2>9. Kept(x, k)
    BY <2>4 DEF Kept
  <2>10. Once(x)
    BY <2>4, <2>5 DEF Good, Once
  <2> QED
    BY <2>1, <2>6, <2>7, <2>8, <2>9, <2>10 DEF Good
<1> QED
  BY <1>1, <1>2

----------------------------------------------------------------------------
(* The clients that OpenFor leaves are those of its parts.                 *)
LEMMA OpenForGood ==
  ASSUME Good(bindings, clients),
         NEW values \in Values, NEW filter \in Filters \cup {NoFilter}, OpenFor(values, filter)
  PROVE  Good(bindings, clients)'
<1> DEFINE b == bindings
           k == clients
           n == NextContext(b)
           l == Opened(b, k, values)
           all == Contexts(WithCell(b, n, EmptyCell))
           same == SameContexts(b, values, filter)
           s == CHOOSE t \in same : TRUE
           After(d) == IF d \in DOMAIN k THEN k[d] ELSE Nobody
<1>1. b \in Tables /\ k \in Seq(Client) /\ DOMAIN k = Contexts(b) /\ b.table \in Seq(Cells)
      /\ Contexts(b) = 1 .. Len(b.table) /\ Len(b.table) \in Nat
  BY DEF Good, Typed, Served, Tables, Contexts
<1>2. n \in 1 .. Len(b.table) + 1 /\ (n \in Contexts(b) => ~Open(b, n)) /\ n # EMPTY_CONTEXT
  BY <1>1, NextContextLemma DEF EMPTY_CONTEXT
<1>3. all = 1 .. (IF n = Len(b.table) + 1 THEN n ELSE Len(b.table))
  <2>1. EmptyCell \in Cells
    BY DEF EmptyCell, Cells
  <2> QED
    BY <1>1, <1>2, <2>1, WithCellLemma DEF Contexts, Tables
<1>4. n \in all /\ DOMAIN k \subseteq all /\ \A d \in all : d # n => d \in DOMAIN k
  BY <1>1, <1>2, <1>3
<1>5. After(n) = Nobody
  <2>1. CASE n \in DOMAIN k
    <3>1. k[n] \in Client /\ b.table[n] \in Cells
      BY <1>1, <2>1
    <3>2. k[n].times = 0
      BY <1>1, <1>2, <2>1, <3>1 DEF Good, Served, Open, Client
    <3>3. k[n].values = <<>>
      BY <2>1, <3>2 DEF Good, Blank
    <3> QED
      BY <2>1, <3>1, <3>2, <3>3 DEF Client, Nobody
  <2> QED
    BY <2>1
<1>6. DOMAIN l = all /\ l[n] = [times |-> 1, values |-> values]
      /\ \A d \in all : d # n => l[d] = k[d]
  BY <1>4 DEF Opened
<1>7. CASE same = {}
  <2> DEFINE o == OpenCell(b, values, filter)
  <2>1. Good(o, l)
    BY <1>7, OpenGood
  <2>2. Contexts(o) = all
    BY <1>6, <2>1 DEF Good, Served
  <2>3. bindings' = o
    BY <1>7 DEF OpenFor, OpenContext
  <2>4. clients' = [[d \in all |-> After(d)] EXCEPT ![n] = [times |-> @.times + 1, values |-> values]]
    BY <1>7, <2>2 DEF OpenFor, OpenContext
  <2>5. clients' = [d \in all |-> IF d = n THEN [times |-> After(n).times + 1, values |-> values]
                                         ELSE After(d)]
    BY <1>4, <2>4
  <2>6. clients' = l
    BY <1>4, <1>5, <2>5 DEF Opened, Nobody
  <2> QED
    BY <2>1, <2>3, <2>6
<1>8. CASE same # {}
  <2> DEFINE o == OpenCell(b, values, NoFilter)
             x == CloseContext(o, n)
             m == Released(l, n)
             y == Protect(x, s)
             p == Protected(m, s)
  <2>1. s \in Contexts(b) /\ Open(b, s) /\ b.table[s].values = values
    BY <1>8 DEF SameContexts, Holds
  <2>2. s \in DOMAIN k /\ k[s] \in Client /\ k[s].times > 0 /\ k[s].values = values /\ s # n
    <3> HIDE DEF s, n
    <3>1. s \in DOMAIN k /\ k[s] \in Client
      BY <1>1, <2>1
    <3>2. b.table[s].users = k[s].times /\ b.table[s].values = k[s].values
      BY <2>1 DEF Good, Served
    <3>3. s # n
      BY <1>2, <2>1
    <3> QED
      BY <2>1, <3>1, <3>2, <3>3 DEF Open
  <2>3. Good(o, l)
    <3>1. SameContexts(b, values, NoFilter) = {}
      BY DEF SameContexts
    <3> QED
      BY <3>1, OpenGood
  <2>4. Good(x, m)
    BY <1>4, <1>6, <2>3, CloseGood
  <2>5. /\ DOMAIN m = all /\ m[n] = Nobody
        /\ \A d \in all : d # n => m[d] = k[d]
    BY <1>4, <1>6 DEF Released, WithoutOne
  <2>6. Good(y, p)
    BY <1>4, <2>2, <2>4, <2>5, ProtectGood
  <2>7. /\ DOMAIN p = all /\ p[n] = Nobody /\ p[s] = [times |-> k[s].times + 1, values |-> values]
        /\ \A d \in all : d \notin {n, s} => p[d] = k[d]
    <3>1. [k[s] EXCEPT !.times = @ + 1] = [times |-> k[s].times + 1, values |-> values]
      BY <2>2 DEF Client
    <3> QED
      BY <1>4, <2>2, <2>5, <3>1 DEF Protected
  <2>8. p = [d \in all |-> p[d]]
    BY <2>7 DEF Protected, Released, Opened
  <2>9. Contexts(y) = all
    BY <2>6, <2>7 DEF Good, Served
  <2>10. x = CloseCell(o, n)
    BY <1>2 DEF CloseContext
  <2>11. bindings' = y
    BY <1>8, <2>10 DEF OpenFor, OpenContext, Share
  <2>12. clients' = [[d \in all |-> After(d)] EXCEPT ![s] = [times |-> @.times + 1, values |-> values]]
    <3>1. Share(b, values, filter, s) = y
      BY <2>10 DEF Share
    <3> QED
      BY <1>8, <2>9, <3>1 DEF OpenFor, OpenContext
  <2>13. clients' = [d \in all |-> IF d = s THEN [times |-> After(s).times + 1, values |-> values]
                                          ELSE After(d)]
    BY <1>4, <2>2, <2>12
  <2>14. \A d \in all : p[d] = IF d = s THEN [times |-> After(s).times + 1, values |-> values]
                                        ELSE After(d)
    <3> HIDE DEF s, n, p, all
    <3> QED
      BY <1>4, <1>5, <2>2, <2>7
  <2>15. clients' = p
    BY <2>8, <2>13, <2>14
  <2> QED
    BY <2>6, <2>11, <2>15
<1> QED
  BY <1>7, <1>8

----------------------------------------------------------------------------
IInv == Good(bindings, clients)

LEMMA InitGood == TableInit => IInv
<1> SUFFICES ASSUME TableInit
             PROVE  IInv
  OBVIOUS
<1>1. /\ NoBindings \in Tables /\ <<>> \in Seq(Client)
      /\ Contexts(NoBindings) = {} /\ DOMAIN <<>> = {} /\ DOMAIN NoBindings.free = {}
      /\ NoBindings.current = EMPTY_CONTEXT
  BY DEF NoBindings, Tables, Contexts, EMPTY_CONTEXT
<1> QED
  BY <1>1 DEF TableInit, IInv, Good, Typed, Served, Free, Kept, Once, Blank

LEMMA NextGood == IInv /\ [TableNext]_tableVars => IInv'
<1> SUFFICES ASSUME IInv, [TableNext]_tableVars
             PROVE  IInv'
  OBVIOUS
<1>1. ASSUME NEW values \in Values, NEW filter \in Filters \cup {NoFilter}, OpenFor(values, filter)
      PROVE  IInv'
  BY <1>1, OpenForGood DEF IInv
<1>2. ASSUME NEW c \in DOMAIN clients, ProtectHeld(c)
      PROVE  IInv'
  <2>1. Good(Protect(bindings, c), Protected(clients, c))
    BY <1>2, ProtectGood DEF IInv, ProtectHeld, Held
  <2> QED
    BY <1>2, <2>1 DEF IInv, ProtectHeld, Protected
<1>3. ASSUME NEW c \in DOMAIN clients, CloseHeld(c)
      PROVE  IInv'
  <2>1. Good(CloseContext(bindings, c), Released(clients, c))
    BY <1>3, CloseGood DEF IInv, CloseHeld, Held
  <2> QED
    BY <1>3, <2>1 DEF IInv, CloseHeld, Released
<1>4. ASSUME NEW c \in DOMAIN clients, InstantiateHeld(c)
      PROVE  IInv'
  <2>1. Good(Prepared(bindings, c), clients)
    BY <1>4, PreparedGood DEF IInv, InstantiateHeld, Held
  <2> QED
    BY <1>4, <2>1 DEF IInv, InstantiateHeld
<1>5. CASE UNCHANGED tableVars
  BY <1>5 DEF tableVars, IInv, Good, Typed, Served, Free, Kept, Once, Blank, Contexts, Open
<1> QED
  BY <1>1, <1>2, <1>3, <1>4, <1>5 DEF TableNext

LEMMA GoodAlways == TableSpec => []IInv
  BY InitGood, NextGood, PTL DEF TableSpec

(* Whatever the clients do, cells and values stay where they belong, in    *)
(* particular the numbers of users, the free cells and the current one.    *)
THEOREM Typing == TableSpec => []TableTypeOK
<1>1. IInv => TableTypeOK
  BY DEF IInv, Good, Typed, Tables, Client, TableTypeOK
<1> QED
  BY <1>1, GoodAlways, PTL

(* A context has as many users as clients, who find in it the values they  *)
(* opened it with, however contexts are shared and their numbers reused.   *)
THEOREM ClientsAreServed == TableSpec => []ClientsServed
<1>1. IInv => ClientsServed
  BY DEF IInv, Good, Served, ClientsServed
<1> QED
  BY <1>1, GoodAlways, PTL

(* The queue of free cells has each cell without users exactly once.       *)
THEOREM FreeCellsExact == TableSpec => []FreeExact
<1>1. IInv => FreeExact
  BY DEF IInv, Good, Free, FreeExact
<1> QED
  BY <1>1, GoodAlways, PTL

(* The substitution kept by instantiate is that of a context with clients. *)
THEOREM CacheIsCurrent == TableSpec => []CacheCurrent
<1>1. IInv => CacheCurrent
  BY DEF IInv, Good, Kept, CacheCurrent, Held
<1> QED
  BY <1>1, GoodAlways, PTL

(* The contexts of a group of tail calls that are equal are one.           *)
THEOREM EqualContextsShared == TableSpec => []SharedOnce
<1>1. IInv => SharedOnce
  BY DEF IInv, Good, Once, SharedOnce
<1> QED
  BY <1>1, GoodAlways, PTL
=============================================================================
