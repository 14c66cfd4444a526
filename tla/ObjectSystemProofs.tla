------------------------- MODULE ObjectSystemProofs -------------------------
(***************************************************************************)
(* Proofs about the object system: what the event loop was asked for is    *)
(* what is waited for, no exit of a child is overlooked, and no event is   *)
(* delivered to a context that is gone, for all numbers of timers,         *)
(* children, files and contexts.                                           *)
(***************************************************************************)
EXTENDS ObjectSystem, ListProofs

----------------------------------------------------------------------------
(* The map of callbacks: in the order of their times, one for a number.    *)
Entries == [at : Nat, id : Nat]
Ordered(map) ==
  \A i, j \in 1 .. Len(map) : i < j => map[i].id # map[j].id /\ map[i].at <= map[j].at

LEMMA DroppedOrdered ==
  ASSUME NEW map \in Seq(Entries), NEW drop, Ordered(map)
  PROVE  Ordered(Dropped(map, drop))
<1>1. PICK rest : rest = Dropped(map, drop)
  OBVIOUS
<1>2. Sifted(map, drop, rest, Len(map))
  BY <1>1, DroppedLemma
<1>3. \A a, b \in 1 .. Len(rest) : a < b => rest[a].id # rest[b].id /\ rest[a].at <= rest[b].at
  <2> TAKE a, b \in 1 .. Len(rest)
  <2> HAVE a < b
  <2>1. PICK i, j \in 1 .. Len(map) : i < j /\ rest[a] = map[i] /\ rest[b] = map[j]
    BY <1>2 DEF Sifted
  <2> QED
    BY <2>1 DEF Ordered
<1> QED
  BY <1>1, <1>3 DEF Ordered

LEMMA EntryLemma == \A e \in Entries : e.at \in Nat /\ e.id \in Nat
BY DEF Entries

(* The entries that are due are the first ones.                            *)
LEMMA DueFirst ==
  ASSUME NEW map \in Seq(Entries), Ordered(map), NEW at \in Nat
  PROVE  LET k == Cardinality({i \in DOMAIN map : map[i].at <= at})
         IN  /\ k \in 0 .. Len(map)
             /\ \A i \in 1 .. Len(map) : map[i].at <= at <=> i <= k
<1>1. PICK n \in Nat : n = Len(map) /\ DOMAIN map = 1 .. n
  BY LenProperties
<1>2. \A i \in 1 .. n : map[i].at \in Nat
  BY <1>1, ToSetLemma, EntryLemma
<1> DEFINE Due == {i \in DOMAIN map : map[i].at <= at}
           Late == {i \in 1 .. n + 1 : i = n + 1 \/ map[i].at > at}
<1>3. PICK m \in Late : \A k \in Late : m <= k
  <2>1. Late \in SUBSET Nat /\ n + 1 \in Late
    OBVIOUS
  <2> HIDE DEF Late
  <2> QED
    BY <2>1, LeastExists
<1>4. m \in 1 .. n + 1 /\ m \in Int /\ 1 \in Int /\ m - 1 \in Int
  OBVIOUS
<1>5. \A i \in 1 .. n : map[i].at <= at <=> i <= m - 1
  <2> TAKE i \in 1 .. n
  <2>1. CASE i < m
    <3>1. i \notin Late /\ i # n + 1 /\ i \in 1 .. n + 1
      BY <1>3, <1>4, <2>1
    <3>2. ~(map[i].at > at)
      BY <3>1
    <3> QED
      BY <1>2, <1>4, <2>1, <3>2
  <2>2. CASE i = m
    <3>1. map[m].at > at
      BY <1>4, <2>2
    <3> QED
      BY <1>2, <1>4, <2>2, <3>1
  <2>3. CASE m < i
    <3>1. m \in 1 .. n /\ map[m].at > at
      BY <1>4, <2>3
    <3>2. map[m].at <= map[i].at
      BY <1>1, <2>3, <3>1 DEF Ordered
    <3> QED
      BY <1>2, <1>4, <2>3, <3>1, <3>2
  <2> QED
    BY <1>4, <2>1, <2>2, <2>3
<1>6. Due = 1 .. m - 1
  BY <1>1, <1>4, <1>5
<1>7. Cardinality(Due) = m - 1
  <2>1. Cardinality(1 .. m - 1) = IF 1 > m - 1 THEN 0 ELSE m - 1 - 1 + 1
    BY <1>4, FS_Interval
  <2> HIDE DEF Due
  <2> QED
    BY <1>4, <1>6, <2>1
<1> HIDE DEF Due
<1>8. Cardinality(Due) \in 0 .. Len(map)
      /\ \A i \in 1 .. Len(map) : map[i].at <= at <=> i <= Cardinality(Due)
  BY <1>1, <1>4, <1>5, <1>7
<1> QED
  BY <1>8 DEF Due

LEMMA RequestedLemma ==
  ASSUME NEW map \in Seq(Entries), Ordered(map), NEW at \in Nat, NEW id \in Nat,
         \A e \in ToSet(map) : e.id # id
  PROVE  /\ Requested(map, at, id) \in Seq(Entries)
         /\ Ordered(Requested(map, at, id))
         /\ ToSet(Requested(map, at, id)) = ToSet(map) \cup {[at |-> at, id |-> id]}
<1>1. PICK n \in Nat : n = Len(map)
  BY LenProperties
<1>2. /\ \A i \in 1 .. n : map[i] \in Entries /\ map[i].at \in Nat /\ map[i].id # id
      /\ ToSet(map) = {map[i] : i \in 1 .. n}
  <2>1. (\A i \in 1 .. n : map[i] \in Entries) /\ ToSet(map) = {map[i] : i \in 1 .. n}
    BY <1>1, ToSetLemma
  <2> QED
    BY <2>1, EntryLemma
<1>3. PICK k : k = Cardinality({i \in DOMAIN map : map[i].at <= at})
  OBVIOUS
<1>4. k \in 0 .. n /\ \A i \in 1 .. n : map[i].at <= at <=> i <= k
  BY <1>1, <1>3, DueFirst
<1>5. PICK e : e = [at |-> at, id |-> id]
  OBVIOUS
<1>6. e \in Entries /\ e.at = at /\ e.id = id
  BY <1>5 DEF Entries
<1>7. PICK new : new = InsertAt(map, k + 1, e)
  OBVIOUS
<1>8. new = Requested(map, at, id)
  BY <1>3, <1>5, <1>7 DEF Requested
<1>9. /\ new \in Seq(Entries) /\ Len(new) = n + 1
      /\ \A j \in 1 .. n + 1 :
           new[j] = IF j < k + 1 THEN map[j] ELSE IF j = k + 1 THEN e ELSE map[j - 1]
  <2>1. PICK i : i = k + 1
    OBVIOUS
  <2>2. i \in 1 .. Len(map) + 1
    BY <1>1, <1>4, <2>1
  <2>3. /\ InsertAt(map, i, e) \in Seq(Entries)
        /\ Len(InsertAt(map, i, e)) = Len(map) + 1
        /\ \A j \in 1 .. Len(map) + 1 :
             InsertAt(map, i, e)[j] = IF j < i THEN map[j] ELSE IF j = i THEN e ELSE map[j - 1]
    BY <1>6, <2>2, InsertAtLemma
  <2> QED
    BY <1>1, <1>7, <2>1, <2>3
<1>10. /\ \A j \in 1 .. k : new[j] = map[j] /\ j \in 1 .. n
       /\ new[k + 1] = e
       /\ \A j \in k + 2 .. n + 1 : new[j] = map[j - 1] /\ j - 1 \in 1 .. n /\ j - 1 > k
  <2>1. \A j \in 1 .. k : j < k + 1 /\ j \in 1 .. n + 1 /\ j \in 1 .. n
    BY <1>1, <1>4
  <2>2. k + 1 \in 1 .. n + 1 /\ ~(k + 1 < k + 1)
    BY <1>1, <1>4
  <2>3. \A j \in k + 2 .. n + 1 :
          j \in 1 .. n + 1 /\ ~(j < k + 1) /\ j # k + 1 /\ j - 1 \in 1 .. n /\ j - 1 > k
    BY <1>1, <1>4
  <2> QED
    BY <1>9, <2>1, <2>2, <2>3
<1>11. \A j \in 1 .. n + 1 : j \in 1 .. k \/ j = k + 1 \/ j \in k + 2 .. n + 1
  BY <1>1, <1>4
<1>12. \A i, j \in 1 .. n + 1 : i < j => new[i].id # new[j].id /\ new[i].at <= new[j].at
  <2> TAKE i, j \in 1 .. n + 1
  <2> HAVE i < j
  <2>1. CASE j \in 1 .. k
    <3>1. i \in 1 .. k
      BY <1>4, <2>1
    <3> QED
      BY <1>1, <1>10, <2>1, <3>1 DEF Ordered
  <2>2. CASE j = k + 1
    <3>1. i \in 1 .. k /\ i <= k
      BY <1>4, <2>2
    <3> QED
      BY <1>2, <1>4, <1>6, <1>10, <2>2, <3>1
  <2>3. CASE j \in k + 2 .. n + 1 /\ i \in 1 .. k
    <3>1. i < j - 1
      BY <1>4, <2>3
    <3> QED
      BY <1>1, <1>10, <2>3, <3>1 DEF Ordered
  <2>4. CASE j \in k + 2 .. n + 1 /\ i = k + 1
    <3>1. ~(map[j - 1].at <= at) /\ map[j - 1].at \in Nat /\ map[j - 1].id # id
      BY <1>2, <1>4, <1>10, <2>4
    <3> QED
      BY <1>6, <1>10, <2>4, <3>1, SMTT(30)
  <2>5. CASE j \in k + 2 .. n + 1 /\ i \in k + 2 .. n + 1
    <3>1. i - 1 < j - 1
      BY <1>4, <2>5
    <3> QED
      BY <1>1, <1>10, <2>5, <3>1 DEF Ordered
  <2> QED
    BY <1>11, <2>1, <2>2, <2>3, <2>4, <2>5
<1>13. ToSet(new) = ToSet(map) \cup {e}
  <2>1. ToSet(new) = {new[j] : j \in 1 .. n + 1}
    BY <1>9, ToSetLemma
  <2>2. \A j \in 1 .. n + 1 : new[j] \in ToSet(map) \cup {e}
    BY <1>2, <1>10, <1>11
  <2>3. \A i \in 1 .. n : \E j \in 1 .. n + 1 : new[j] = map[i]
    <3> TAKE i \in 1 .. n
    <3>1. CASE i <= k
      <4>1. i \in 1 .. k /\ i \in 1 .. n + 1
        BY <1>1, <1>4, <3>1
      <4> QED
        BY <1>10, <4>1
    <3>2. CASE ~(i <= k)
      <4>1. i + 1 \in k + 2 .. n + 1 /\ i + 1 \in 1 .. n + 1 /\ (i + 1) - 1 = i
        BY <1>1, <1>4, <3>2
      <4> QED
        BY <1>10, <4>1
    <3> QED
      BY <3>1, <3>2
  <2>4. k + 1 \in 1 .. n + 1
    BY <1>1, <1>4
  <2> QED
    BY <1>2, <1>10, <2>1, <2>2, <2>3, <2>4
<1> QED
  BY <1>5, <1>8, <1>9, <1>12, <1>13 DEF Ordered

LEMMA TakenOut ==
  ASSUME NEW map \in Seq(Entries), Ordered(map), NEW i \in 1 .. Len(map)
  PROVE  /\ RemoveAt(map, i) \in Seq(Entries)
         /\ Ordered(RemoveAt(map, i))
         /\ ToSet(RemoveAt(map, i)) = ToSet(map) \ {map[i]}
<1>1. PICK n \in Nat : n = Len(map)
  BY LenProperties
<1>2. /\ \A j \in 1 .. n : map[j] \in Entries
      /\ ToSet(map) = {map[j] : j \in 1 .. n}
  BY <1>1, ToSetLemma
<1>3. PICK new : new = RemoveAt(map, i)
  OBVIOUS
<1>4. /\ new \in Seq(Entries) /\ Len(new) = n - 1
      /\ \A j \in 1 .. n - 1 : new[j] = IF j < i THEN map[j] ELSE map[j + 1]
  BY <1>1, <1>3, RemoveAtLemma
<1>5. \A j \in 1 .. n - 1 : \E k \in 1 .. n :
        new[j] = map[k] /\ k # i /\ (j < i => k = j) /\ (~(j < i) => k = j + 1)
  <2> TAKE j \in 1 .. n - 1
  <2>1. CASE j < i
    <3>1. j \in 1 .. n /\ j # i
      BY <1>1, <2>1
    <3> QED
      BY <1>4, <2>1, <3>1
  <2>2. CASE ~(j < i)
    <3>1. j + 1 \in 1 .. n /\ j + 1 # i
      BY <1>1, <2>2
    <3> QED
      BY <1>4, <2>2, <3>1
  <2> QED
    BY <2>1, <2>2
<1>6. \A a, b \in 1 .. n - 1 : a < b => new[a].id # new[b].id /\ new[a].at <= new[b].at
  <2> TAKE a, b \in 1 .. n - 1
  <2> HAVE a < b
  <2>1. PICK k \in 1 .. n : new[a] = map[k] /\ (a < i => k = a) /\ (~(a < i) => k = a + 1)
    BY <1>5
  <2>2. PICK l \in 1 .. n : new[b] = map[l] /\ (b < i => l = b) /\ (~(b < i) => l = b + 1)
    BY <1>5
  <2>3. k < l
    BY <1>1, <2>1, <2>2
  <2> QED
    BY <1>1, <2>1, <2>2, <2>3 DEF Ordered
<1>7. \A j \in 1 .. n : j # i => \E k \in 1 .. n - 1 : new[k] = map[j]
  <2> TAKE j \in 1 .. n
  <2> HAVE j # i
  <2>1. CASE j < i
    <3>1. j \in 1 .. n - 1
      BY <1>1, <2>1
    <3> QED
      BY <1>4, <2>1, <3>1
  <2>2. CASE j > i
    <3>1. j - 1 \in 1 .. n - 1 /\ (j - 1) + 1 = j /\ ~(j - 1 < i)
      BY <1>1, <2>2
    <3> QED
      BY <1>4, <3>1
  <2> QED
    BY <1>1, <2>1, <2>2
<1>8. \A j \in 1 .. n : j # i => map[j] # map[i]
  <2> TAKE j \in 1 .. n
  <2> HAVE j # i
  <2>1. j < i \/ i < j
    BY <1>1
  <2> QED
    BY <1>1, <2>1 DEF Ordered
<1>9. ToSet(new) = ToSet(map) \ {map[i]}
  <2>1. ToSet(new) = {new[j] : j \in 1 .. n - 1}
    BY <1>4, ToSetLemma
  <2>2. i \in 1 .. n
    BY <1>1
  <2>3. \A x \in ToSet(new) : x \in ToSet(map) \ {map[i]}
    BY <1>2, <1>5, <1>8, <2>1
  <2>4. \A x \in ToSet(map) \ {map[i]} : x \in ToSet(new)
    BY <1>2, <1>7, <2>1
  <2> QED
    BY <2>3, <2>4
<1> QED
  BY <1>3, <1>4, <1>6, <1>9 DEF Ordered

LEMMA CancelledLemma ==
  ASSUME NEW map \in Seq(Entries), Ordered(map), NEW at, NEW id
  PROVE  /\ Cancelled(map, at, id) \in Seq(Entries)
         /\ Ordered(Cancelled(map, at, id))
         /\ ToSet(Cancelled(map, at, id)) = ToSet(map) \ {[at |-> at, id |-> id]}
<1> DEFINE e == [at |-> at, id |-> id]
           I == {i \in 1 .. Len(map) : map[i] = e}
<1>1. Cancelled(map, at, id) = LET i == IF I # {} THEN Min(I) ELSE 0
                               IN  IF i = 0 THEN map ELSE RemoveAt(map, i)
  BY DEF Cancelled, SelectInSeq
<1>2. ToSet(map) = {map[i] : i \in 1 .. Len(map)}
  BY ToSetLemma
<1>3. CASE I = {}
  <2>1. Cancelled(map, at, id) = map
    BY <1>1, <1>3
  <2>2. e \notin ToSet(map)
    BY <1>2, <1>3
  <2> QED
    BY <2>1, <2>2
<1>4. CASE I # {}
  <2>1. I \in SUBSET Nat
    OBVIOUS
  <2>2. PICK i : i = Min(I)
    OBVIOUS
  <2>3. i \in I
    <3> HIDE DEF I
    <3> QED
      BY <1>4, <2>1, <2>2, MinLemma
  <2>4. i \in 1 .. Len(map) /\ map[i] = e /\ i # 0
    BY <2>3
  <2>5. Cancelled(map, at, id) = RemoveAt(map, i)
    <3> HIDE DEF I
    <3> QED
      BY <1>1, <1>4, <2>2, <2>4
  <2> QED
    BY <2>4, <2>5, TakenOut
<1> QED
  BY <1>3, <1>4

LEMMA TailLemma ==
  ASSUME NEW map \in Seq(Entries), Ordered(map), map # <<>>
  PROVE  /\ Head(map) \in Entries /\ Head(map) \in ToSet(map)
         /\ Tail(map) \in Seq(Entries) /\ Ordered(Tail(map))
         /\ ToSet(Tail(map)) = ToSet(map) \ {Head(map)}
         /\ \A e \in ToSet(Tail(map)) : e.id # Head(map).id
<1>1. PICK n \in Nat : n = Len(map) /\ n # 0
  BY EmptySeq, LenProperties
<1>2. PICK new : new = Tail(map)
  OBVIOUS
<1>3. /\ Head(map) = map[1] /\ Head(map) \in Entries /\ new \in Seq(Entries) /\ Len(new) = n - 1
      /\ \A i \in 1 .. n - 1 : new[i] = map[i + 1] /\ i + 1 \in 1 .. n
  BY <1>1, <1>2, HeadTailProperties
<1>4. /\ ToSet(map) = {map[i] : i \in 1 .. n}
      /\ ToSet(new) = {new[i] : i \in 1 .. n - 1}
  BY <1>1, <1>3, ToSetLemma
<1>5. 1 \in 1 .. n /\ \A i \in 1 .. n : i # 1 => 1 < i /\ i - 1 \in 1 .. n - 1 /\ (i - 1) + 1 = i
  BY <1>1
<1>6. \A i \in 1 .. n : i # 1 => map[i].id # map[1].id /\ map[i] # map[1]
  BY <1>1, <1>5 DEF Ordered
<1>7. \A i, j \in 1 .. n - 1 : i < j => new[i].id # new[j].id /\ new[i].at <= new[j].at
  <2> TAKE i, j \in 1 .. n - 1
  <2> HAVE i < j
  <2>1. i + 1 < j + 1
    BY <1>1
  <2> QED
    BY <1>1, <1>3, <2>1 DEF Ordered
<1>8. \A i \in 1 .. n - 1 : new[i].id # map[1].id /\ new[i] # map[1] /\ new[i] \in ToSet(map)
  <2> TAKE i \in 1 .. n - 1
  <2>1. i + 1 # 1 /\ i + 1 \in 1 .. n
    BY <1>1
  <2> QED
    BY <1>3, <1>4, <1>6, <2>1
<1>9. \A x \in ToSet(map) \ {map[1]} : x \in ToSet(new)
  <2> TAKE x \in ToSet(map) \ {map[1]}
  <2>1. PICK i \in 1 .. n : x = map[i] /\ i # 1
    BY <1>4
  <2> QED
    BY <1>3, <1>4, <1>5, <2>1
<1>10. ToSet(new) = ToSet(map) \ {map[1]}
  BY <1>4, <1>8, <1>9
<1>11. Ordered(new)
  BY <1>3, <1>7 DEF Ordered
<1>12. \A e \in ToSet(new) : e.id # map[1].id
  BY <1>4, <1>8
<1> QED
  BY <1>2, <1>3, <1>4, <1>5, <1>10, <1>11, <1>12

----------------------------------------------------------------------------
(* The lists of children and of files.                                     *)
LEMMA WithoutRequestLemma ==
  ASSUME NEW E, NEW s \in Seq(E), IsInjective(s), NEW i \in 1 .. Len(s)
  PROVE  /\ WithoutRequest(s, i) \in Seq(E) /\ IsInjective(WithoutRequest(s, i))
         /\ Len(WithoutRequest(s, i)) = Len(s) - 1
         /\ ToSet(WithoutRequest(s, i)) = ToSet(s) \ {s[i]}
         /\ \A j \in 1 .. Len(s) - 1 : j # i => WithoutRequest(s, i)[j] = s[j]
<1>1. PICK n \in Nat : n = Len(s) /\ n # 0
  BY LenProperties
<1>2. n \in 1 .. n /\ i \in 1 .. n /\ \A j \in 1 .. n : s[j] \in E
  BY <1>1, ToSetLemma
<1>3. PICK u : u = [s EXCEPT ![i] = s[n]]
  OBVIOUS
<1>4. /\ u \in Seq(E) /\ Len(u) = n
      /\ \A j \in 1 .. n : u[j] = (IF j = i THEN s[n] ELSE s[j]) /\ u[j] \in E
  BY <1>1, <1>2, <1>3, ExceptSeq
<1>5. PICK t : t = SubSeq(u, 1, n - 1)
  OBVIOUS
<1>6. WithoutRequest(s, i) = t
  BY <1>1, <1>3, <1>5 DEF WithoutRequest
<1>7. /\ t \in Seq(E) /\ Len(t) = n - 1
      /\ \A j \in 1 .. n - 1 : t[j] = (IF j = i THEN s[n] ELSE s[j])
  <2>1. \A j \in 1 .. n - 1 : u[j] \in E /\ j \in 1 .. n
    BY <1>1, <1>4
  <2>2. 1 \in Int /\ n - 1 \in Int
    BY <1>1
  <2>3. /\ t \in Seq(E) /\ Len(t) = IF 1 <= n - 1 THEN (n - 1) - 1 + 1 ELSE 0
        /\ \A j \in 1 .. (n - 1) - 1 + 1 : t[j] = u[1 + j - 1]
    BY <1>5, <2>1, <2>2, SubSeqProperties
  <2>4. Len(t) = n - 1 /\ \A j \in 1 .. n - 1 : t[j] = u[j]
    BY <1>1, <2>3
  <2> QED
    BY <1>4, <2>1, <2>3, <2>4
<1>8. ToSet(s) = {s[j] : j \in 1 .. n} /\ ToSet(t) = {t[j] : j \in 1 .. n - 1}
  BY <1>1, <1>7, ToSetLemma
<1>9. \A j, k \in 1 .. n : s[j] = s[k] => j = k
  BY <1>1, InjectiveLemma
<1>10. \A j \in 1 .. n - 1 : j \in 1 .. n /\ j # n
  BY <1>1
<1>11. \A j \in 1 .. n : j # n => j \in 1 .. n - 1
  BY <1>1
<1>12. \A j, k \in 1 .. n - 1 : t[j] = t[k] => j = k
  BY <1>2, <1>7, <1>9, <1>10
<1>13. IsInjective(t)
  BY <1>7, <1>12, InjectiveLemma
<1>14. \A x \in ToSet(t) : x \in ToSet(s) \ {s[i]}
  <2> TAKE x \in ToSet(t)
  <2>1. PICK j \in 1 .. n - 1 : x = IF j = i THEN s[n] ELSE s[j]
    BY <1>7, <1>8
  <2> QED
    BY <1>2, <1>8, <1>9, <1>10, <2>1
<1>15. \A x \in ToSet(s) \ {s[i]} : x \in ToSet(t)
  <2> TAKE x \in ToSet(s) \ {s[i]}
  <2>1. PICK j \in 1 .. n : x = s[j] /\ j # i
    BY <1>8
  <2>2. CASE j = n
    <3>1. i \in 1 .. n - 1 /\ t[i] = s[n]
      BY <1>2, <1>7, <1>11, <2>1, <2>2
    <3> QED
      BY <1>8, <2>1, <2>2, <3>1
  <2>3. CASE j # n
    BY <1>7, <1>8, <1>11, <2>1, <2>3
  <2> QED
    BY <2>2, <2>3
<1>16. ToSet(t) = ToSet(s) \ {s[i]}
  BY <1>14, <1>15
<1> QED
  BY <1>1, <1>6, <1>7, <1>13, <1>16

LEMMA NotRequestedLemma ==
  ASSUME NEW E, NEW s \in Seq(E), IsInjective(s), NEW pid
  PROVE  /\ NotRequested(s, pid) \in Seq(E) /\ IsInjective(NotRequested(s, pid))
         /\ ToSet(NotRequested(s, pid)) = ToSet(s) \ {pid}
<1> DEFINE I == {i \in 1 .. Len(s) : s[i] = pid}
<1>1. NotRequested(s, pid) = LET i == IF I # {} THEN Min(I) ELSE 0
                             IN  IF i = 0 THEN s ELSE WithoutRequest(s, i)
  BY DEF NotRequested, SelectInSeq
<1>2. ToSet(s) = {s[i] : i \in 1 .. Len(s)}
  BY ToSetLemma
<1>3. CASE I = {}
  <2>1. NotRequested(s, pid) = s
    BY <1>1, <1>3
  <2>2. pid \notin ToSet(s)
    BY <1>2, <1>3
  <2> QED
    BY <2>1, <2>2
<1>4. CASE I # {}
  <2>1. I \in SUBSET Nat
    OBVIOUS
  <2>2. PICK i : i = Min(I)
    OBVIOUS
  <2>3. i \in I
    <3> HIDE DEF I
    <3> QED
      BY <1>4, <2>1, <2>2, MinLemma
  <2>4. i \in 1 .. Len(s) /\ s[i] = pid /\ i # 0
    BY <2>3
  <2>5. NotRequested(s, pid) = WithoutRequest(s, i)
    <3> HIDE DEF I
    <3> QED
      BY <1>1, <1>4, <2>2, <2>4
  <2> QED
    BY <2>4, <2>5, WithoutRequestLemma
<1> QED
  BY <1>3, <1>4

----------------------------------------------------------------------------
(* The inductive invariant.                                                *)

(* The thread by itself.                                                   *)
LoopType == [block : BOOLEAN, normal : BOOLEAN, status : SUBSET Statuses, now : 0 .. MaxTime,
             later : BOOLEAN, ufds : Seq([fd : Fds, revents : SUBSET Events]), child : Nat \ {0}]
ThreadOK ==
  /\ pc \in Places /\ loop \in LoopType
  /\ exitedFlag \in BOOLEAN
  /\ sigchld \in [installed : BOOLEAN, blocked : BOOLEAN, pending : BOOLEAN]
  /\ interrupts \in [pending : BOOLEAN, left : Nat] /\ time \in 1 .. MaxTime
  /\ context \in 1 .. MaxContexts

(* The timers and the map of callbacks.                                    *)
TimerType == [at : Nat, period : Periods \cup {0}, context : 0 .. MaxContexts]
CallbacksOf(timers) ==
  {[at |-> timers[id].at, id |-> id] : id \in {k \in DOMAIN timers : timers[k].at # Stopped}}
TimersTyped(timers, c) ==
  /\ DOMAIN timers \subseteq 0 .. MaxTimers - 1
  /\ \A id \in DOMAIN timers :
       timers[id] \in TimerType /\ (timers[id].at # Stopped => timers[id].context = c)
Agree(map, entries) == map \in Seq(Entries) /\ Ordered(map) /\ ToSet(map) = entries
TimersOK == TimersTyped(timerMap, context) /\ Agree(callbackMap, CallbacksOf(timerMap))

(* The children and the list of the exits asked for.  waitForExit has      *)
(* asked for one it does not wait for yet.                                 *)
ChildType == [ioSocket : Fds, errSocket : Fds, waitContext : 0 .. MaxContexts]
ChildrenOK ==
  /\ DOMAIN childProcesses \subseteq Pids
  /\ \A pid \in DOMAIN childProcesses : childProcesses[pid] \in ChildType /\ proc[pid] # "none"
  /\ proc \in [Pids -> {"none", "running", "zombie"}]
  /\ childRequests \in Seq(Pids) /\ IsInjective(childRequests)
  /\ ToSet(childRequests) = Waiting \cup (IF pc = "waitpid" THEN {waiter} ELSE {})
  /\ pc = "waitpid" => MayWait(waiter)
  /\ \A pid \in Waiting : childProcesses[pid].waitContext = context

(* The signal.  While it is blocked, a child that was looked at before it  *)
(* exited has left it pending.                                             *)
ExitsOK ==
  /\ childRequests # <<>> => sigchld.installed
  /\ pc \in {"poll", "fds", "children"} => sigchld.blocked
  /\ pc = "children" =>
       \A i \in 1 .. Len(childRequests) :
         i < loop.child /\ proc[childRequests[i]] = "zombie" => sigchld.pending
  /\ ExitNotLost

(* The sockets and the list of files.  A socket waits for one thing, but   *)
(* for a stream, which may wait to read and to write.                      *)
SocketType == [state : SUBSET Bits, readOnly : BOOLEAN, seenEOF : BOOLEAN,
               context : 0 .. MaxContexts, unsent : 0 .. MaxRoom + 1]
ChannelType == [kind : Kinds, data : BOOLEAN, peer : {"open", "eof", "gone"},
                broken : BOOLEAN, room : 0 .. MaxRoom]
States == {st \in SUBSET Bits :
  \/ st \subseteq {"WAITING_TO_READ", "WAITING_TO_WRITE"}
  \/ st \in {{"WAITING_TO_CONNECT"}, {"LISTENING"}, {"WAITING_TO_ACCEPT"}}}
Wishes(state) ==
  {w \in Want : \/ w = "READ" /\ state \cap {"WAITING_TO_READ", "WAITING_TO_ACCEPT"} # {}
                \/ w = "WRITE" /\ state \cap {"WAITING_TO_WRITE", "WAITING_TO_CONNECT"} # {}}
SocketGood(s, c) ==
  /\ s \in SocketType /\ s.state \in States
  /\ s.state \cap {"WAITING_TO_READ", "WAITING_TO_ACCEPT", "WAITING_TO_WRITE"} # {} => s.context = c
(* A descriptor is a socket, watched for what it waits for, or free.       *)
SocketAt(fd, sockets, channels, watched, c) ==
  IF fd \in DOMAIN sockets
  THEN channels[fd].kind # "free" /\ SocketGood(sockets[fd], c) /\ watched[fd] = Wishes(sockets[fd].state)
  ELSE channels[fd].kind = "free" /\ watched[fd] = {}
SocketsOK ==
  /\ chan \in [Fds -> ChannelType] /\ flags \in [Fds -> SUBSET Want]
  /\ DOMAIN activeSockets \subseteq Fds
  /\ \A fd \in Fds : SocketAt(fd, activeSockets, chan, flags, context)
FilesOK ==
  active \in Seq(Fds) /\ IsInjective(active) /\ ToSet(active) = {fd \in Fds : flags[fd] # {}}

(* The external objects.                                                   *)
ObjectsOK ==
  externalObjects =
    {Timer(id) : id \in DOMAIN timerMap} \cup {Process(pid) : pid \in DOMAIN childProcesses}
    \cup {Socket(fd) : fd \in {f \in DOMAIN activeSockets :
                                 "WAITING_TO_CONNECT" \notin activeSockets[f].state}}

Inv == /\ ThreadOK /\ TimersOK /\ ChildrenOK /\ ExitsOK
       /\ SocketsOK /\ FilesOK /\ ObjectsOK

----------------------------------------------------------------------------
(* The thread by itself.                                                   *)
LEMMA LoopFields ==
  ASSUME NEW l \in LoopType
  PROVE  /\ l.block \in BOOLEAN /\ l.normal \in BOOLEAN /\ l.status \in SUBSET Statuses
         /\ l.now \in 0 .. MaxTime /\ l.later \in BOOLEAN
         /\ l.ufds \in Seq([fd : Fds, revents : SUBSET Events]) /\ l.child \in Nat \ {0}
BY DEF LoopType

LEMMA LocalsType ==
  /\ Locals \in LoopType
  /\ \A b \in BOOLEAN : [Locals EXCEPT !.block = b, !.normal = b] \in LoopType
<1>1. <<>> \in Seq([fd : Fds, revents : SUBSET Events])
  BY EmptySeq
<1>2. 0 \in 0 .. MaxTime /\ 1 \in Nat \ {0} /\ {} \in SUBSET Statuses
  BY ThreadAssumption
<1> QED
  BY <1>1, <1>2 DEF Locals, LoopType

LEMMA ThreadInitial == Init => ThreadOK
<1> SUFFICES ASSUME Init PROVE ThreadOK
  OBVIOUS
<1>1. loop \in LoopType
  BY LocalsType DEF Init, ThreadInit
<1>2. pc \in Places /\ exitedFlag \in BOOLEAN
  BY DEF Init, ThreadInit, Places
<1>3. sigchld \in [installed : BOOLEAN, blocked : BOOLEAN, pending : BOOLEAN]
  BY DEF Init, ThreadInit
<1>4. interrupts \in [pending : BOOLEAN, left : Nat]
  BY ThreadAssumption DEF Init, ThreadInit
<1>5. time \in 1 .. MaxTime
  BY ThreadAssumption DEF Init, ThreadInit
<1>6. context \in 1 .. MaxContexts
  BY ObjectAssumption DEF Init, ContextInit
<1> QED
  BY <1>1, <1>2, <1>3, <1>4, <1>5, <1>6 DEF ThreadOK

(* Of the messages, only a request for an exit touches the thread.         *)
LEMMA ThreadMessage ==
  ASSUME ThreadOK, SendMessage
  PROVE  ThreadOK'
<1>1. CASE TimerMessage
  <2>1. UNCHANGED <<pc, loop, exitedFlag, sigchld, interrupts, time, context>>
    BY <1>1 DEF TimerMessage, OfTimer, Send
  <2> QED
    BY <2>1 DEF ThreadOK
<1>2. CASE SocketMessage
  <2>1. UNCHANGED <<pc, loop, exitedFlag, sigchld, interrupts, time, context>>
    BY <1>2 DEF SocketMessage, OfSocket, Send
  <2> QED
    BY <2>1 DEF ThreadOK
<1>3. CASE CreateProcessMessage \/ SignalMessage
  <2>1. UNCHANGED <<pc, loop, exitedFlag, sigchld, interrupts, time, context>>
    BY <1>3 DEF CreateProcessMessage, SignalMessage, OfProcess, Send
  <2> QED
    BY <2>1 DEF ThreadOK
<1>4. CASE WaitMessage
  <2>1. /\ UNCHANGED <<loop, exitedFlag, interrupts, time, context>>
        /\ pc' = "waitpid" /\ sigchld' = [sigchld EXCEPT !.installed = TRUE]
    BY <1>4 DEF WaitMessage, OfProcess, Send, RequestExit, RequestChildExitCallback
  <2> QED
    BY <2>1 DEF ThreadOK, Places
<1> QED
  BY <1>1, <1>2, <1>3, <1>4 DEF SendMessage

(* The event loop.                                                         *)
LEMMA PolledFiles ==
  ASSUME NEW l \in LoopType, NEW revents \in [Fds -> SUBSET Events]
  PROVE  [i \in DOMAIN l.ufds |-> [fd |-> l.ufds[i].fd, revents |-> revents[l.ufds[i].fd]]]
           \in Seq([fd : Fds, revents : SUBSET Events])
<1> DEFINE Polled1 == [fd : Fds, revents : SUBSET Events]
<1>1. PICK u : u = l.ufds
  OBVIOUS
<1>2. u \in Seq(Polled1)
  BY <1>1, LoopFields
<1>3. PICK n \in Nat : n = Len(u) /\ DOMAIN u = 1 .. n /\ \A i \in 1 .. n : u[i] \in Polled1
  BY <1>2, ToSetLemma
<1>4. \A i \in 1 .. n : [fd |-> u[i].fd, revents |-> revents[u[i].fd]] \in Polled1
  BY <1>3
<1>5. [i \in 1 .. n |-> [fd |-> u[i].fd, revents |-> revents[u[i].fd]]] \in Seq(Polled1)
  BY <1>3, <1>4, IsASeq
<1> QED
  BY <1>1, <1>3, <1>5

LEMMA CollectedFiles ==
  ASSUME active \in Seq(Fds)
  PROVE  [i \in DOMAIN active |-> [fd |-> active[i], revents |-> {}]]
           \in Seq([fd : Fds, revents : SUBSET Events])
<1> DEFINE Polled1 == [fd : Fds, revents : SUBSET Events]
<1>1. PICK n \in Nat : n = Len(active) /\ DOMAIN active = 1 .. n /\ \A i \in 1 .. n : active[i] \in Fds
  BY LenProperties
<1>2. \A i \in 1 .. n : [fd |-> active[i], revents |-> {}] \in Polled1
  BY <1>1
<1>3. [i \in 1 .. n |-> [fd |-> active[i], revents |-> {}]] \in Seq(Polled1)
  BY <1>1, <1>2, IsASeq
<1> QED
  BY <1>1, <1>3

LEMMA ReventsType ==
  Revents \in [Fds -> SUBSET Events]
BY DEF Revents, Events

LEMMA UnblockType ==
  ASSUME ThreadOK, UnblockSigchld
  PROVE  exitedFlag' \in BOOLEAN /\ sigchld' \in [installed : BOOLEAN, blocked : BOOLEAN, pending : BOOLEAN]
BY DEF ThreadOK, UnblockSigchld

LEMMA SendType ==
  ASSUME ThreadOK, SendSigchld
  PROVE  exitedFlag' \in BOOLEAN /\ sigchld' \in [installed : BOOLEAN, blocked : BOOLEAN, pending : BOOLEAN]
BY DEF ThreadOK, SendSigchld

LEMMA NothingPendingType ==
  ASSUME NEW s \in SUBSET Statuses
  PROVE  WithNothingPending(s) \in SUBSET Statuses
BY DEF WithNothingPending, Statuses

LEMMA ThreadPolls ==
  ASSUME ThreadOK, active \in Seq(Fds), PollStep
  PROVE  ThreadOK'
<1>0. UNCHANGED <<interrupts, time, context>>
  BY DEF PollStep, Beside
<1>1. SUFFICES /\ pc' \in Places /\ loop' \in LoopType /\ exitedFlag' \in BOOLEAN
               /\ sigchld' \in [installed : BOOLEAN, blocked : BOOLEAN, pending : BOOLEAN]
  BY <1>0 DEF ThreadOK
<1>2. /\ pc \in Places /\ loop \in LoopType /\ exitedFlag \in BOOLEAN
      /\ sigchld \in [installed : BOOLEAN, blocked : BOOLEAN, pending : BOOLEAN]
      /\ time \in 1 .. MaxTime
  BY DEF ThreadOK
<1>3. CASE ReadClock
  <2>1. time \in 0 .. MaxTime /\ 0 \in 0 .. MaxTime
    BY <1>2, ThreadAssumption
  <2>2. loop' \in LoopType
    BY <1>2, <1>3, <2>1 DEF ReadClock, LoopType
  <2> QED
    BY <1>2, <1>3, <2>2 DEF ReadClock, Places
<1>4. CASE CallbacksHandled
  BY <1>2, <1>4 DEF CallbacksHandled, Places, LoopType
<1>5. CASE Decide
  <2>1. loop' \in LoopType
    <3>1. loop' = [loop EXCEPT !.status = WithNothingPending(@)] \/ loop' = loop
      BY <1>5 DEF Decide, NoteNothingPending
    <3>2. WithNothingPending(loop.status) \in SUBSET Statuses
      BY <1>2, LoopFields, NothingPendingType
    <3> QED
      BY <1>2, <3>1, <3>2 DEF LoopType
  <2> QED
    BY <1>2, <1>5, <2>1 DEF Decide, Places
<1>6. CASE BlockSigchld
  <2>1. loop' \in LoopType
    BY <1>2, <1>6, CollectedFiles DEF BlockSigchld, CollectFiles, LoopType
  <2> QED
    BY <1>2, <1>6, <2>1 DEF BlockSigchld, CollectFiles, Places
<1>7. CASE PollInterrupted
  <2>1. loop' \in LoopType
    <3>1. loop.status \cup {"INTERRUPTED"} \in SUBSET Statuses
      BY <1>2, LoopFields DEF Statuses
    <3>2. WithNothingPending(loop.status \cup {"INTERRUPTED"}) \in SUBSET Statuses
      BY <3>1, NothingPendingType
    <3>3. <<>> \in Seq([fd : Fds, revents : SUBSET Events])
      BY EmptySeq
    <3>4. loop' = [loop EXCEPT !.status = WithNothingPending(@ \cup {"INTERRUPTED"}), !.ufds = <<>>]
      BY <1>7 DEF PollInterrupted
    <3> QED
      BY <1>2, <3>2, <3>3, <3>4 DEF LoopType
  <2>2. UnblockSigchld /\ pc' = "again"
    BY <1>7 DEF PollInterrupted
  <2> QED
    BY <2>1, <2>2, UnblockType DEF Places
<1>8. CASE SkipFile
  <2>1. /\ loop.ufds # <<>> /\ loop' = [loop EXCEPT !.ufds = Tail(@)]
        /\ UNCHANGED <<pc, exitedFlag, sigchld>>
    BY <1>8 DEF SkipFile
  <2>2. Tail(loop.ufds) \in Seq([fd : Fds, revents : SUBSET Events])
    BY <1>2, <2>1, LoopFields, HeadTailProperties
  <2>3. loop' \in LoopType
    BY <1>2, <2>1, <2>2 DEF LoopType
  <2> QED
    BY <1>2, <2>1, <2>3
<1>9. CASE FilesHandled
  BY <1>2, <1>9, SMTT(30) DEF FilesHandled, Places, LoopType
<1>10. CASE ChildrenHandled
  BY <1>2, <1>10 DEF ChildrenHandled, Places
<1>11. CASE Unblock
  <2>1. loop' \in LoopType
    <3>1. loop' = [loop EXCEPT !.status = WithNothingPending(@)]
      BY <1>11 DEF Unblock, NoteNothingPending
    <3>2. WithNothingPending(loop.status) \in SUBSET Statuses
      BY <1>2, LoopFields, NothingPendingType
    <3> QED
      BY <1>2, <3>1, <3>2 DEF LoopType
  <2>2. UnblockSigchld /\ pc' = "again"
    BY <1>11 DEF Unblock
  <2> QED
    BY <2>1, <2>2, UnblockType DEF Places
<1>12. CASE Again
  BY <1>2, <1>12 DEF Again, Places
<1>13. CASE FilesReady(Revents)
  <2>0. PICK u : u = [i \in DOMAIN loop.ufds |->
                        [fd |-> loop.ufds[i].fd, revents |-> Revents[loop.ufds[i].fd]]]
    OBVIOUS
  <2>1. loop' = [loop EXCEPT !.ufds = u] /\ pc' = "fds" /\ UNCHANGED <<exitedFlag, sigchld>>
    BY <1>13, <2>0 DEF FilesReady
  <2>2. u \in Seq([fd : Fds, revents : SUBSET Events])
    BY <1>2, <2>0, ReventsType, PolledFiles
  <2>3. loop' \in LoopType
    BY <1>2, <2>1, <2>2 DEF LoopType
  <2> QED
    BY <1>2, <2>1, <2>3 DEF Places
<1>14. CASE PollTimedOut(Revents)
  <2>0. PICK u : u = <<>>
    OBVIOUS
  <2>1. u \in Seq([fd : Fds, revents : SUBSET Events])
    BY <2>0, EmptySeq
  <2>2. loop' = [loop EXCEPT !.ufds = u, !.child = 1]
        /\ pc' = "children" /\ UNCHANGED <<exitedFlag, sigchld>>
    BY <1>14, <2>0 DEF PollTimedOut
  <2>3. loop' \in LoopType
    <3>1. PICK l : l = [loop EXCEPT !.ufds = u]
      OBVIOUS
    <3>2. l \in LoopType
      BY <1>2, <2>1, <3>1 DEF LoopType
    <3>3. PICK one : one = 1
      OBVIOUS
    <3>4. loop' = [l EXCEPT !.child = one]
      BY <1>2, <2>2, <3>1, <3>3 DEF LoopType
    <3>5. one \in Nat \ {0}
      BY <3>3
    <3> QED
      BY <3>2, <3>4, <3>5 DEF LoopType
  <2> QED
    BY <1>2, <2>2, <2>3 DEF Places
<1> QED
  BY <1>3, <1>4, <1>5, <1>6, <1>7, <1>8, <1>9, <1>10, <1>11, <1>12, <1>13, <1>14 DEF PollStep, ThreadSteps

LEMMA HandledFile ==
  ASSUME loop \in LoopType, NEW event, HandleFile(event)
  PROVE  /\ loop' \in LoopType /\ NextFile.fd \in Fds /\ flags[NextFile.fd] # {}
         /\ UNCHANGED <<pc, callbackMap, childRequests, exitedFlag, sigchld>>
<1> DEFINE F == [fd : Fds, revents : SUBSET Events]
           more == IF event = "IN" /\ "OUT" \in NextFile.revents
                   THEN <<[NextFile EXCEPT !.revents = {"OUT"}]>> ELSE <<>>
<1>1. /\ loop.ufds # <<>> /\ flags[NextFile.fd] # {}
      /\ loop' = [loop EXCEPT !.ufds = more \o Tail(@), !.status = @ \cup {"EVENT_HANDLED"}]
      /\ UNCHANGED <<pc, callbackMap, childRequests, exitedFlag, sigchld>>
  BY DEF HandleFile
<1>2. NextFile \in F /\ Tail(loop.ufds) \in Seq(F)
  BY <1>1, LoopFields, HeadTailProperties DEF NextFile
<1>3. more \in Seq(F)
  <2>1. [NextFile EXCEPT !.revents = {"OUT"}] \in F
    BY <1>2 DEF Events
  <2>2. <<[NextFile EXCEPT !.revents = {"OUT"}]>> \in Seq(F)
    BY <2>1
  <2>3. <<>> \in Seq(F)
    BY EmptySeq
  <2> QED
    BY <2>2, <2>3
<1>4. more \o Tail(loop.ufds) \in Seq(F)
  BY <1>2, <1>3, ConcatProperties
<1>5. loop.status \cup {"EVENT_HANDLED"} \in SUBSET Statuses
  BY LoopFields DEF Statuses
<1> HIDE DEF more
<1>6. loop' \in LoopType
  BY <1>1, <1>4, <1>5 DEF LoopType
<1> QED
  BY <1>1, <1>2, <1>6

LEMMA ThreadProgram ==
  ASSUME ThreadOK, active \in Seq(Fds), Program
  PROVE  ThreadOK'
<1>0. /\ pc \in Places /\ loop \in LoopType /\ exitedFlag \in BOOLEAN
      /\ sigchld \in [installed : BOOLEAN, blocked : BOOLEAN, pending : BOOLEAN]
      /\ interrupts \in [pending : BOOLEAN, left : Nat] /\ time \in 1 .. MaxTime
      /\ context \in 1 .. MaxContexts
  BY DEF ThreadOK
<1>1. CASE SendMessage
  BY <1>1, ThreadMessage
<1>2. CASE WaitChecked
  <2>1. UNCHANGED <<loop, exitedFlag, sigchld, interrupts, time, context>> /\ pc' = "rewrite"
    BY <1>2 DEF WaitChecked
  <2> QED
    BY <1>0, <2>1 DEF ThreadOK, Places
<1>3. CASE TraversalEnds
  <2>1. UNCHANGED <<exitedFlag, sigchld, interrupts, time, context>>
    BY <1>3 DEF TraversalEnds, Elsewhere
  <2>2. loop' \in LoopType /\ pc' \in Places
    BY <1>0, <1>3, LocalsType DEF TraversalEnds, EventLoop, Places
  <2> QED
    BY <1>0, <2>1, <2>2 DEF ThreadOK
<1>4. CASE HandleInterrupt
  <2>1. UNCHANGED <<exitedFlag, sigchld, loop, time, context>>
    BY <1>4 DEF HandleInterrupt, Elsewhere
  <2>2. interrupts' \in [pending : BOOLEAN, left : Nat] /\ pc' \in Places
    BY <1>0, <1>4 DEF HandleInterrupt, Places
  <2> QED
    BY <1>0, <2>1, <2>2 DEF ThreadOK
<1>5. CASE WaitForEvents
  <2>1. UNCHANGED <<exitedFlag, sigchld, interrupts, time, context>>
    BY <1>5 DEF WaitForEvents, Elsewhere
  <2>2. loop' \in LoopType /\ pc' \in Places
    BY <1>0, <1>5, LocalsType DEF WaitForEvents, EventLoop, Places
  <2> QED
    BY <1>0, <2>1, <2>2 DEF ThreadOK
<1>6. CASE EventLoopReturns
  <2>1. UNCHANGED <<exitedFlag, sigchld, time, context>> /\ loop' = Locals
    BY <1>6 DEF EventLoopReturns, Elsewhere
  <2>2. interrupts' \in [pending : BOOLEAN, left : Nat]
    BY <1>0, <1>6 DEF EventLoopReturns
  <2>3. pc' \in Places
    BY <1>6 DEF EventLoopReturns, AfterEventLoop, Places
  <2> QED
    BY <1>0, <2>1, <2>2, <2>3, LocalsType DEF ThreadOK
<1>7. CASE TimerCallback
  <2>1. /\ UNCHANGED <<pc, exitedFlag, sigchld, interrupts, time, context>>
        /\ loop' = [loop EXCEPT !.status = @ \cup {"EVENT_HANDLED"}, !.block = FALSE]
    BY <1>7 DEF TimerCallback, HandleCallback, Beside
  <2>2. loop.status \cup {"EVENT_HANDLED"} \in SUBSET Statuses
    BY <1>0, LoopFields DEF Statuses
  <2>3. loop' \in LoopType
    BY <1>0, <2>1, <2>2 DEF LoopType
  <2> QED
    BY <1>0, <2>1, <2>3 DEF ThreadOK
<1>8. CASE FileCallback
  <2>1. UNCHANGED <<interrupts, time, context>> /\ \E event : HandleFile(event)
    BY <1>8 DEF FileCallback, Beside
  <2> QED
    BY <1>0, <2>1, HandledFile DEF ThreadOK
<1>9. CASE ChildCallback
  <2>1. UNCHANGED <<interrupts, time, context>> /\ \E exited \in BOOLEAN : HandleChild(exited)
    BY <1>9 DEF ChildCallback, Beside
  <2>2. UNCHANGED <<pc, exitedFlag, sigchld>>
        /\ \/ loop' = [loop EXCEPT !.status = @ \cup {"EVENT_HANDLED"}]
           \/ loop' = [loop EXCEPT !.child = @ + 1]
    BY <2>1 DEF HandleChild
  <2>3. loop.status \cup {"EVENT_HANDLED"} \in SUBSET Statuses /\ loop.child + 1 \in Nat \ {0}
    BY <1>0, LoopFields DEF Statuses
  <2>4. loop' \in LoopType
    BY <1>0, <2>2, <2>3 DEF LoopType
  <2> QED
    BY <1>0, <2>1, <2>2, <2>4 DEF ThreadOK
<1>10. CASE PollStep
  BY <1>10, ThreadPolls
<1> QED
  BY <1>1, <1>2, <1>3, <1>4, <1>5, <1>6, <1>7, <1>8, <1>9, <1>10 DEF Program

LEMMA ThreadStep ==
  ASSUME ThreadOK, active \in Seq(Fds), [Next]_vars
  PROVE  ThreadOK'
<1>0. /\ pc \in Places /\ loop \in LoopType /\ exitedFlag \in BOOLEAN
      /\ sigchld \in [installed : BOOLEAN, blocked : BOOLEAN, pending : BOOLEAN]
      /\ interrupts \in [pending : BOOLEAN, left : Nat] /\ time \in 1 .. MaxTime
      /\ context \in 1 .. MaxContexts
  BY DEF ThreadOK
<1>1. CASE Program
  BY <1>1, ThreadProgram
<1>2. CASE LimitReached \/ Continue
  <2>1. UNCHANGED <<loop, exitedFlag, sigchld, interrupts, time, context>> /\ pc' \in Places
    BY <1>2 DEF LimitReached, Continue, Elsewhere, Places
  <2> QED
    BY <1>0, <2>1 DEF ThreadOK
<1>3. CASE NewContext
  <2>1. UNCHANGED <<loop, interrupts, time>> /\ pc' \in Places /\ context' \in 1 .. MaxContexts
    BY <1>0, <1>3, ObjectAssumption DEF NewContext, Places
  <2>2. exitedFlag' \in BOOLEAN /\ sigchld' \in [installed : BOOLEAN, blocked : BOOLEAN, pending : BOOLEAN]
    <3>1. SendSigchld \/ UNCHANGED <<sigchld, exitedFlag>>
      BY <1>3 DEF NewContext, CleanUpProcesses
    <3> QED
      BY <1>0, <3>1, SendType
  <2> QED
    BY <1>0, <2>1, <2>2 DEF ThreadOK
<1>4. CASE Tick
  <2>1. UNCHANGED <<pc, loop, exitedFlag, sigchld, interrupts, context>> /\ time' \in 1 .. MaxTime
    BY <1>0, <1>4, ThreadAssumption DEF Tick, contextVars
  <2> QED
    BY <1>0, <2>1 DEF ThreadOK
<1>5. CASE ChildEvent
  <2>1. UNCHANGED <<pc, loop, interrupts, time, context>> /\ SendSigchld
    BY <1>5 DEF ChildEvent, ChildExits, contextVars
  <2> QED
    BY <1>0, <2>1, SendType DEF ThreadOK
<1>6. CASE NetworkEvent
  <2>1. UNCHANGED <<pc, loop, exitedFlag, sigchld, interrupts, time, context>>
    BY <1>6 DEF NetworkEvent, contextVars, threadVars
  <2> QED
    BY <1>0, <2>1 DEF ThreadOK
<1>7. CASE UserInterrupt
  <2>1. UNCHANGED <<pc, loop, exitedFlag, sigchld, time, context>>
    BY <1>7 DEF UserInterrupt, contextVars
  <2>2. interrupts' \in [pending : BOOLEAN, left : Nat]
    BY <1>0, <1>7 DEF UserInterrupt, Interrupt
  <2> QED
    BY <1>0, <2>1, <2>2 DEF ThreadOK
<1>8. CASE UNCHANGED vars
  <2>1. UNCHANGED <<pc, loop, exitedFlag, sigchld, interrupts, time, context>>
    BY <1>8 DEF vars, threadVars, contextVars
  <2> QED
    BY <1>0, <2>1 DEF ThreadOK
<1> QED
  BY <1>1, <1>2, <1>3, <1>4, <1>5, <1>6, <1>7, <1>8 DEF Next

----------------------------------------------------------------------------
(* The timers.                                                             *)
LEMMA TimersInitial == Init => TimersOK
<1> SUFFICES ASSUME Init PROVE TimersOK
  OBVIOUS
<1>1. timerMap = <<>> /\ callbackMap = <<>>
  BY DEF Init, ThreadInit, TimersInit
<1>2. DOMAIN <<>> = {}
  OBVIOUS
<1>3. TimersTyped(timerMap, context) /\ CallbacksOf(timerMap) = {}
  BY <1>1, <1>2 DEF TimersTyped, CallbacksOf
<1>4. Agree(callbackMap, {})
  <2>1. <<>> \in Seq(Entries) /\ ToSet(<<>>) = {} /\ Len(<<>>) = 0
    BY EmptyList
  <2>2. Ordered(<<>>)
    BY <2>1 DEF Ordered
  <2> QED
    BY <1>1, <2>1, <2>2 DEF Agree
<1> QED
  BY <1>3, <1>4 DEF TimersOK

(* What touches them.                                                      *)
LEMMA TimersTouched ==
  ASSUME [Next]_vars
  PROVE  \/ TimerMessage \/ TimerCallback \/ NewContext
         \/ UNCHANGED <<timerMap, callbackMap, context>>
<1>1. CASE SendMessage
  BY <1>1 DEF SendMessage, SocketMessage, OfSocket, CreateProcessMessage, SignalMessage, WaitMessage,
              OfProcess, Send, requestVars, managerVars
<1>2. CASE WaitChecked \/ TraversalEnds \/ HandleInterrupt \/ WaitForEvents \/ EventLoopReturns
  BY <1>2 DEF WaitChecked, TraversalEnds, HandleInterrupt, WaitForEvents, EventLoopReturns,
              Elsewhere, requestVars, managerVars
<1>3. CASE FileCallback \/ ChildCallback
  BY <1>3 DEF FileCallback, HandleFile, ChildCallback, HandleChild, Beside
<1>4. CASE PollStep
  <2>1. UNCHANGED callbackMap
    BY <1>4 DEF PollStep, ThreadSteps, ReadClock, CallbacksHandled, Decide, BlockSigchld, CollectFiles,
                PollInterrupted, SkipFile, FilesHandled, ChildrenHandled, Unblock, Again, FilesReady,
                PollTimedOut
  <2> QED
    BY <1>4, <2>1 DEF PollStep, Beside, managerVars
<1>5. CASE LimitReached \/ Continue
  BY <1>5 DEF LimitReached, Continue, Elsewhere, requestVars, managerVars
<1>6. CASE Tick \/ ChildEvent \/ NetworkEvent \/ UserInterrupt \/ UNCHANGED vars
  BY <1>6 DEF Tick, ChildEvent, NetworkEvent, UserInterrupt, vars, threadVars, requestVars, managerVars,
              contextVars
<1> QED
  BY <1>1, <1>2, <1>3, <1>4, <1>5, <1>6 DEF Next, Program, SendMessage

(* The callbacks after one timer changed.                                  *)
But(entries, id) == {e \in entries : e.id # id}
LEMMA CallbackLemma ==
  ASSUME NEW timers
  PROVE  \A e : e \in CallbacksOf(timers)
                <=> \E k \in DOMAIN timers : timers[k].at # Stopped /\ e = [at |-> timers[k].at, id |-> k]
BY DEF CallbacksOf

LEMMA OneChanged ==
  ASSUME NEW timers, NEW new, NEW id,
         \A k : k # id => (k \in DOMAIN new <=> k \in DOMAIN timers),
         \A k \in DOMAIN timers : k # id => new[k].at = timers[k].at
  PROVE  /\ id \in DOMAIN new /\ new[id].at # Stopped =>
              CallbacksOf(new) = But(CallbacksOf(timers), id) \cup {[at |-> new[id].at, id |-> id]}
         /\ id \notin DOMAIN new \/ new[id].at = Stopped =>
              CallbacksOf(new) = But(CallbacksOf(timers), id)
<1>1. \A e : e \in But(CallbacksOf(timers), id)
             <=> \E k \in DOMAIN timers : k # id /\ timers[k].at # Stopped /\ e = [at |-> timers[k].at, id |-> k]
  <2> TAKE e
  <2>1. ASSUME e \in But(CallbacksOf(timers), id)
        PROVE  \E k \in DOMAIN timers : k # id /\ timers[k].at # Stopped /\ e = [at |-> timers[k].at, id |-> k]
    <3>1. e \in CallbacksOf(timers) /\ e.id # id
      BY <2>1 DEF But
    <3>2. PICK k \in DOMAIN timers : timers[k].at # Stopped /\ e = [at |-> timers[k].at, id |-> k]
      BY <3>1, CallbackLemma
    <3>3. e.id = k
      BY <3>2
    <3> QED
      BY <3>1, <3>2, <3>3
  <2>2. ASSUME NEW k \in DOMAIN timers, k # id, timers[k].at # Stopped, e = [at |-> timers[k].at, id |-> k]
        PROVE  e \in But(CallbacksOf(timers), id)
    <3>1. e.id = k /\ e \in CallbacksOf(timers)
      BY <2>2, CallbackLemma
    <3> QED
      BY <2>2, <3>1 DEF But
  <2> QED
    BY <2>1, <2>2
<1>2. \A e : e \in CallbacksOf(new)
             <=> \E k \in DOMAIN new : new[k].at # Stopped /\ e = [at |-> new[k].at, id |-> k]
  BY CallbackLemma
<1>3. \A e : e \in CallbacksOf(new)
             <=> \/ e \in But(CallbacksOf(timers), id)
                 \/ id \in DOMAIN new /\ new[id].at # Stopped /\ e = [at |-> new[id].at, id |-> id]
  BY <1>1, <1>2
<1> QED
  BY <1>3

LEMMA CancelAgrees ==
  ASSUME NEW timers, NEW map, Agree(map, CallbacksOf(timers)), NEW id \in DOMAIN timers
  PROVE  Agree(IF timers[id].at # Stopped THEN Cancelled(map, timers[id].at, id) ELSE map,
               But(CallbacksOf(timers), id))
<1> DEFINE e == [at |-> timers[id].at, id |-> id]
<1>1. map \in Seq(Entries) /\ Ordered(map) /\ ToSet(map) = CallbacksOf(timers)
  BY DEF Agree
<1>2. \A x \in CallbacksOf(timers) : x.id = id => x = e /\ timers[id].at # Stopped
  <2> TAKE x \in CallbacksOf(timers)
  <2>1. PICK k \in DOMAIN timers : timers[k].at # Stopped /\ x = [at |-> timers[k].at, id |-> k]
    BY CallbackLemma
  <2>2. x.id = k
    BY <2>1
  <2> QED
    BY <2>1, <2>2
<1>3. e.id = id
  OBVIOUS
<1>4. CASE timers[id].at # Stopped
  <2>1. PICK new : new = Cancelled(map, timers[id].at, id)
    OBVIOUS
  <2>2. new \in Seq(Entries) /\ Ordered(new) /\ ToSet(new) = CallbacksOf(timers) \ {e}
    BY <1>1, <2>1, CancelledLemma
  <2>3. CallbacksOf(timers) \ {e} = But(CallbacksOf(timers), id)
    BY <1>2, <1>3 DEF But
  <2> QED
    BY <1>4, <2>1, <2>2, <2>3 DEF Agree
<1>5. CASE timers[id].at = Stopped
  <2>1. CallbacksOf(timers) = But(CallbacksOf(timers), id)
    BY <1>2, <1>5 DEF But
  <2> QED
    BY <1>1, <1>5, <2>1 DEF Agree
<1> QED
  BY <1>4, <1>5

LEMMA RequestAgrees ==
  ASSUME NEW entries, NEW id \in Nat, NEW map, Agree(map, But(entries, id)), NEW at \in Nat
  PROVE  Agree(Requested(map, at, id), But(entries, id) \cup {[at |-> at, id |-> id]})
<1>1. \A e \in ToSet(map) : e.id # id
  BY DEF Agree, But
<1> QED
  BY <1>1, RequestedLemma DEF Agree

LEMMA FindUnusedIdLemma ==
  ASSUME DOMAIN timerMap \subseteq 0 .. MaxTimers - 1, Cardinality(DOMAIN timerMap) < MaxTimers
  PROVE  FindUnusedId \in 0 .. MaxTimers - 1 /\ FindUnusedId \notin DOMAIN timerMap
<1>1. PICK D : D = DOMAIN timerMap
  OBVIOUS
<1>2. D \subseteq 0 .. MaxTimers - 1 /\ Cardinality(D) < MaxTimers /\ MaxTimers \in Nat
  BY <1>1, TimerAssumption
<1>3. IsFiniteSet(D) /\ Cardinality(D) \in Nat
  <2>1. 0 \in Int /\ MaxTimers - 1 \in Int
    BY <1>2
  <2>2. IsFiniteSet(0 .. MaxTimers - 1)
    BY <2>1, FS_Interval
  <2> QED
    BY <1>2, <2>2, FS_Subset, FS_CardinalityType
<1> DEFINE Free == {k \in Nat : k \notin D}
<1>4. PICK m \in Free : \A k \in Free : m <= k
  <2>1. Free \in SUBSET Nat /\ MaxTimers \in Free
    BY <1>2
  <2> HIDE DEF Free
  <2> QED
    BY <2>1, LeastExists
<1>5. m \in Nat /\ m \notin D
  OBVIOUS
<1>6. \A k \in 0 .. m - 1 : k \in D
  <2> TAKE k \in 0 .. m - 1
  <2>1. k \in Nat /\ ~(m <= k)
    BY <1>5
  <2> QED
    BY <1>4, <2>1
<1>7. m <= Cardinality(D)
  <2>1. 0 .. m - 1 \in SUBSET D /\ 0 \in Int /\ m - 1 \in Int
    BY <1>5, <1>6
  <2>2. Cardinality(0 .. m - 1) <= Cardinality(D)
    BY <1>3, <2>1, FS_Subset
  <2>3. Cardinality(0 .. m - 1) = IF 0 > m - 1 THEN 0 ELSE m - 1 - 0 + 1
    BY <2>1, FS_Interval
  <2> QED
    BY <1>3, <1>5, <2>2, <2>3
<1>8. m \in 0 .. Cardinality(D) /\ m \notin D /\ \A k \in 0 .. m - 1 : k \in D
  BY <1>3, <1>5, <1>6, <1>7
<1>9. PICK i : i = FindUnusedId
  OBVIOUS
<1>10. i \in 0 .. Cardinality(D) /\ i \notin D
  <2>1. i = CHOOSE id \in 0 .. Cardinality(D) : id \notin D /\ \A k \in 0 .. id - 1 : k \in D
    BY <1>1, <1>9 DEF FindUnusedId
  <2> HIDE DEF Free
  <2> QED
    BY <1>8, <2>1
<1>11. i \in 0 .. MaxTimers - 1
  BY <1>2, <1>3, <1>10
<1> QED
  BY <1>1, <1>9, <1>10, <1>11

LEMMA TimerTypeLemma ==
  /\ \A t \in TimerType : t.at \in Nat /\ t.period \in Periods \cup {0} /\ t.context \in 0 .. MaxContexts
  /\ \A at \in Nat, p \in Periods \cup {0}, c \in 0 .. MaxContexts :
       [at |-> at, period |-> p, context |-> c] \in TimerType
BY DEF TimerType

LEMMA TimerSet ==
  ASSUME TimersOK, context \in 0 .. MaxContexts, NEW id \in DOMAIN timerMap, NEW t \in TimerType,
         t.at # Stopped => t.context = context, timerMap' = [timerMap EXCEPT ![id] = t],
         UNCHANGED context, NEW map, callbackMap' = map,
         t.at = Stopped => Agree(map, But(CallbacksOf(timerMap), id)),
         t.at # Stopped => Agree(map, But(CallbacksOf(timerMap), id) \cup {[at |-> t.at, id |-> id]})
  PROVE  TimersOK'
<1>1. PICK new : new = [timerMap EXCEPT ![id] = t]
  OBVIOUS
<1>2. DOMAIN new = DOMAIN timerMap /\ new[id] = t /\ \A k \in DOMAIN timerMap : k # id => new[k] = timerMap[k]
  BY <1>1
<1>3. TimersTyped(new, context)
  BY <1>2 DEF TimersOK, TimersTyped
<1>4. Agree(map, CallbacksOf(new))
  <2>1. /\ \A k : k # id => (k \in DOMAIN new <=> k \in DOMAIN timerMap)
        /\ \A k \in DOMAIN timerMap : k # id => new[k].at = timerMap[k].at
    BY <1>2
  <2>2. /\ id \in DOMAIN new /\ new[id].at # Stopped =>
             CallbacksOf(new) = But(CallbacksOf(timerMap), id) \cup {[at |-> new[id].at, id |-> id]}
        /\ id \notin DOMAIN new \/ new[id].at = Stopped =>
             CallbacksOf(new) = But(CallbacksOf(timerMap), id)
    BY <2>1, OneChanged
  <2> QED
    BY <1>2, <2>2
<1>5. timerMap' = new /\ callbackMap' = map /\ context' = context
  BY <1>1
<1> QED
  BY <1>3, <1>4, <1>5 DEF TimersOK

LEMMA WithoutCallbackAgrees ==
  ASSUME TimersOK, NEW id \in DOMAIN timerMap
  PROVE  Agree(WithoutCallback(id), But(CallbacksOf(timerMap), id))
BY CancelAgrees DEF TimersOK, WithoutCallback, Armed

LEMMA TimerMessageStep ==
  ASSUME TimersOK, ThreadOK, TimerMessage
  PROVE  TimersOK'
<1>1. /\ DOMAIN timerMap \subseteq 0 .. MaxTimers - 1
      /\ \A id \in DOMAIN timerMap : timerMap[id] \in TimerType /\ id \in Nat
      /\ \A id \in DOMAIN timerMap : timerMap[id].at # Stopped => timerMap[id].context = context
  BY TimerAssumption DEF TimersOK, TimersTyped
<1>2. context \in 0 .. MaxContexts /\ time \in Nat /\ time # 0 /\ 0 \in 0 .. MaxContexts
  BY ThreadAssumption, ObjectAssumption DEF ThreadOK
<1>3. UNCHANGED context
  BY DEF TimerMessage, OfTimer, Send
<1>4. CASE CreateTimer
  <2>1. PICK i, t : i = FindUnusedId /\ t = [at |-> Stopped, period |-> 0, context |-> NoContext]
    OBVIOUS
  <2>2. /\ Cardinality(DOMAIN timerMap) < MaxTimers
        /\ timerMap' = With(timerMap, i, t) /\ UNCHANGED callbackMap
    BY <1>4, <2>1 DEF CreateTimer
  <2>3. i \in 0 .. MaxTimers - 1 /\ i \notin DOMAIN timerMap
    BY <1>1, <2>1, <2>2, FindUnusedIdLemma
  <2>4. t \in TimerType /\ t.at = Stopped
    BY <1>2, <2>1, TimerTypeLemma DEF Stopped, NoContext
  <2>5. PICK new : new = With(timerMap, i, t)
    OBVIOUS
  <2>6. /\ DOMAIN new = DOMAIN timerMap \cup {i} /\ new[i] = t
        /\ \A k \in DOMAIN timerMap : k # i => new[k] = timerMap[k]
    BY <2>3, <2>5 DEF With
  <2>7. TimersTyped(new, context)
    BY <1>1, <2>3, <2>4, <2>6 DEF TimersTyped
  <2>8. CallbacksOf(new) = CallbacksOf(timerMap)
    <3>1. /\ \A k : k # i => (k \in DOMAIN new <=> k \in DOMAIN timerMap)
          /\ \A k \in DOMAIN timerMap : k # i => new[k].at = timerMap[k].at
      BY <2>6
    <3>2. CallbacksOf(new) = But(CallbacksOf(timerMap), i)
      BY <2>4, <2>6, <3>1, OneChanged
    <3>3. \A e \in CallbacksOf(timerMap) : e.id # i
      BY <2>3, CallbackLemma
    <3> QED
      BY <3>2, <3>3 DEF But
  <2> QED
    BY <1>3, <2>2, <2>5, <2>7, <2>8 DEF TimersOK
<1>5. ASSUME NEW id \in DOMAIN timerMap, NEW periodic \in BOOLEAN, NEW n \in Periods,
             StartTimer(id, periodic, n)
      PROVE  TimersOK'
  <2>1. PICK at, t, map : /\ at = time + n
                          /\ t = [at |-> at, period |-> IF periodic THEN n ELSE 0, context |-> context]
                          /\ map = Requested(WithoutCallback(id), at, id)
    OBVIOUS
  <2>2. timerMap' = [timerMap EXCEPT ![id] = t] /\ callbackMap' = map
    BY <1>5, <2>1 DEF StartTimer, Started
  <2>3. at \in Nat /\ at # 0
    BY <1>2, <2>1, TimerAssumption
  <2>4. t \in TimerType /\ t.at = at /\ t.at # Stopped /\ t.context = context
    BY <1>2, <2>1, <2>3, TimerTypeLemma DEF Stopped
  <2>5. Agree(map, But(CallbacksOf(timerMap), id) \cup {[at |-> t.at, id |-> id]})
    BY <1>1, <2>1, <2>3, <2>4, WithoutCallbackAgrees, RequestAgrees
  <2> QED
    BY <1>2, <1>3, <2>2, <2>4, <2>5, TimerSet
<1>6. ASSUME NEW id \in DOMAIN timerMap, StopTimer(id)
      PROVE  TimersOK'
  <2>1. PICK t, map : t = [timerMap[id] EXCEPT !.at = Stopped] /\ map = WithoutCallback(id)
    OBVIOUS
  <2>2. timerMap' = [timerMap EXCEPT ![id] = t] /\ callbackMap' = map
    BY <1>6, <2>1 DEF StopTimer
  <2>3. t \in TimerType /\ t.at = Stopped
    BY <1>1, <2>1 DEF TimerType, Stopped
  <2>4. Agree(map, But(CallbacksOf(timerMap), id))
    BY <2>1, WithoutCallbackAgrees
  <2> QED
    BY <1>2, <1>3, <2>2, <2>3, <2>4, TimerSet
<1>7. ASSUME NEW id \in DOMAIN timerMap, DeleteTimer(id)
      PROVE  TimersOK'
  <2>1. timerMap' = Without(timerMap, id) /\ callbackMap' = WithoutCallback(id)
    BY <1>7 DEF DeleteTimer
  <2>2. PICK new : new = Without(timerMap, id)
    OBVIOUS
  <2>3. DOMAIN new = DOMAIN timerMap \ {id} /\ \A k \in DOMAIN timerMap : k # id => new[k] = timerMap[k]
    BY <2>2 DEF Without
  <2>4. TimersTyped(new, context)
    BY <1>1, <2>3 DEF TimersTyped
  <2>5. CallbacksOf(new) = But(CallbacksOf(timerMap), id)
    <3>1. /\ \A k : k # id => (k \in DOMAIN new <=> k \in DOMAIN timerMap)
          /\ \A k \in DOMAIN timerMap : k # id => new[k].at = timerMap[k].at
          /\ id \notin DOMAIN new
      BY <2>3
    <3> QED
      BY <3>1, OneChanged
  <2>6. Agree(WithoutCallback(id), CallbacksOf(new))
    BY <2>5, WithoutCallbackAgrees
  <2> QED
    BY <1>3, <2>1, <2>2, <2>4, <2>6 DEF TimersOK
<1> QED
  BY <1>4, <1>5, <1>6, <1>7 DEF TimerMessage, OfTimer

LEMMA TimerCallbackStep ==
  ASSUME TimersOK, ThreadOK, TimerCallback
  PROVE  TimersOK'
<1>1. /\ DOMAIN timerMap \subseteq 0 .. MaxTimers - 1
      /\ \A k \in DOMAIN timerMap : timerMap[k] \in TimerType /\ k \in Nat
      /\ \A k \in DOMAIN timerMap : timerMap[k].at # Stopped => timerMap[k].context = context
      /\ callbackMap \in Seq(Entries) /\ Ordered(callbackMap)
      /\ ToSet(callbackMap) = CallbacksOf(timerMap)
  BY TimerAssumption DEF TimersOK, TimersTyped, Agree
<1>2. context \in 0 .. MaxContexts
  BY DEF ThreadOK
<1>3. PICK h, map, id : h = Head(callbackMap) /\ map = Tail(callbackMap) /\ id = h.id
  OBVIOUS
<1>4. callbackMap # <<>> /\ TimeOut(id, map) /\ UNCHANGED context
  BY <1>3 DEF TimerCallback, HandleCallback, Beside
<1>5. /\ h \in CallbacksOf(timerMap) /\ map \in Seq(Entries) /\ Ordered(map)
      /\ ToSet(map) = CallbacksOf(timerMap) \ {h} /\ \A e \in ToSet(map) : e.id # id
  BY <1>1, <1>3, <1>4, TailLemma
<1>6. PICK k \in DOMAIN timerMap : timerMap[k].at # Stopped /\ h = [at |-> timerMap[k].at, id |-> k]
  BY <1>5, CallbackLemma
<1>7. id \in DOMAIN timerMap /\ h = [at |-> timerMap[id].at, id |-> id] /\ timerMap[id].at # Stopped
  BY <1>3, <1>6
<1>8. Agree(map, But(CallbacksOf(timerMap), id))
  <2>1. ToSet(map) = But(CallbacksOf(timerMap), id)
    BY <1>3, <1>5 DEF But
  <2> QED
    BY <1>5, <2>1 DEF Agree
<1>9. PICK t : t = timerMap[id]
  OBVIOUS
<1>10. t \in TimerType /\ t.at \in Nat /\ t.at # 0 /\ t.period \in Nat /\ t.context = context /\ id \in Nat
  <2>1. t \in TimerType /\ t.at # 0 /\ t.context = context /\ id \in Nat
    BY <1>1, <1>7, <1>9 DEF Stopped
  <2>2. t.at \in Nat /\ t.period \in Periods \cup {0}
    BY <2>1, TimerTypeLemma
  <2>3. \A p \in Periods \cup {0} : p \in Nat
    BY TimerAssumption
  <2>4. t.period \in Nat
    BY <2>2, <2>3
  <2> QED
    BY <2>1, <2>2, <2>4
<1>11. PICK at : at = IF t.period = 0 THEN Stopped ELSE t.at + t.period
  OBVIOUS
<1>12. /\ timerMap' = [timerMap EXCEPT ![id].at = at]
       /\ callbackMap' = IF t.period = 0 THEN map ELSE Requested(map, at, id)
  BY <1>4, <1>9, <1>11 DEF TimeOut
<1>13. PICK new : new = [t EXCEPT !.at = at]
  OBVIOUS
<1>14. at \in Nat /\ (at = Stopped <=> t.period = 0)
  BY <1>10, <1>11 DEF Stopped
<1>15. new \in TimerType /\ new.at = at /\ new.context = context
  BY <1>10, <1>13, <1>14 DEF TimerType
<1>16. timerMap' = [timerMap EXCEPT ![id] = new]
  BY <1>9, <1>12, <1>13
<1>17. CASE t.period = 0
  BY <1>2, <1>4, <1>7, <1>8, <1>12, <1>14, <1>15, <1>16, <1>17, TimerSet
<1>18. CASE t.period # 0
  <2>1. Agree(Requested(map, at, id), But(CallbacksOf(timerMap), id) \cup {[at |-> at, id |-> id]})
    BY <1>8, <1>10, <1>14, RequestAgrees
  <2> QED
    BY <1>2, <1>4, <1>7, <1>12, <1>14, <1>15, <1>16, <1>18, <2>1, TimerSet
<1> QED
  BY <1>17, <1>18

(* Every timer is an external object, so that all are cleaned up.          *)
LEMMA TimersCleanedUp ==
  ASSUME TimersOK, ObjectsOK, NewContext
  PROVE  TimersOK' /\ DOMAIN timerMap' = {}
<1>1. {id \in DOMAIN timerMap : <<"timer", id>> \in externalObjects} = DOMAIN timerMap
  BY DEF ObjectsOK, Timer
<1>2. CleanUpTimers(DOMAIN timerMap)
  BY <1>1 DEF NewContext
<1>3. PICK map : map = Dropped(callbackMap, Callbacks(DOMAIN timerMap))
  OBVIOUS
<1>4. Callbacks(DOMAIN timerMap) = CallbacksOf(timerMap)
  BY DEF Callbacks, CallbacksOf, Armed
<1>5. callbackMap' = map /\ DOMAIN timerMap' = {}
  BY <1>2, <1>3 DEF CleanUpTimers
<1>6. Agree(map, {})
  <2>1. callbackMap \in Seq(Entries) /\ Ordered(callbackMap) /\ ToSet(callbackMap) = CallbacksOf(timerMap)
    BY DEF TimersOK, Agree
  <2>2. map \in Seq(Entries) /\ ToSet(map) = ToSet(callbackMap) \ CallbacksOf(timerMap) /\ Ordered(map)
    BY <1>3, <1>4, <2>1, DroppedLemma, DroppedOrdered
  <2> QED
    BY <2>1, <2>2 DEF Agree
<1>7. TimersTyped(timerMap', context') /\ CallbacksOf(timerMap') = {}
  BY <1>5 DEF TimersTyped, CallbacksOf
<1> QED
  BY <1>5, <1>6, <1>7 DEF TimersOK

LEMMA TimersStep ==
  ASSUME TimersOK, ThreadOK, ObjectsOK, [Next]_vars
  PROVE  TimersOK'
<1>1. CASE UNCHANGED <<timerMap, callbackMap, context>>
  BY <1>1 DEF TimersOK
<1> QED
  BY <1>1, TimersTouched, TimerMessageStep, TimerCallbackStep, TimersCleanedUp

----------------------------------------------------------------------------
(* The children.                                                           *)
LEMMA LowestLemma ==
  ASSUME NEW S \in SUBSET Nat, S # {}
  PROVE  LowestOf(S) \in S
BY LeastExists DEF LowestOf

LEMMA LowestFree ==
  /\ FreePids # {} => LowestOf(FreePids) \in FreePids
  /\ FreeFds # {} => LowestOf(FreeFds) \in FreeFds
<1>1. FreePids \in SUBSET Nat /\ FreeFds \in SUBSET Nat
  BY ThreadAssumption, SocketAssumption DEF FreePids, FreeFds
<1> QED
  BY <1>1, LowestLemma

LEMMA TwoFree ==
  ASSUME Cardinality(FreeFds) > 1
  PROVE  /\ LowestOf(FreeFds) \in FreeFds
         /\ LowestOf(FreeFds \ {LowestOf(FreeFds)}) \in FreeFds \ {LowestOf(FreeFds)}
<1>1. FreeFds \in SUBSET Fds /\ IsFiniteSet(Fds) /\ Fds \subseteq Nat
  BY SocketAssumption DEF FreeFds
<1>2. IsFiniteSet(FreeFds) /\ Cardinality(FreeFds) \in Nat
  BY <1>1, FS_Subset, FS_CardinalityType
<1>3. FreeFds # {}
  BY FS_EmptySet
<1>4. PICK io : io = LowestOf(FreeFds)
  OBVIOUS
<1>5. io \in FreeFds
  BY <1>3, <1>4, LowestFree
<1>6. IsFiniteSet(FreeFds \ {io}) /\ Cardinality(FreeFds \ {io}) = Cardinality(FreeFds) - 1
  BY <1>2, <1>5, FS_RemoveElement
<1>7. FreeFds \ {io} # {}
  <2>1. Cardinality(FreeFds \ {io}) # 0
    BY <1>2, <1>6
  <2> QED
    BY <2>1, FS_EmptySet
<1>8. FreeFds \ {io} \in SUBSET Nat
  BY <1>1
<1> QED
  BY <1>4, <1>5, <1>7, <1>8, LowestLemma

LEMMA ChildrenInitial == Init => ChildrenOK
<1> SUFFICES ASSUME Init PROVE ChildrenOK
  OBVIOUS
<1>1. childProcesses = <<>> /\ childRequests = <<>> /\ pc = "rewrite" /\ proc = [p \in Pids |-> "none"]
  BY DEF Init, ThreadInit, ProcessesInit
<1>2. DOMAIN childProcesses = {}
  <2>1. DOMAIN <<>> = {}
    OBVIOUS
  <2> QED
    BY <1>1, <2>1
<1>3. Waiting = {}
  BY <1>2 DEF Waiting
<1>4. childRequests \in Seq(Pids) /\ IsInjective(childRequests) /\ ToSet(childRequests) = {}
  BY <1>1, EmptyList
<1> QED
  BY <1>1, <1>2, <1>3, <1>4 DEF ChildrenOK

LEMMA PollMoves ==
  ASSUME PollStep
  PROVE  /\ pc \notin {"rewrite", "waitpid", "callbacks"} \/ CallbacksHandled
         /\ pc # "waitpid" /\ pc' # "waitpid" /\ UNCHANGED childRequests
<1>1. CASE ThreadSteps
  BY <1>1 DEF ThreadSteps, ReadClock, CallbacksHandled, Decide, BlockSigchld, CollectFiles,
              PollInterrupted, SkipFile, FilesHandled, ChildrenHandled, Unblock, Again
<1>2. CASE FilesReady(Revents)
  BY <1>2 DEF FilesReady
<1>3. CASE PollTimedOut(Revents)
  BY <1>3 DEF PollTimedOut
<1> QED
  BY <1>1, <1>2, <1>3 DEF PollStep

LEMMA ChildrenTouched ==
  ASSUME [Next]_vars
  PROVE  \/ CreateProcessMessage \/ WaitMessage \/ WaitChecked \/ ChildCallback \/ NewContext \/ ChildEvent
         \/ /\ UNCHANGED <<childProcesses, proc, childRequests, context, waiter>>
            /\ pc' = "waitpid" <=> pc = "waitpid"
<1>1. CASE TimerMessage
  BY <1>1 DEF TimerMessage, OfTimer, Send, processVars
<1>2. CASE SocketMessage
  BY <1>2 DEF SocketMessage, OfSocket, Send, processVars
<1>3. CASE SignalMessage
  BY <1>3 DEF SignalMessage, OfProcess, Send, requestVars, managerVars, processVars
<1>4. CASE TraversalEnds
  BY <1>4 DEF TraversalEnds, EventLoop, Elsewhere, requestVars, managerVars, processVars
<1>5. CASE HandleInterrupt
  BY <1>5 DEF HandleInterrupt, Elsewhere, requestVars, managerVars, processVars
<1>6. CASE WaitForEvents
  BY <1>6 DEF WaitForEvents, EventLoop, Elsewhere, requestVars, managerVars, processVars
<1>7. CASE EventLoopReturns
  BY <1>7 DEF EventLoopReturns, AfterEventLoop, Elsewhere, requestVars, managerVars, processVars
<1>8. CASE TimerCallback
  BY <1>8 DEF TimerCallback, HandleCallback, Beside, processVars
<1>9. CASE FileCallback
  BY <1>9 DEF FileCallback, HandleFile, Beside, processVars
<1>10. CASE PollStep
  BY <1>10, PollMoves DEF PollStep, Beside, managerVars, processVars
<1>11. CASE LimitReached \/ Continue
  BY <1>11 DEF LimitReached, Continue, Elsewhere, requestVars, managerVars, processVars
<1>12. CASE Tick \/ NetworkEvent \/ UserInterrupt \/ UNCHANGED vars
  BY <1>12 DEF Tick, NetworkEvent, UserInterrupt, vars, threadVars, requestVars, managerVars,
               processVars, contextVars
<1> QED
  BY <1>1, <1>2, <1>3, <1>4, <1>5, <1>6, <1>7, <1>8, <1>9, <1>10, <1>11, <1>12
  DEF Next, Program, SendMessage

LEMMA ChildTypeLemma ==
  /\ \A c \in ChildType : c.ioSocket \in Fds /\ c.errSocket \in Fds /\ c.waitContext \in 0 .. MaxContexts
  /\ \A io \in Fds, err \in Fds, w \in 0 .. MaxContexts :
       [ioSocket |-> io, errSocket |-> err, waitContext |-> w] \in ChildType
BY DEF ChildType

(* A process that is created: its number and its descriptors are free.     *)
LEMMA ChildCreated ==
  ASSUME ChildrenOK, ThreadOK, CreateProcessMessage
  PROVE  ChildrenOK'
<1>1. /\ DOMAIN childProcesses \subseteq Pids
      /\ \A p \in DOMAIN childProcesses : childProcesses[p] \in ChildType /\ proc[p] # "none"
      /\ proc \in [Pids -> {"none", "running", "zombie"}]
  BY DEF ChildrenOK
<1>2. UNCHANGED <<pc, childRequests, waiter, context>> /\ pc = "rewrite" /\ CreateProcess
  BY DEF CreateProcessMessage, Send, requestVars
<1>3. PICK pid, io, err : pid = LowestOf(FreePids) /\ io = LowestOf(FreeFds) /\ err = LowestOf(FreeFds \ {io})
  OBVIOUS
<1>4. pid \in Pids /\ proc[pid] = "none" /\ io \in Fds /\ err \in Fds
  BY <1>2, <1>3, LowestFree, TwoFree DEF CreateProcess, FreePids, FreeFds
<1>5. pid \notin DOMAIN childProcesses
  BY <1>1, <1>4
<1>6. proc' = proc \/ proc' = [proc EXCEPT ![pid] = "running"]
  BY <1>2, <1>3 DEF CreateProcess
<1>7. CASE UNCHANGED childProcesses
  <2>1. \A p \in DOMAIN childProcesses : proc'[p] = proc[p]
    BY <1>1, <1>4, <1>5, <1>6
  <2>2. proc' \in [Pids -> {"none", "running", "zombie"}]
    BY <1>1, <1>4, <1>6
  <2>3. Waiting' = Waiting
    BY <1>7 DEF Waiting
  <2>4. MayWait(waiter)' <=> MayWait(waiter)
    BY <1>2, <1>7 DEF MayWait
  <2> QED
    BY <1>1, <1>2, <1>7, <2>1, <2>2, <2>3, <2>4 DEF ChildrenOK
<1>8. ASSUME proc' = [proc EXCEPT ![pid] = "running"],
             childProcesses' = [p \in DOMAIN childProcesses \cup {pid} |->
               IF p = pid THEN [ioSocket |-> io, errSocket |-> err, waitContext |-> NoContext]
               ELSE childProcesses[p]]
      PROVE  ChildrenOK'
  <2>1. PICK new, c : /\ c = [ioSocket |-> io, errSocket |-> err, waitContext |-> NoContext]
                      /\ new = [p \in DOMAIN childProcesses \cup {pid} |->
                                  IF p = pid THEN c ELSE childProcesses[p]]
    OBVIOUS
  <2>2. childProcesses' = new
    BY <1>8, <2>1
  <2>3. c \in ChildType /\ c.waitContext = NoContext
    <3>1. 0 \in 0 .. MaxContexts
      BY ObjectAssumption
    <3> QED
      BY <1>4, <2>1, <3>1, ChildTypeLemma DEF NoContext
  <2>4. /\ DOMAIN new = DOMAIN childProcesses \cup {pid} /\ new[pid] = c
        /\ \A p \in DOMAIN childProcesses : new[p] = childProcesses[p]
    BY <1>5, <2>1
  <2>5. /\ proc' \in [Pids -> {"none", "running", "zombie"}] /\ proc'[pid] = "running"
        /\ \A p \in DOMAIN childProcesses : proc'[p] = proc[p]
    BY <1>1, <1>4, <1>5, <1>8
  <2>6. \A p \in DOMAIN new : new[p] \in ChildType /\ proc'[p] # "none"
    BY <1>1, <2>3, <2>4, <2>5
  <2>7. Waiting' = Waiting
    BY <1>5, <2>2, <2>3, <2>4 DEF Waiting
  <2>8. \A p \in Waiting : new[p].waitContext = context
    BY <2>4 DEF ChildrenOK, Waiting
  <2>9. DOMAIN new \subseteq Pids
    BY <1>1, <1>4, <2>4
  <2>10. /\ childRequests \in Seq(Pids) /\ IsInjective(childRequests)
         /\ ToSet(childRequests) = Waiting \cup (IF pc = "waitpid" THEN {waiter} ELSE {})
    BY DEF ChildrenOK
  <2> QED
    BY <1>2, <2>2, <2>5, <2>6, <2>7, <2>8, <2>9, <2>10 DEF ChildrenOK
<1> QED
  BY <1>2, <1>3, <1>7, <1>8 DEF CreateProcess

LEMMA ChildWaited ==
  ASSUME ChildrenOK, WaitMessage
  PROVE  ChildrenOK'
<1>1. PICK pid \in DOMAIN childProcesses :
        pc = "rewrite" /\ RequestExit(pid) /\ waiter' = pid /\ pc' = "waitpid"
        /\ UNCHANGED <<childProcesses, proc, context>>
  BY DEF WaitMessage, OfProcess, Send, managerVars, processVars
<1>2. MayWait(pid) /\ childRequests' = Append(childRequests, pid)
  BY <1>1 DEF RequestExit, RequestChildExitCallback
<1>3. /\ pid \in Pids /\ pid \notin ToSet(childRequests) /\ ToSet(childRequests) = Waiting
      /\ childRequests \in Seq(Pids) /\ IsInjective(childRequests)
  BY <1>1, <1>2 DEF ChildrenOK, MayWait, Waiting
<1>4. /\ childRequests' \in Seq(Pids) /\ IsInjective(childRequests')
      /\ ToSet(childRequests') = Waiting \cup {pid}
  BY <1>2, <1>3, AppendedLemma
<1>5. Waiting' = Waiting /\ MayWait(waiter)'
  BY <1>1, <1>2 DEF Waiting, MayWait
<1>6. IsInjective(childRequests)' /\ ToSet(childRequests)' = Waiting' \cup {waiter'}
  BY <1>1, <1>4, <1>5
<1> QED
  BY <1>1, <1>4, <1>5, <1>6 DEF ChildrenOK

LEMMA ReapedType ==
  ASSUME proc \in [Pids -> {"none", "running", "zombie"}], NEW pids
  PROVE  /\ Reaped(pids) \in [Pids -> {"none", "running", "zombie"}]
         /\ \A p \in Pids : Reaped(pids)[p] = IF p \in pids THEN "none" ELSE proc[p]
BY DEF Reaped

LEMMA ChildForgotten ==
  ASSUME ChildrenOK, NEW pid \in Pids, UNCHANGED context, pc' # "waitpid",
         childProcesses' = [p \in DOMAIN childProcesses \ {pid} |-> childProcesses[p]],
         proc' = Reaped({pid}),
         childRequests' \in Seq(Pids), IsInjective(childRequests'),
         ToSet(childRequests') = Waiting \ {pid}
  PROVE  ChildrenOK'
<1>1. /\ DOMAIN childProcesses \subseteq Pids
      /\ \A p \in DOMAIN childProcesses : childProcesses[p] \in ChildType /\ proc[p] # "none"
      /\ proc \in [Pids -> {"none", "running", "zombie"}]
      /\ \A p \in Waiting : childProcesses[p].waitContext = context
  BY DEF ChildrenOK
<1>2. PICK new : new = [p \in DOMAIN childProcesses \ {pid} |-> childProcesses[p]]
  OBVIOUS
<1>3. childProcesses' = new /\ DOMAIN new = DOMAIN childProcesses \ {pid}
      /\ \A p \in DOMAIN new : new[p] = childProcesses[p]
  BY <1>2
<1>4. proc' \in [Pids -> {"none", "running", "zombie"}] /\ \A p \in DOMAIN new : proc'[p] = proc[p]
  <2>1. \A p \in DOMAIN new : p \in Pids /\ p \notin {pid}
    BY <1>1, <1>3
  <2> QED
    BY <1>1, <2>1, ReapedType
<1>5. Waiting' = Waiting \ {pid}
  BY <1>3 DEF Waiting
<1>6. \A p \in DOMAIN new : new[p] \in ChildType /\ proc'[p] # "none"
  BY <1>1, <1>3, <1>4
<1>7. \A p \in Waiting \ {pid} : new[p].waitContext = context
  BY <1>1, <1>3 DEF Waiting
<1>8. IsInjective(childRequests)' /\ ToSet(childRequests)' = Waiting'
  BY <1>5
<1> QED
  BY <1>1, <1>3, <1>4, <1>5, <1>6, <1>7, <1>8 DEF ChildrenOK

LEMMA ChildLookedFor ==
  ASSUME ChildrenOK, ThreadOK, WaitChecked
  PROVE  /\ ChildrenOK'
         /\ \A p \in ToSet(childRequests') : p \in ToSet(childRequests) /\ proc'[p] = proc[p]
         /\ \A p \in ToSet(childRequests') : p = waiter => proc[p] # "zombie"
<1>1. /\ DOMAIN childProcesses \subseteq Pids
      /\ \A p \in DOMAIN childProcesses : childProcesses[p] \in ChildType /\ proc[p] # "none"
      /\ proc \in [Pids -> {"none", "running", "zombie"}]
      /\ childRequests \in Seq(Pids) /\ IsInjective(childRequests)
      /\ \A p \in Waiting : childProcesses[p].waitContext = context
  BY DEF ChildrenOK
<1>2. PICK pid : pid = waiter
  OBVIOUS
<1>3. pc = "waitpid" /\ pc' = "rewrite" /\ LookForExit(pid) /\ UNCHANGED context
  BY <1>2 DEF WaitChecked
<1>4. /\ pid \in DOMAIN childProcesses /\ childProcesses[pid].waitContext = NoContext
      /\ ToSet(childRequests) = Waiting \cup {pid} /\ pid \in Pids /\ pid \notin Waiting
  BY <1>1, <1>2, <1>3 DEF ChildrenOK, MayWait, Waiting
<1>5. CASE Exited(pid)
  <2>1. /\ childRequests' = NotRequested(childRequests, pid)
        /\ childProcesses' = [p \in DOMAIN childProcesses \ {pid} |-> childProcesses[p]]
        /\ proc' = Reaped({pid})
    BY <1>3, <1>5 DEF LookForExit, ExitedReply
  <2>2. PICK new : new = NotRequested(childRequests, pid)
    OBVIOUS
  <2>3. /\ new \in Seq(Pids) /\ IsInjective(new)
        /\ ToSet(new) = ToSet(childRequests) \ {pid}
    BY <1>1, <2>2, NotRequestedLemma
  <2>4. childRequests' = new /\ ToSet(new) = Waiting \ {pid}
    BY <1>4, <2>1, <2>2, <2>3
  <2>5. pc' # "waitpid"
    BY <1>3
  <2>6. ChildrenOK'
    BY <1>3, <1>4, <2>1, <2>3, <2>4, <2>5, ChildForgotten
  <2>7. \A p \in ToSet(new) : p \in ToSet(childRequests) /\ p # pid /\ p \in Pids
    BY <1>1, <1>4, <2>4 DEF Waiting
  <2>8. \A p \in ToSet(new) : proc'[p] = proc[p]
    BY <1>1, <2>1, <2>7, ReapedType
  <2> QED
    BY <1>2, <2>4, <2>6, <2>7, <2>8
<1>6. CASE ~Exited(pid)
  <2>1. childProcesses' = [childProcesses EXCEPT ![pid].waitContext = context]
        /\ UNCHANGED <<childRequests, proc>>
    BY <1>3, <1>6 DEF LookForExit
  <2>2. PICK c, new : c = [childProcesses[pid] EXCEPT !.waitContext = context]
                      /\ new = [childProcesses EXCEPT ![pid] = c]
    OBVIOUS
  <2>3. childProcesses' = new
    BY <2>1, <2>2
  <2>4. context \in 0 .. MaxContexts /\ context # NoContext
    BY DEF ThreadOK, NoContext
  <2>5. c \in ChildType /\ c.waitContext = context
    BY <1>1, <1>4, <2>2, <2>4 DEF ChildType
  <2>6. DOMAIN new = DOMAIN childProcesses /\ new[pid] = c
        /\ \A p \in DOMAIN childProcesses : p # pid => new[p] = childProcesses[p]
    BY <1>4, <2>2
  <2>7. Waiting' = Waiting \cup {pid}
    BY <1>4, <2>3, <2>4, <2>5, <2>6 DEF Waiting
  <2>8. \A p \in Waiting \cup {pid} : new[p].waitContext = context
    BY <1>1, <2>5, <2>6 DEF Waiting
  <2>9. \A p \in DOMAIN new : new[p] \in ChildType /\ proc[p] # "none"
    BY <1>1, <2>5, <2>6
  <2>10. ChildrenOK'
    <3>1. IsInjective(childRequests)' /\ ToSet(childRequests)' = Waiting'
      BY <1>1, <1>4, <2>1, <2>7
    <3> QED
      BY <1>1, <1>3, <2>1, <2>3, <2>6, <2>7, <2>8, <2>9, <3>1 DEF ChildrenOK
  <2> QED
    BY <1>2, <1>6, <2>1, <2>10 DEF Exited
<1> QED
  BY <1>5, <1>6

(* The callback of a child: the exit is reported, or the next one is       *)
(* looked at.                                                              *)
LEMMA ChildHandled ==
  ASSUME ChildrenOK, ThreadOK, ChildCallback
  PROVE  /\ ChildrenOK' /\ pc = "children" /\ exitedFlag
         /\ UNCHANGED <<pc, exitedFlag, sigchld, waiter>>
         /\ loop.child \in 1 .. Len(childRequests)
         /\ \/ /\ childRequests' = WithoutRequest(childRequests, loop.child)
               /\ loop'.child = loop.child /\ proc' = Reaped({NextChild})
            \/ /\ UNCHANGED <<childRequests, proc>> /\ loop'.child = loop.child + 1
               /\ proc[NextChild] # "zombie"
<1>1. /\ pc = "children" /\ exitedFlag /\ UNCHANGED <<pc, exitedFlag, sigchld, context, waiter>>
      /\ loop.child <= Len(childRequests)
      /\ \/ HandleChild(TRUE) /\ Exited(NextChild) /\ DoChildExit(NextChild)
         \/ HandleChild(FALSE) /\ ~Exited(NextChild) /\ UNCHANGED processVars
  BY DEF ChildCallback, HandleChild, Beside
<1>2. childRequests \in Seq(Pids) /\ IsInjective(childRequests) /\ ToSet(childRequests) = Waiting
  BY <1>1 DEF ChildrenOK
<1>3. loop \in LoopType /\ loop.child \in Nat \ {0}
  BY LoopFields DEF ThreadOK
<1>4. loop.child \in 1 .. Len(childRequests)
  <2>1. Len(childRequests) \in Nat
    BY <1>2, LenProperties
  <2> QED
    BY <1>1, <1>3, <2>1
<1>5. CASE HandleChild(TRUE) /\ Exited(NextChild) /\ DoChildExit(NextChild)
  <2>1. PICK pid, new : pid = NextChild /\ new = WithoutRequest(childRequests, loop.child)
    OBVIOUS
  <2>2. childRequests' = new /\ loop'.child = loop.child
    BY <1>3, <1>5, <2>1 DEF HandleChild, LoopType
  <2>3. /\ childProcesses' = [p \in DOMAIN childProcesses \ {pid} |-> childProcesses[p]]
        /\ proc' = Reaped({pid})
    BY <1>5, <2>1 DEF DoChildExit, ExitedReply
  <2>4. pid \in Pids /\ new \in Seq(Pids) /\ IsInjective(new) /\ ToSet(new) = Waiting \ {pid}
    <3>1. pid = childRequests[loop.child]
      BY <2>1 DEF NextChild
    <3>2. pid \in Pids
      BY <1>2, <1>4, <3>1, ToSetLemma
    <3> QED
      BY <1>2, <1>4, <2>1, <3>1, <3>2, WithoutRequestLemma
  <2>5. pc' # "waitpid"
    BY <1>1
  <2>6. ChildrenOK'
    BY <1>1, <2>2, <2>3, <2>4, <2>5, ChildForgotten
  <2> QED
    BY <1>1, <1>4, <2>1, <2>2, <2>3, <2>6
<1>6. CASE HandleChild(FALSE) /\ ~Exited(NextChild) /\ UNCHANGED processVars
  <2>1. UNCHANGED <<childRequests, proc, childProcesses>> /\ loop'.child = loop.child + 1
    BY <1>3, <1>6 DEF HandleChild, processVars, LoopType
  <2>2. Waiting' = Waiting
    BY <2>1 DEF Waiting
  <2>3. ChildrenOK'
    BY <1>1, <2>1, <2>2 DEF ChildrenOK, MayWait
  <2>4. proc[NextChild] # "zombie"
    BY <1>6 DEF Exited
  <2> QED
    BY <1>1, <1>4, <2>1, <2>3, <2>4
<1> QED
  BY <1>1, <1>5, <1>6

(* Every process is an external object, so that all are cleaned up.        *)
LEMMA ChildrenCleanedUp ==
  ASSUME ChildrenOK, ObjectsOK, NewContext
  PROVE  ChildrenOK' /\ DOMAIN childProcesses' = {} /\ ToSet(childRequests') = {} /\ childRequests' = <<>>
<1>1. /\ DOMAIN childProcesses \subseteq Pids
      /\ proc \in [Pids -> {"none", "running", "zombie"}]
      /\ childRequests \in Seq(Pids) /\ IsInjective(childRequests)
      /\ ToSet(childRequests) = Waiting \cup (IF pc = "waitpid" THEN {waiter} ELSE {})
  BY DEF ChildrenOK
<1>2. pc \in {"stopped", "done"} /\ pc' = "rewrite"
  BY DEF NewContext
<1>3. {pid \in DOMAIN childProcesses : <<"process", pid>> \in externalObjects} = DOMAIN childProcesses
  BY DEF ObjectsOK, Process
<1>4. CleanUpProcesses(DOMAIN childProcesses)
  BY <1>3 DEF NewContext
<1>5. PICK new : new = Dropped(childRequests, Waiting)
  OBVIOUS
<1>6. childRequests' = new /\ proc' = Reaped(DOMAIN childProcesses) /\ DOMAIN childProcesses' = {}
  BY <1>4, <1>5 DEF CleanUpProcesses, Waiting
<1>7. new \in Seq(Pids) /\ IsInjective(new) /\ ToSet(new) = {}
  BY <1>1, <1>2, <1>5, DroppedLemma, DroppedInjective
<1>8. new = <<>>
  BY <1>7, NonEmptyList
<1>9. proc' \in [Pids -> {"none", "running", "zombie"}]
  BY <1>1, <1>6, ReapedType
<1>10. Waiting' = {}
  BY <1>6 DEF Waiting
<1>11. IsInjective(childRequests)' /\ ToSet(childRequests)' = Waiting'
  BY <1>6, <1>7, <1>10
<1>12. ChildrenOK'
  BY <1>2, <1>6, <1>7, <1>9, <1>10, <1>11 DEF ChildrenOK
<1> QED
  BY <1>6, <1>7, <1>8, <1>12

LEMMA ChildGone ==
  ASSUME ChildrenOK, ChildEvent
  PROVE  ChildrenOK'
<1>1. PICK pid \in Pids : proc[pid] = "running" /\ proc' = [proc EXCEPT ![pid] = "zombie"]
  BY DEF ChildEvent, ChildExits
<1>2. UNCHANGED <<pc, childRequests, childProcesses, context, waiter>>
  BY DEF ChildEvent, requestVars, contextVars
<1>3. proc \in [Pids -> {"none", "running", "zombie"}] /\ DOMAIN childProcesses \subseteq Pids
  BY DEF ChildrenOK
<1>4. proc' \in [Pids -> {"none", "running", "zombie"}] /\ \A p \in Pids : proc[p] # "none" => proc'[p] # "none"
  BY <1>1, <1>3
<1>5. Waiting' = Waiting /\ (MayWait(waiter)' <=> MayWait(waiter))
  BY <1>2 DEF Waiting, MayWait
<1> QED
  BY <1>2, <1>3, <1>4, <1>5 DEF ChildrenOK

LEMMA ChildrenStep ==
  ASSUME ChildrenOK, ThreadOK, ObjectsOK, [Next]_vars
  PROVE  ChildrenOK'
<1>1. CASE /\ UNCHANGED <<childProcesses, proc, childRequests, context, waiter>>
           /\ pc' = "waitpid" <=> pc = "waitpid"
  <2>1. Waiting' = Waiting /\ (MayWait(waiter)' <=> MayWait(waiter))
    BY <1>1 DEF Waiting, MayWait
  <2> QED
    BY <1>1, <2>1 DEF ChildrenOK
<1> QED
  BY <1>1, ChildrenTouched, ChildCreated, ChildWaited, ChildLookedFor, ChildHandled, ChildrenCleanedUp, ChildGone

----------------------------------------------------------------------------
(* The exits of children.                                                  *)
LEMMA ExitsInitial == Init => ExitsOK
<1> SUFFICES ASSUME Init PROVE ExitsOK
  OBVIOUS
<1>1. childRequests = <<>> /\ pc = "rewrite"
  BY DEF Init, ThreadInit
<1>2. ToSet(childRequests) = {}
  BY <1>1, EmptyList
<1> QED
  BY <1>1, <1>2 DEF ExitsOK, ExitNotLost

(* What touches them.                                                      *)
OfExits == /\ UNCHANGED <<childRequests, sigchld, exitedFlag, proc, waiter>>
           /\ pc' = "waitpid" <=> pc = "waitpid"
           /\ pc' \in {"poll", "fds"} => pc \in {"poll", "fds"}
           /\ pc' = "children" => pc = "children" /\ loop' = loop
LEMMA ExitsTouched ==
  ASSUME [Next]_vars
  PROVE  \/ CreateProcessMessage \/ WaitMessage \/ WaitChecked \/ ChildCallback \/ PollStep
         \/ NewContext \/ ChildEvent \/ OfExits
<1>1. CASE TimerMessage
  BY <1>1 DEF TimerMessage, OfTimer, Send, processVars, OfExits
<1>2. CASE SocketMessage
  BY <1>2 DEF SocketMessage, OfSocket, Send, processVars, OfExits
<1>3. CASE SignalMessage
  BY <1>3 DEF SignalMessage, OfProcess, Send, requestVars, managerVars, processVars, OfExits
<1>4. CASE TraversalEnds
  BY <1>4 DEF TraversalEnds, EventLoop, Elsewhere, requestVars, managerVars, processVars, OfExits
<1>5. CASE HandleInterrupt
  BY <1>5 DEF HandleInterrupt, Elsewhere, requestVars, managerVars, processVars, OfExits
<1>6. CASE WaitForEvents
  BY <1>6 DEF WaitForEvents, EventLoop, Elsewhere, requestVars, managerVars, processVars, OfExits
<1>7. CASE EventLoopReturns
  BY <1>7 DEF EventLoopReturns, AfterEventLoop, Elsewhere, requestVars, managerVars, processVars, OfExits
<1>8. CASE TimerCallback
  BY <1>8 DEF TimerCallback, HandleCallback, Beside, processVars, OfExits
<1>9. CASE FileCallback
  <2>1. pc = "fds" /\ UNCHANGED <<pc, childRequests, exitedFlag, sigchld>>
    BY <1>9 DEF FileCallback, HandleFile
  <2>2. UNCHANGED <<proc, waiter>>
    BY <1>9 DEF FileCallback, Beside, processVars
  <2> QED
    BY <2>1, <2>2 DEF OfExits
<1>10. CASE LimitReached \/ Continue
  BY <1>10 DEF LimitReached, Continue, Elsewhere, requestVars, managerVars, processVars, OfExits
<1>11. CASE Tick \/ NetworkEvent \/ UserInterrupt \/ UNCHANGED vars
  BY <1>11 DEF Tick, NetworkEvent, UserInterrupt, vars, threadVars, requestVars, managerVars,
               processVars, contextVars, OfExits
<1> QED
  BY <1>1, <1>2, <1>3, <1>4, <1>5, <1>6, <1>7, <1>8, <1>9, <1>10, <1>11
  DEF Next, Program, SendMessage

(* The exits asked for when neither they nor the children change.          *)
LEMMA ExitsKept ==
  ASSUME ExitsOK, ThreadOK, ChildrenOK, OfExits
  PROVE  ExitsOK'
<1>1. pc' \in {"poll", "fds", "children"} => pc \in {"poll", "fds", "children"}
  BY DEF OfExits
<1>2. ExitNotLost'
  BY DEF OfExits, ExitNotLost, ExitsOK
<1> QED
  BY <1>1, <1>2 DEF OfExits, ExitsOK

LEMMA ExitsWaited ==
  ASSUME ExitsOK, ThreadOK, ChildrenOK, WaitMessage
  PROVE  ExitsOK'
<1>1. PICK pid \in DOMAIN childProcesses :
        /\ pc = "rewrite" /\ RequestExit(pid) /\ waiter' = pid /\ pc' = "waitpid"
        /\ UNCHANGED <<childProcesses, proc, exitedFlag>>
  BY DEF WaitMessage, OfProcess, Send, managerVars, processVars
<1>2. /\ childRequests' = Append(childRequests, pid) /\ MayWait(pid)
      /\ sigchld' = [sigchld EXCEPT !.installed = TRUE]
  BY <1>1 DEF RequestExit, RequestChildExitCallback
<1>3. /\ pid \in Pids /\ pid \notin ToSet(childRequests)
      /\ childRequests \in Seq(Pids) /\ IsInjective(childRequests)
  BY <1>1, <1>2 DEF ChildrenOK, MayWait, Waiting
<1>4. ToSet(childRequests') = ToSet(childRequests) \cup {pid}
  BY <1>2, <1>3, AppendedLemma
<1>5. sigchld'.installed /\ sigchld'.pending = sigchld.pending
  BY <1>2 DEF ThreadOK
<1>6. ExitNotLost'
  <2> SUFFICES ASSUME NEW p \in ToSet(childRequests'), proc'[p] = "zombie"
               PROVE  exitedFlag' \/ sigchld'.pending \/ (pc' = "waitpid" /\ waiter' = p)
    BY DEF ExitNotLost
  <2>1. CASE p = pid
    BY <1>1, <2>1
  <2>2. CASE p \in ToSet(childRequests)
    BY <1>1, <1>5, <2>2 DEF ExitsOK, ExitNotLost
  <2> QED
    BY <1>4, <2>1, <2>2
<1> QED
  BY <1>1, <1>5, <1>6 DEF ExitsOK

LEMMA ExitsChecked ==
  ASSUME ExitsOK, ThreadOK, ChildrenOK, WaitChecked
  PROVE  ExitsOK'
<1>1. pc = "waitpid" /\ pc' = "rewrite" /\ UNCHANGED <<exitedFlag, sigchld>>
  BY DEF WaitChecked
<1>2. /\ ChildrenOK' 
      /\ \A p \in ToSet(childRequests') : p \in ToSet(childRequests) /\ proc'[p] = proc[p]
      /\ \A p \in ToSet(childRequests') : p = waiter => proc[p] # "zombie"
  BY ChildLookedFor
<1>3. childRequests' # <<>> => childRequests # <<>>
  <2>1. childRequests \in Seq(Pids) /\ childRequests' \in Seq(Pids)
    BY <1>2 DEF ChildrenOK
  <2> QED
    BY <1>2, <2>1, NonEmptyList
<1>4. ExitNotLost'
  BY <1>1, <1>2 DEF ExitsOK, ExitNotLost
<1> QED
  BY <1>1, <1>3, <1>4 DEF ExitsOK

LEMMA ExitsHandled ==
  ASSUME ExitsOK, ThreadOK, ChildrenOK, ChildCallback
  PROVE  ExitsOK'
<1>1. /\ ChildrenOK' /\ pc = "children" /\ exitedFlag /\ UNCHANGED <<pc, exitedFlag, sigchld, waiter>>
      /\ loop.child \in 1 .. Len(childRequests)
      /\ \/ /\ childRequests' = WithoutRequest(childRequests, loop.child)
            /\ loop'.child = loop.child /\ proc' = Reaped({NextChild})
         \/ /\ UNCHANGED <<childRequests, proc>> /\ loop'.child = loop.child + 1
            /\ proc[NextChild] # "zombie"
  BY ChildHandled
<1>2. PICK n, c : n \in Nat /\ n = Len(childRequests) /\ c \in 1 .. n /\ c = loop.child
  BY <1>1, LenProperties DEF ChildrenOK
<1>3. /\ childRequests \in Seq(Pids) /\ IsInjective(childRequests)
      /\ proc \in [Pids -> {"none", "running", "zombie"}]
  BY DEF ChildrenOK
<1>4. \A i \in 1 .. n : childRequests[i] \in Pids
  BY <1>2, <1>3, ToSetLemma
<1>5. \A i \in 1 .. n : i < c /\ proc[childRequests[i]] = "zombie" => sigchld.pending
  BY <1>1, <1>2 DEF ExitsOK
<1>6. ASSUME childRequests' = WithoutRequest(childRequests, loop.child),
             loop'.child = loop.child, proc' = Reaped({NextChild}),
             NEW i \in 1 .. Len(childRequests'), i < loop'.child, proc'[childRequests'[i]] = "zombie"
      PROVE  sigchld.pending
  <2>1. /\ Len(childRequests') = n - 1
        /\ \A j \in 1 .. n - 1 : j # c => childRequests'[j] = childRequests[j]
    <3>1. PICK rest : rest = WithoutRequest(childRequests, c)
      OBVIOUS
    <3>2. Len(rest) = n - 1 /\ \A j \in 1 .. n - 1 : j # c => rest[j] = childRequests[j]
      BY <1>2, <1>3, <3>1, WithoutRequestLemma
    <3> QED
      BY <1>2, <1>6, <3>1, <3>2
  <2>2. i \in 1 .. n - 1 /\ i \in 1 .. n /\ i < c
    BY <1>2, <1>6, <2>1
  <2>3. childRequests'[i] = childRequests[i]
    BY <2>1, <2>2
  <2>4. proc[childRequests[i]] = "zombie"
    BY <1>3, <1>4, <1>6, <2>2, <2>3, ReapedType
  <2> QED
    BY <1>5, <2>2, <2>4
<1>7. ASSUME UNCHANGED <<childRequests, proc>>, loop'.child = loop.child + 1, proc[NextChild] # "zombie",
             NEW i \in 1 .. Len(childRequests'), i < loop'.child, proc'[childRequests'[i]] = "zombie"
      PROVE  sigchld.pending
  <2>1. i \in 1 .. n /\ (i < c \/ i = c)
    BY <1>2, <1>7
  <2> QED
    BY <1>2, <1>5, <1>7, <2>1 DEF NextChild
<1>8. childRequests' # <<>> => sigchld'.installed
  <2>1. childRequests # <<>>
    BY <1>2, EmptySeq
  <2> QED
    BY <1>1, <2>1 DEF ExitsOK
<1>9. sigchld'.blocked /\ ExitNotLost'
  BY <1>1 DEF ExitsOK, ExitNotLost
<1>10. \A i \in 1 .. Len(childRequests') :
         i < loop'.child /\ proc'[childRequests'[i]] = "zombie" => sigchld'.pending
  BY <1>1, <1>6, <1>7
<1> QED
  BY <1>8, <1>9, <1>10 DEF ExitsOK

LEMMA ExitAnnounced ==
  ASSUME ExitsOK, ThreadOK, ChildrenOK, ChildEvent
  PROVE  ExitsOK'
<1>1. SendSigchld /\ UNCHANGED <<pc, loop, childRequests, waiter>>
  BY DEF ChildEvent, ChildExits, requestVars
<1>2. CASE childRequests = <<>>
  <2>1. ToSet(childRequests') = {} /\ Len(childRequests') = 0
    BY <1>1, <1>2, EmptyList
  <2>2. ExitNotLost'
    BY <2>1 DEF ExitNotLost
  <2>3. pc' \in {"poll", "fds", "children"} => sigchld'.blocked
    BY <1>1 DEF ExitsOK, SendSigchld, ThreadOK
  <2> QED
    BY <1>1, <1>2, <2>1, <2>2, <2>3 DEF ExitsOK
<1>3. CASE childRequests # <<>>
  <2>1. sigchld.installed
    BY <1>3 DEF ExitsOK
  <2>2. CASE sigchld.blocked
    <3>1. sigchld'.pending /\ sigchld'.installed /\ sigchld'.blocked
      BY <1>1, <2>1, <2>2 DEF SendSigchld, ThreadOK
    <3> QED
      BY <3>1 DEF ExitsOK, ExitNotLost
  <2>3. CASE ~sigchld.blocked
    <3>1. exitedFlag' /\ sigchld' = sigchld
      BY <1>1, <2>1, <2>3 DEF SendSigchld
    <3>2. pc \notin {"poll", "fds", "children"}
      BY <2>3 DEF ExitsOK
    <3>3. ExitNotLost'
      BY <3>1 DEF ExitNotLost
    <3> QED
      BY <1>1, <2>1, <3>1, <3>2, <3>3 DEF ExitsOK
  <2> QED
    BY <2>2, <2>3
<1> QED
  BY <1>2, <1>3

(* The steps of the loop: the signal is blocked before the children are    *)
(* looked at, and the flag is cleared after them.                          *)
LEMMA ExitsUnblocked ==
  ASSUME ExitsOK, ThreadOK, UnblockSigchld, UNCHANGED <<childRequests, proc, waiter>>,
         pc # "waitpid", pc' \notin {"poll", "fds", "children"}
  PROVE  ExitsOK'
<1>1. sigchld'.installed = sigchld.installed /\ (exitedFlag \/ sigchld.pending => exitedFlag')
  BY DEF UnblockSigchld, ThreadOK
<1>2. ExitNotLost'
  BY <1>1 DEF ExitsOK, ExitNotLost
<1> QED
  BY <1>1, <1>2 DEF ExitsOK

LEMMA ExitsPolled ==
  ASSUME ExitsOK, ThreadOK, ChildrenOK, PollStep
  PROVE  ExitsOK'
<1>1. UNCHANGED <<proc, waiter>>
  BY DEF PollStep, Beside, managerVars, processVars
<1>2. CASE ReadClock \/ CallbacksHandled \/ Decide \/ SkipFile \/ Again \/ FilesReady(Revents)
  <2>1. OfExits
    BY <1>1, <1>2 DEF ReadClock, CallbacksHandled, Decide, SkipFile, Again, FilesReady, OfExits
  <2> QED
    BY <2>1, ExitsKept
<1>3. CASE BlockSigchld
  <2>1. /\ pc = "block" /\ pc' = "poll" /\ UNCHANGED <<childRequests, exitedFlag>>
        /\ sigchld'.blocked /\ sigchld'.installed = sigchld.installed
        /\ sigchld'.pending = sigchld.pending
    BY <1>3 DEF BlockSigchld, CollectFiles, ThreadOK
  <2>2. ExitNotLost'
    BY <1>1, <2>1 DEF ExitsOK, ExitNotLost
  <2> QED
    BY <2>1, <2>2 DEF ExitsOK
<1>4. CASE PollInterrupted
  <2>1. UnblockSigchld /\ UNCHANGED childRequests /\ pc = "poll" /\ pc' = "again"
    BY <1>4 DEF PollInterrupted
  <2> QED
    BY <1>1, <2>1, ExitsUnblocked
<1>5. CASE Unblock
  <2>1. UnblockSigchld /\ UNCHANGED childRequests /\ pc = "unblock" /\ pc' = "again"
    BY <1>5 DEF Unblock
  <2> QED
    BY <1>1, <2>1, ExitsUnblocked
<1>6. CASE FilesHandled \/ PollTimedOut(Revents)
  <2>1. /\ UNCHANGED <<childRequests, exitedFlag, sigchld>>
        /\ pc \in {"poll", "fds"} /\ pc' = "children" /\ loop'.child = 1
    BY <1>6 DEF FilesHandled, PollTimedOut, ThreadOK, LoopType
  <2>2. ExitNotLost'
    BY <1>1, <2>1 DEF ExitsOK, ExitNotLost
  <2>3. \A i \in 1 .. Len(childRequests') : ~(i < loop'.child)
    BY <2>1
  <2> QED
    BY <2>1, <2>2, <2>3 DEF ExitsOK
<1>7. CASE ChildrenHandled
  <2>1. /\ pc = "children" /\ pc' = "unblock" /\ UNCHANGED <<childRequests, sigchld>>
        /\ exitedFlag => loop.child > Len(childRequests)
    BY <1>7 DEF ChildrenHandled
  <2>2. ExitNotLost'
    <3> SUFFICES ASSUME NEW p \in ToSet(childRequests), proc[p] = "zombie" PROVE sigchld.pending
      BY <1>1, <2>1 DEF ExitNotLost
    <3>1. CASE exitedFlag
      <4>1. PICK i \in 1 .. Len(childRequests) : childRequests[i] = p
        BY ToSetLemma DEF ChildrenOK
      <4>2. i < loop.child
        <5>1. loop.child \in Nat /\ Len(childRequests) \in Nat
          BY LoopFields, LenProperties DEF ThreadOK, ChildrenOK
        <5> QED
          BY <2>1, <3>1, <5>1
      <4> QED
        BY <2>1, <4>1, <4>2 DEF ExitsOK
    <3>2. CASE ~exitedFlag
      BY <2>1, <3>2 DEF ExitsOK, ExitNotLost
    <3> QED
      BY <3>1, <3>2
  <2> QED
    BY <2>1, <2>2 DEF ExitsOK
<1> QED
  BY <1>2, <1>3, <1>4, <1>5, <1>6, <1>7 DEF PollStep, ThreadSteps

LEMMA ExitsStep ==
  ASSUME ExitsOK, ThreadOK, ChildrenOK, ObjectsOK, [Next]_vars
  PROVE  ExitsOK'
<1>1. CASE CreateProcessMessage
  <2>1. UNCHANGED <<childRequests, exitedFlag, sigchld, pc, waiter>> /\ pc = "rewrite" /\ CreateProcess
    BY <1>1 DEF CreateProcessMessage, Send, requestVars
  <2>2. \A p \in Pids : proc'[p] = "zombie" => proc[p] = "zombie"
    <3>1. PICK pid : pid = LowestOf(FreePids)
      OBVIOUS
    <3>2. proc' = proc \/ proc' = [proc EXCEPT ![pid] = "running"]
      BY <2>1, <3>1 DEF CreateProcess
    <3> QED
      BY <3>2 DEF ChildrenOK
  <2>3. \A p \in ToSet(childRequests) : p \in Pids
    BY ToSetLemma DEF ChildrenOK
  <2>4. ExitNotLost'
    BY <2>1, <2>2, <2>3 DEF ExitsOK, ExitNotLost
  <2> QED
    BY <2>1, <2>4 DEF ExitsOK
<1>2. CASE NewContext
  <2>1. childRequests' = <<>> /\ ToSet(childRequests') = {} /\ pc' = "rewrite"
    BY <1>2, ChildrenCleanedUp DEF NewContext
  <2> QED
    BY <2>1 DEF ExitsOK, ExitNotLost
<1> QED
  BY <1>1, <1>2, ExitsTouched, ExitsKept, ExitsWaited, ExitsChecked, ExitsHandled, ExitsPolled, ExitAnnounced

----------------------------------------------------------------------------
(* The sockets.                                                            *)
LEMMA SocketsInitial == Init => SocketsOK /\ FilesOK
<1> SUFFICES ASSUME Init PROVE SocketsOK /\ FilesOK
  OBVIOUS
<1>1. /\ activeSockets = <<>> /\ chan = [f \in Fds |-> Channel("free")]
      /\ flags = [f \in Fds |-> {}] /\ active = <<>>
  BY DEF Init, ThreadInit, SocketsInit
<1>2. DOMAIN activeSockets = {}
  <2>1. DOMAIN <<>> = {}
    OBVIOUS
  <2> QED
    BY <1>1, <2>1
<1>3. Channel("free") \in ChannelType /\ Channel("free").kind = "free"
  BY SocketAssumption DEF Channel, ChannelType, Kinds
<1>4. SocketsOK
  BY <1>1, <1>2, <1>3 DEF SocketsOK, SocketAt
<1>5. FilesOK
  BY <1>1, EmptyList DEF FilesOK
<1> QED
  BY <1>4, <1>5

LEMMA StatesLemma ==
  /\ \A st \in States : "WAITING_TO_READ" \in st =>
       /\ st \subseteq {"WAITING_TO_READ", "WAITING_TO_WRITE"}
       /\ st \ {"WAITING_TO_READ"} \in States
       /\ Wishes(st \ {"WAITING_TO_READ"}) = Wishes(st) \ {"READ"}
  /\ \A st \in States : "WAITING_TO_WRITE" \in st =>
       /\ st \subseteq {"WAITING_TO_READ", "WAITING_TO_WRITE"}
       /\ st \ {"WAITING_TO_WRITE"} \in States
       /\ Wishes(st \ {"WAITING_TO_WRITE"}) = Wishes(st) \ {"WRITE"}
       /\ "WRITE" \in Wishes(st)
  /\ \A st \in States : "WAITING_TO_ACCEPT" \in st => st = {"WAITING_TO_ACCEPT"}
  /\ \A st \in States : "WAITING_TO_CONNECT" \in st => st = {"WAITING_TO_CONNECT"}
  /\ \A st \in SUBSET {"WAITING_TO_READ"} :
       /\ st \cup {"WAITING_TO_WRITE"} \in States
       /\ Wishes(st \cup {"WAITING_TO_WRITE"}) = Wishes(st) \cup {"WRITE"}
  /\ \A st \in SUBSET {"WAITING_TO_WRITE"} :
       /\ st \cup {"WAITING_TO_READ"} \in States
       /\ Wishes(st \cup {"WAITING_TO_READ"}) = Wishes(st) \cup {"READ"}
  /\ {} \in States /\ Wishes({}) = {}
  /\ {"LISTENING"} \in States /\ Wishes({"LISTENING"}) = {}
  /\ {"WAITING_TO_ACCEPT"} \in States /\ Wishes({"WAITING_TO_ACCEPT"}) = {"READ"}
  /\ {"WAITING_TO_CONNECT"} \in States /\ Wishes({"WAITING_TO_CONNECT"}) = {"WRITE"}
  /\ \A st : Wishes(st) \in SUBSET Want
  /\ States \subseteq SUBSET Bits
<1>1. ASSUME NEW st \in States
      PROVE  /\ st \in SUBSET Bits
             /\ "WAITING_TO_READ" \in st \/ "WAITING_TO_WRITE" \in st
                  => st \subseteq {"WAITING_TO_READ", "WAITING_TO_WRITE"}
             /\ "WAITING_TO_ACCEPT" \in st => st = {"WAITING_TO_ACCEPT"}
             /\ "WAITING_TO_CONNECT" \in st => st = {"WAITING_TO_CONNECT"}
  BY DEF States
<1>2. \A st \in SUBSET {"WAITING_TO_READ", "WAITING_TO_WRITE"} : st \in States
  BY DEF States, Bits
<1>3. /\ \A st \in SUBSET {"WAITING_TO_READ"} : st \cup {"WAITING_TO_WRITE"} \in States
      /\ \A st \in SUBSET {"WAITING_TO_WRITE"} : st \cup {"WAITING_TO_READ"} \in States
      /\ {} \in States
  BY <1>2
<1>8. {"LISTENING"} \in States /\ {"WAITING_TO_ACCEPT"} \in States /\ {"WAITING_TO_CONNECT"} \in States
  BY DEF States, Bits
<1>9. \A st \in States : "WAITING_TO_READ" \in st \/ "WAITING_TO_WRITE" \in st =>
        st \ {"WAITING_TO_READ"} \in States /\ st \ {"WAITING_TO_WRITE"} \in States
  BY <1>1, <1>2
<1>4. \A st : Wishes(st) \in SUBSET Want
  BY DEF Wishes
<1>5. /\ Wishes({}) = {} /\ Wishes({"LISTENING"}) = {}
      /\ Wishes({"WAITING_TO_ACCEPT"}) = {"READ"}
      /\ Wishes({"WAITING_TO_CONNECT"}) = {"WRITE"}
  BY DEF Wishes, Want
<1>6. /\ \A st \in SUBSET {"WAITING_TO_READ"} : Wishes(st \cup {"WAITING_TO_WRITE"}) = Wishes(st) \cup {"WRITE"}
      /\ \A st \in SUBSET {"WAITING_TO_WRITE"} : Wishes(st \cup {"WAITING_TO_READ"}) = Wishes(st) \cup {"READ"}
  BY DEF Wishes, Want
<1>7. \A st \in SUBSET {"WAITING_TO_READ", "WAITING_TO_WRITE"} :
        /\ Wishes(st \ {"WAITING_TO_READ"}) = Wishes(st) \ {"READ"}
        /\ Wishes(st \ {"WAITING_TO_WRITE"}) = Wishes(st) \ {"WRITE"}
        /\ "WAITING_TO_WRITE" \in st => "WRITE" \in Wishes(st)
  BY DEF Wishes, Want
<1> QED
  BY <1>1, <1>2, <1>3, <1>4, <1>5, <1>6, <1>7, <1>8, <1>9

(* The list of the files watched follows their flags.                      *)
FlagsBecome(fd, w) ==
  /\ flags' \in [Fds -> SUBSET Want] /\ flags'[fd] = w
  /\ \A f \in Fds \ {fd} : flags'[f] = flags[f]
LEMMA FilesWanted ==
  ASSUME FilesOK, flags \in [Fds -> SUBSET Want], NEW fd \in Fds, NEW w \in SUBSET Want,
         w # {} => flags[fd] # {}, Wanted(w, fd)
  PROVE  FilesOK' /\ FlagsBecome(fd, w)
<1>1. FlagsBecome(fd, w)
  BY DEF Wanted, FlagsBecome
<1>2. active \in Seq(Fds) /\ IsInjective(active) /\ ToSet(active) = {f \in Fds : flags[f] # {}}
  BY DEF FilesOK
<1>3. PICK rest : rest = Dropped(active, {fd})
  OBVIOUS
<1>4. rest \in Seq(Fds) /\ IsInjective(rest) /\ ToSet(rest) = ToSet(active) \ {fd}
  BY <1>2, <1>3, DroppedLemma, DroppedInjective
<1>5. CASE w = {}
  <2>1. active' = rest
    BY <1>3, <1>5 DEF Wanted
  <2>2. {f \in Fds : flags'[f] # {}} = ToSet(rest)
    BY <1>1, <1>2, <1>4, <1>5 DEF FlagsBecome
  <2>3. IsInjective(active)' /\ ToSet(active)' = ToSet(rest)
    BY <1>4, <2>1
  <2> QED
    BY <1>1, <1>4, <2>1, <2>2, <2>3 DEF FilesOK
<1>6. CASE w # {}
  <2>1. active' = active
    BY <1>6 DEF Wanted
  <2>2. {f \in Fds : flags'[f] # {}} = ToSet(active)
    BY <1>1, <1>2, <1>6 DEF FlagsBecome
  <2>3. IsInjective(active)' /\ ToSet(active)' = ToSet(active)
    BY <1>2, <2>1
  <2> QED
    BY <1>1, <1>2, <2>1, <2>2, <2>3 DEF FilesOK
<1> QED
  BY <1>5, <1>6

LEMMA FilesWantTo ==
  ASSUME FilesOK, flags \in [Fds -> SUBSET Want], NEW fd \in Fds, NEW w \in Want, WantTo(w, fd)
  PROVE  FilesOK' /\ FlagsBecome(fd, flags[fd] \cup {w})
<1>1. FlagsBecome(fd, flags[fd] \cup {w})
  BY DEF WantTo, FlagsBecome
<1>2. active \in Seq(Fds) /\ IsInjective(active) /\ ToSet(active) = {f \in Fds : flags[f] # {}}
  BY DEF FilesOK
<1>3. PICK more : more = <<fd>> \o active
  OBVIOUS
<1>4. {f \in Fds : flags'[f] # {}} = ToSet(active) \cup {fd}
  BY <1>1, <1>2 DEF FlagsBecome
<1>5. CASE flags[fd] = {}
  <2>1. active' = more
    BY <1>3, <1>5 DEF WantTo
  <2>2. more \in Seq(Fds) /\ IsInjective(more) /\ ToSet(more) = ToSet(active) \cup {fd}
    BY <1>2, <1>3, <1>5, LinkedLemma
  <2>3. IsInjective(active)' /\ ToSet(active)' = ToSet(active) \cup {fd}
    BY <2>1, <2>2
  <2> QED
    BY <1>1, <1>4, <2>1, <2>2, <2>3 DEF FilesOK
<1>6. CASE flags[fd] # {}
  <2>1. active' = active
    BY <1>6 DEF WantTo
  <2>2. IsInjective(active)' /\ ToSet(active)' = ToSet(active) \cup {fd}
    BY <1>2, <1>6, <2>1
  <2> QED
    BY <1>1, <1>2, <1>4, <2>1, <2>2 DEF FilesOK
<1> QED
  BY <1>1, <1>5, <1>6

LEMMA FilesWantAgain ==
  ASSUME FilesOK, flags \in [Fds -> SUBSET Want], NEW fd \in Fds, NEW left, flags[fd] # {},
         WantAgain(fd, left)
  PROVE  FilesOK' /\ FlagsBecome(fd, flags[fd])
<1>1. UNCHANGED flags /\ FlagsBecome(fd, flags[fd])
  BY DEF WantAgain, FlagsBecome
<1>2. active \in Seq(Fds) /\ IsInjective(active) /\ ToSet(active) = {f \in Fds : flags[f] # {}}
  BY DEF FilesOK
<1>3. PICK rest, more : rest = Dropped(active, {fd}) /\ more = <<fd>> \o rest
  OBVIOUS
<1>4. rest \in Seq(Fds) /\ IsInjective(rest) /\ ToSet(rest) = ToSet(active) \ {fd}
  BY <1>2, <1>3, DroppedLemma, DroppedInjective
<1>5. more \in Seq(Fds) /\ IsInjective(more) /\ ToSet(more) = ToSet(rest) \cup {fd}
  <2>1. fd \in Fds /\ fd \notin ToSet(rest)
    BY <1>4
  <2>2. <<fd>> \o rest \in Seq(Fds) /\ IsInjective(<<fd>> \o rest) /\ ToSet(<<fd>> \o rest) = ToSet(rest) \cup {fd}
    BY <1>4, <2>1, LinkedLemma
  <2> QED
    BY <1>3, <2>2
<1>6. ToSet(more) = ToSet(active)
  BY <1>2, <1>4, <1>5
<1>7. active' = more \/ active' = active
  BY <1>3 DEF WantAgain
<1>8. active' \in Seq(Fds) /\ IsInjective(active)' /\ ToSet(active)' = ToSet(active)
  BY <1>2, <1>5, <1>6, <1>7
<1> QED
  BY <1>1, <1>2, <1>8 DEF FilesOK

LEMMA FilesKept ==
  ASSUME FilesOK, flags \in [Fds -> SUBSET Want], UNCHANGED <<flags, active>>
  PROVE  FilesOK' /\ \A fd \in Fds : FlagsBecome(fd, flags[fd])
BY DEF FilesOK, FlagsBecome

(* A step changes some descriptors and leaves the others alone.            *)
LEMMA SocketsMoved ==
  ASSUME SocketsOK, NEW S \in SUBSET Fds, UNCHANGED context,
         chan' \in [Fds -> ChannelType], flags' \in [Fds -> SUBSET Want],
         DOMAIN activeSockets' \subseteq Fds,
         \A fd \in Fds \ S :
           /\ fd \in DOMAIN activeSockets' <=> fd \in DOMAIN activeSockets
           /\ fd \in DOMAIN activeSockets => activeSockets'[fd] = activeSockets[fd]
           /\ chan'[fd].kind = chan[fd].kind /\ flags'[fd] = flags[fd],
         \A fd \in S : SocketAt(fd, activeSockets', chan', flags', context)
  PROVE  SocketsOK'
<1>1. ASSUME NEW fd \in Fds \ S PROVE SocketAt(fd, activeSockets', chan', flags', context)
  <2>1. SocketAt(fd, activeSockets, chan, flags, context)
    BY DEF SocketsOK
  <2>2. CASE fd \in DOMAIN activeSockets
    BY <1>1, <2>1, <2>2 DEF SocketAt
  <2>3. CASE fd \notin DOMAIN activeSockets
    BY <1>1, <2>1, <2>3 DEF SocketAt
  <2> QED
    BY <2>2, <2>3
<1>2. \A fd \in Fds : SocketAt(fd, activeSockets', chan', flags', context')
  BY <1>1
<1> QED
  BY <1>2 DEF SocketsOK

SocketBecomes(fd, s) ==
  /\ DOMAIN activeSockets' = DOMAIN activeSockets \cup {fd} /\ activeSockets'[fd] = s
  /\ \A f \in DOMAIN activeSockets \ {fd} : activeSockets'[f] = activeSockets[f]
SocketForgotten(fd) ==
  /\ DOMAIN activeSockets' = DOMAIN activeSockets \ {fd}
  /\ \A f \in DOMAIN activeSockets \ {fd} : activeSockets'[f] = activeSockets[f]
ChannelMoves(fd) ==
  chan' \in [Fds -> ChannelType] /\ \A f \in Fds \ {fd} : chan'[f] = chan[f]

LEMMA SocketSettles ==
  ASSUME SocketsOK, UNCHANGED context, NEW fd \in Fds, NEW s, SocketBecomes(fd, s), SocketGood(s, context),
         ChannelMoves(fd), chan'[fd].kind # "free", FlagsBecome(fd, Wishes(s.state))
  PROVE  SocketsOK'
<1>1. SocketAt(fd, activeSockets', chan', flags', context)
  BY DEF SocketAt, SocketBecomes, ChannelMoves, FlagsBecome
<1>2. /\ chan' \in [Fds -> ChannelType] /\ flags' \in [Fds -> SUBSET Want]
      /\ DOMAIN activeSockets' \subseteq Fds
  BY DEF SocketsOK, SocketBecomes, ChannelMoves, FlagsBecome
<1>3. \A f \in Fds \ {fd} :
        /\ f \in DOMAIN activeSockets' <=> f \in DOMAIN activeSockets
        /\ f \in DOMAIN activeSockets => activeSockets'[f] = activeSockets[f]
        /\ chan'[f].kind = chan[f].kind /\ flags'[f] = flags[f]
  BY DEF SocketBecomes, ChannelMoves, FlagsBecome
<1>4. {fd} \in SUBSET Fds
  OBVIOUS
<1> QED
  BY <1>1, <1>2, <1>3, <1>4, SocketsMoved

LEMMA SocketGoes ==
  ASSUME SocketsOK, UNCHANGED context, NEW fd \in Fds, SocketForgotten(fd),
         ChannelMoves(fd), chan'[fd].kind = "free", FlagsBecome(fd, {})
  PROVE  SocketsOK'
<1>1. SocketAt(fd, activeSockets', chan', flags', context)
  BY DEF SocketAt, SocketForgotten, ChannelMoves, FlagsBecome
<1>2. /\ chan' \in [Fds -> ChannelType] /\ flags' \in [Fds -> SUBSET Want]
      /\ DOMAIN activeSockets' \subseteq Fds
  BY DEF SocketsOK, SocketForgotten, ChannelMoves, FlagsBecome
<1>3. \A f \in Fds \ {fd} :
        /\ f \in DOMAIN activeSockets' <=> f \in DOMAIN activeSockets
        /\ f \in DOMAIN activeSockets => activeSockets'[f] = activeSockets[f]
        /\ chan'[f].kind = chan[f].kind /\ flags'[f] = flags[f]
  BY DEF SocketForgotten, ChannelMoves, FlagsBecome
<1>4. {fd} \in SUBSET Fds
  OBVIOUS
<1> QED
  BY <1>1, <1>2, <1>3, <1>4, SocketsMoved

(* The external objects after a socket changed.                            *)
Visible(sockets) == {f \in DOMAIN sockets : "WAITING_TO_CONNECT" \notin sockets[f].state}
LEMMA ObjectsLemma ==
  ObjectsOK <=>
    \A o : o \in externalObjects <=>
      \/ \E id \in DOMAIN timerMap : o = <<"timer", id>>
      \/ \E pid \in DOMAIN childProcesses : o = <<"process", pid>>
      \/ \E fd \in Visible(activeSockets) : o = <<"socket", fd>>
BY DEF ObjectsOK, Timer, Process, Socket, Visible

LEMMA ObjectsMoved ==
  ASSUME ObjectsOK, UNCHANGED <<timerMap, childProcesses>>, NEW fd,
         \/ /\ externalObjects' = externalObjects
            /\ Visible(activeSockets') = Visible(activeSockets)
         \/ /\ externalObjects' = externalObjects \cup {<<"socket", fd>>}
            /\ Visible(activeSockets') = Visible(activeSockets) \cup {fd}
         \/ /\ externalObjects' = externalObjects \ {<<"socket", fd>>}
            /\ Visible(activeSockets') = Visible(activeSockets) \ {fd}
  PROVE  ObjectsOK'
<1> DEFINE Others(o) == \/ \E id \in DOMAIN timerMap : o = <<"timer", id>>
                        \/ \E pid \in DOMAIN childProcesses : o = <<"process", pid>>
<1>1. \A o : o \in externalObjects <=> Others(o) \/ \E f \in Visible(activeSockets) : o = <<"socket", f>>
  BY ObjectsLemma
<1>2. \A o : Others(o) => \A f : o # <<"socket", f>>
  OBVIOUS
<1>3. SUFFICES \A o : o \in externalObjects' <=>
                        Others(o) \/ \E f \in Visible(activeSockets') : o = <<"socket", f>>
  <2>1. ObjectsOK' <=>
          \A o : o \in externalObjects' <=>
            \/ \E id \in DOMAIN timerMap' : o = <<"timer", id>>
            \/ \E pid \in DOMAIN childProcesses' : o = <<"process", pid>>
            \/ \E f \in Visible(activeSockets') : o = <<"socket", f>>
    BY DEF ObjectsOK, Timer, Process, Socket, Visible
  <2> QED
    BY <1>3, <2>1
<1> HIDE DEF Others
<1>4. \A f, g : <<"socket", f>> = <<"socket", g>> <=> f = g
  OBVIOUS
<1> QED
  BY <1>1, <1>2, <1>4

LEMMA VisibleBecomes ==
  ASSUME NEW fd, NEW s, SocketBecomes(fd, s)
  PROVE  Visible(activeSockets') = IF "WAITING_TO_CONNECT" \in s.state THEN Visible(activeSockets) \ {fd}
                                   ELSE Visible(activeSockets) \cup {fd}
BY DEF Visible, SocketBecomes
LEMMA VisibleForgotten ==
  ASSUME NEW fd, SocketForgotten(fd)
  PROVE  Visible(activeSockets') = Visible(activeSockets) \ {fd}
BY DEF Visible, SocketForgotten

(* The replies.                                                            *)
Quiet == {"startedTimer", "stoppedTimer", "timeOut", "socketError", "sent", "received",
          "processError", "signaledProcess"}
LEMMA RepliesLemma ==
  ASSUME NEW o, NEW others
  PROVE  /\ ReplyWith(<<>>, o, others) => externalObjects' = externalObjects \cup others
         /\ \A m : ReplyWith(<<m>>, o, others) =>
              externalObjects' = (externalObjects \cup others \cup Appears(m, o)) \ Disappears(m, o)
         /\ \A m, n : ReplyWith(<<m, n>>, o, others) =>
              externalObjects' = (externalObjects \cup others \cup Appears(m, o) \cup Appears(n, o))
                                 \ (Disappears(m, o) \cup Disappears(n, o))
<1>1. ASSUME ReplyWith(<<>>, o, others) PROVE externalObjects' = externalObjects \cup others
  <2>1. PICK u : u = <<>>
    OBVIOUS
  <2>2. DOMAIN u = {}
    BY <2>1
  <2>3. externalObjects' =
       (externalObjects \cup others \cup UNION {Appears(u[i], o) : i \in DOMAIN u})
       \ UNION {Disappears(u[i], o) : i \in DOMAIN u}
    BY <1>1, <2>1 DEF ReplyWith
  <2> QED
    BY <2>2, <2>3
<1>2. ASSUME NEW m, ReplyWith(<<m>>, o, others)
      PROVE  externalObjects' = (externalObjects \cup others \cup Appears(m, o)) \ Disappears(m, o)
  <2>1. PICK u : u = <<m>>
    OBVIOUS
  <2>2. DOMAIN u = {1} /\ u[1] = m
    BY <2>1
  <2>3. externalObjects' =
       (externalObjects \cup others \cup UNION {Appears(u[i], o) : i \in DOMAIN u})
       \ UNION {Disappears(u[i], o) : i \in DOMAIN u}
    BY <1>2, <2>1 DEF ReplyWith
  <2> QED
    BY <2>2, <2>3
<1>3. ASSUME NEW m, NEW n, ReplyWith(<<m, n>>, o, others)
      PROVE  externalObjects' = (externalObjects \cup others \cup Appears(m, o) \cup Appears(n, o))
                                 \ (Disappears(m, o) \cup Disappears(n, o))
  <2>1. PICK u : u = <<m, n>>
    OBVIOUS
  <2>2. DOMAIN u = {1, 2} /\ u[1] = m /\ u[2] = n
    BY <2>1
  <2>3. externalObjects' =
       (externalObjects \cup others \cup UNION {Appears(u[i], o) : i \in DOMAIN u})
       \ UNION {Disappears(u[i], o) : i \in DOMAIN u}
    BY <1>3, <2>1 DEF ReplyWith
  <2> QED
    BY <2>2, <2>3
<1> QED
  BY <1>1, <1>2, <1>3

LEMMA ReplyLemma ==
  ASSUME NEW o
  PROVE  /\ Reply(<<>>, o) => externalObjects' = externalObjects
         /\ \A m \in Quiet : Reply(<<m>>, o) => externalObjects' = externalObjects
         /\ Reply(<<"createdTimer">>, o) => externalObjects' = externalObjects \cup {<<"timer", o>>}
         /\ Reply(<<"deletedTimer">>, o) => externalObjects' = externalObjects \ {<<"timer", o>>}
         /\ \A m \in {"createdSocket", "acceptedClient"} :
              Reply(<<m>>, o) => externalObjects' = externalObjects \cup {<<"socket", o>>}
         /\ Reply(<<"closedSocket">>, o) => externalObjects' = externalObjects \ {<<"socket", o>>}
         /\ Reply(<<"socketError", "closedSocket">>, o) =>
              externalObjects' = externalObjects \ {<<"socket", o>>}
         /\ Reply(<<"exited">>, o) => externalObjects' = externalObjects \ {<<"process", o>>}
<1>1. /\ \A m \in Quiet : Appears(m, o) = {} /\ Disappears(m, o) = {}
      /\ Appears("createdTimer", o) = {<<"timer", o>>} /\ Disappears("createdTimer", o) = {}
      /\ Appears("deletedTimer", o) = {} /\ Disappears("deletedTimer", o) = {<<"timer", o>>}
      /\ \A m \in {"createdSocket", "acceptedClient"} :
           Appears(m, o) = {<<"socket", o>>} /\ Disappears(m, o) = {}
      /\ Appears("closedSocket", o) = {} /\ Disappears("closedSocket", o) = {<<"socket", o>>}
      /\ Appears("exited", o) = {} /\ Disappears("exited", o) = {<<"process", o>>}
  BY DEF Appears, Disappears, Quiet
<1>2. "socketError" \in Quiet
  BY DEF Quiet
<1>3. \A ms : Reply(ms, o) <=> ReplyWith(ms, o, {})
  BY DEF Reply
<1>4. /\ ReplyWith(<<>>, o, {}) => externalObjects' = externalObjects
      /\ \A m : ReplyWith(<<m>>, o, {}) =>
           externalObjects' = (externalObjects \cup Appears(m, o)) \ Disappears(m, o)
      /\ \A m, n : ReplyWith(<<m, n>>, o, {}) =>
           externalObjects' = (externalObjects \cup Appears(m, o) \cup Appears(n, o))
                              \ (Disappears(m, o) \cup Disappears(n, o))
  <2>1. PICK nothing : nothing = {}
    OBVIOUS
  <2>2. externalObjects \cup nothing = externalObjects
    BY <2>1
  <2>3. /\ ReplyWith(<<>>, o, nothing) => externalObjects' = externalObjects \cup nothing
        /\ \A m : ReplyWith(<<m>>, o, nothing) =>
             externalObjects' = (externalObjects \cup nothing \cup Appears(m, o)) \ Disappears(m, o)
        /\ \A m, n : ReplyWith(<<m, n>>, o, nothing) =>
             externalObjects' = (externalObjects \cup nothing \cup Appears(m, o) \cup Appears(n, o))
                                \ (Disappears(m, o) \cup Disappears(n, o))
    BY RepliesLemma
  <2> QED
    BY <2>1, <2>2, <2>3
<1>5. Reply(<<>>, o) => externalObjects' = externalObjects
  BY <1>3, <1>4
<1>6. \A m : Reply(<<m>>, o) => externalObjects' = (externalObjects \cup Appears(m, o)) \ Disappears(m, o)
  BY <1>3, <1>4
<1>7. Reply(<<"socketError", "closedSocket">>, o) => externalObjects' = externalObjects \ {<<"socket", o>>}
  BY <1>1, <1>2, <1>3, <1>4
<1>8. \A m \in Quiet : Reply(<<m>>, o) => externalObjects' = externalObjects
  BY <1>1, <1>6
<1>9. \A m \in {"createdSocket", "acceptedClient"} :
        Reply(<<m>>, o) => externalObjects' = externalObjects \cup {<<"socket", o>>}
  BY <1>1, <1>6
<1>10. /\ Reply(<<"createdTimer">>, o) => externalObjects' = externalObjects \cup {<<"timer", o>>}
       /\ Reply(<<"deletedTimer">>, o) => externalObjects' = externalObjects \ {<<"timer", o>>}
       /\ Reply(<<"closedSocket">>, o) => externalObjects' = externalObjects \ {<<"socket", o>>}
       /\ Reply(<<"exited">>, o) => externalObjects' = externalObjects \ {<<"process", o>>}
  BY <1>1, <1>6
<1> QED
  BY <1>5, <1>7, <1>8, <1>9, <1>10

(* What is known of a socket and of a free descriptor.                     *)
LEMMA SocketKnown ==
  ASSUME SocketsOK, NEW fd \in DOMAIN activeSockets
  PROVE  /\ fd \in Fds /\ SocketGood(activeSockets[fd], context)
         /\ flags[fd] = Wishes(activeSockets[fd].state)
         /\ chan[fd] \in ChannelType /\ chan[fd].kind # "free"
BY DEF SocketsOK, SocketAt

LEMMA SocketFree ==
  ASSUME SocketsOK, NEW fd \in FreeFds
  PROVE  fd \in Fds /\ fd \notin DOMAIN activeSockets /\ flags[fd] = {}
BY DEF SocketsOK, SocketAt, FreeFds

LEMMA ChannelLemma ==
  ASSUME chan \in [Fds -> ChannelType], NEW fd \in Fds
  PROVE  /\ UNCHANGED chan => ChannelMoves(fd) /\ chan'[fd].kind = chan[fd].kind
         /\ Took(fd) => ChannelMoves(fd) /\ chan'[fd].kind = chan[fd].kind
         /\ \A k \in Kinds : chan' = [chan EXCEPT ![fd] = Channel(k)] =>
              ChannelMoves(fd) /\ chan'[fd].kind = k
         /\ \A n \in 0 .. chan[fd].room : chan' = [chan EXCEPT ![fd].room = @ - n] =>
              ChannelMoves(fd) /\ chan'[fd].kind = chan[fd].kind
<1>1. UNCHANGED chan => ChannelMoves(fd) /\ chan'[fd].kind = chan[fd].kind
  BY DEF ChannelMoves
<1>2. Took(fd) => ChannelMoves(fd) /\ chan'[fd].kind = chan[fd].kind
  BY DEF ChannelMoves, Took, ChannelType
<1>3. ASSUME NEW k \in Kinds, chan' = [chan EXCEPT ![fd] = Channel(k)]
      PROVE  ChannelMoves(fd) /\ chan'[fd].kind = k
  <2>1. Channel(k) \in ChannelType /\ Channel(k).kind = k
    <3>1. PICK c, r : c = Channel(k) /\ r = (IF k = "stream" THEN MaxRoom ELSE 0)
      OBVIOUS
    <3>2. r \in 0 .. MaxRoom
      BY <3>1, SocketAssumption
    <3>3. c = [kind |-> k, data |-> FALSE, peer |-> "open", broken |-> FALSE, room |-> r]
      BY <3>1 DEF Channel
    <3>4. c \in ChannelType
      BY <3>2, <3>3 DEF ChannelType
    <3> QED
      BY <3>1, <3>3, <3>4
  <2> QED
    BY <1>3, <2>1 DEF ChannelMoves
<1>4. ASSUME NEW n \in 0 .. chan[fd].room, chan' = [chan EXCEPT ![fd].room = @ - n]
      PROVE  ChannelMoves(fd) /\ chan'[fd].kind = chan[fd].kind
  <2>1. chan[fd].room \in 0 .. MaxRoom /\ MaxRoom \in Nat
    BY SocketAssumption DEF ChannelType
  <2>2. chan[fd].room - n \in 0 .. MaxRoom
    BY <2>1
  <2>3. PICK c : c = [chan[fd] EXCEPT !.room = @ - n]
    OBVIOUS
  <2>4. c \in ChannelType /\ c.kind = chan[fd].kind
    BY <2>2, <2>3 DEF ChannelType
  <2>5. chan' = [chan EXCEPT ![fd] = c]
    BY <1>4, <2>3
  <2> QED
    BY <2>4, <2>5 DEF ChannelMoves
<1> QED
  BY <1>1, <1>2, <1>3, <1>4

LEMMA SocketRecords ==
  /\ \A s \in SocketType :
       /\ s.state \in SUBSET Bits /\ s.readOnly \in BOOLEAN /\ s.seenEOF \in BOOLEAN
       /\ s.context \in 0 .. MaxContexts /\ s.unsent \in 0 .. MaxRoom + 1
  /\ \A st \in SUBSET Bits, ro \in BOOLEAN, eof \in BOOLEAN, c \in 0 .. MaxContexts, u \in 0 .. MaxRoom + 1 :
       [state |-> st, readOnly |-> ro, seenEOF |-> eof, context |-> c, unsent |-> u] \in SocketType
  /\ \A s \in SocketType, st \in SUBSET Bits :
       [s EXCEPT !.state = st] \in SocketType /\ [s EXCEPT !.state = st].state = st
       /\ [s EXCEPT !.state = st].context = s.context
  /\ \A s \in SocketType, c \in 0 .. MaxContexts :
       [s EXCEPT !.context = c] \in SocketType /\ [s EXCEPT !.context = c].state = s.state
       /\ [s EXCEPT !.context = c].context = c
  /\ \A s \in SocketType, u \in 0 .. MaxRoom + 1 :
       [s EXCEPT !.unsent = u] \in SocketType /\ [s EXCEPT !.unsent = u].state = s.state
       /\ [s EXCEPT !.unsent = u].context = s.context
  /\ \A s \in SocketType, b \in BOOLEAN :
       /\ [s EXCEPT !.seenEOF = b] \in SocketType /\ [s EXCEPT !.seenEOF = b].state = s.state
       /\ [s EXCEPT !.seenEOF = b].context = s.context
       /\ [s EXCEPT !.readOnly = b] \in SocketType /\ [s EXCEPT !.readOnly = b].state = s.state
       /\ [s EXCEPT !.readOnly = b].context = s.context
BY DEF SocketType

LEMMA ActiveSocketLemma ==
  ASSUME NEW st \in SUBSET Bits, NEW ro \in BOOLEAN, NEW c \in 0 .. MaxContexts
  PROVE  /\ ActiveSocket(st, ro) \in SocketType /\ ActiveSocket(st, ro).state = st
         /\ [ActiveSocket(st, ro) EXCEPT !.context = c] \in SocketType
         /\ [ActiveSocket(st, ro) EXCEPT !.context = c].state = st
         /\ [ActiveSocket(st, ro) EXCEPT !.context = c].context = c
<1>1. 0 \in 0 .. MaxContexts /\ 0 \in 0 .. MaxRoom + 1
  BY ObjectAssumption, SocketAssumption
<1>2. ActiveSocket(st, ro) \in SocketType /\ ActiveSocket(st, ro).state = st
  BY <1>1, SocketRecords DEF ActiveSocket, NoContext
<1> QED
  BY <1>2, SocketRecords

LEMMA SocketWaits ==
  ASSUME NEW s \in SocketType, NEW st \in States, NEW c \in 0 .. MaxContexts
  PROVE  /\ SocketGood([s EXCEPT !.state = st, !.context = c], c)
         /\ [s EXCEPT !.state = st, !.context = c].state = st
<1> DEFINE t == [s EXCEPT !.state = st, !.context = c]
<1>1. st \in SUBSET Bits
  BY StatesLemma
<1>2. t \in SocketType /\ t.state = st /\ t.context = c
  BY <1>1 DEF SocketType
<1> QED
  BY <1>2 DEF SocketGood

(* The ways a socket ends up.                                              *)
Idle == UNCHANGED <<context, timerMap, childProcesses>>
LEMMA Settled ==
  ASSUME SocketsOK, ObjectsOK, Idle, NEW fd \in Fds, NEW s, SocketBecomes(fd, s), SocketGood(s, context),
         ChannelMoves(fd), chan'[fd].kind # "free", FlagsBecome(fd, Wishes(s.state)),
         \/ /\ externalObjects' = externalObjects
            /\ fd \in Visible(activeSockets) <=> "WAITING_TO_CONNECT" \notin s.state
         \/ /\ externalObjects' = externalObjects \cup {<<"socket", fd>>}
            /\ "WAITING_TO_CONNECT" \notin s.state
  PROVE  SocketsOK' /\ ObjectsOK'
<1>1. SocketsOK'
  BY SocketSettles DEF Idle
<1>2. Visible(activeSockets') = IF "WAITING_TO_CONNECT" \in s.state THEN Visible(activeSockets) \ {fd}
                                ELSE Visible(activeSockets) \cup {fd}
  BY VisibleBecomes
<1>3. \/ /\ externalObjects' = externalObjects
         /\ Visible(activeSockets') = Visible(activeSockets)
      \/ /\ externalObjects' = externalObjects \cup {<<"socket", fd>>}
         /\ Visible(activeSockets') = Visible(activeSockets) \cup {fd}
  BY <1>2
<1> QED
  BY <1>1, <1>3, ObjectsMoved DEF Idle

LEMMA Gone ==
  ASSUME SocketsOK, ObjectsOK, Idle, NEW fd \in Fds, SocketForgotten(fd),
         ChannelMoves(fd), chan'[fd].kind = "free", FlagsBecome(fd, {}),
         \/ externalObjects' = externalObjects \ {<<"socket", fd>>}
         \/ externalObjects' = externalObjects /\ fd \notin Visible(activeSockets)
  PROVE  SocketsOK' /\ ObjectsOK'
<1>1. SocketsOK'
  BY SocketGoes DEF Idle
<1>2. Visible(activeSockets') = Visible(activeSockets) \ {fd}
  BY VisibleForgotten
<1>3. \/ /\ externalObjects' = externalObjects
         /\ Visible(activeSockets') = Visible(activeSockets)
      \/ /\ externalObjects' = externalObjects \ {<<"socket", fd>>}
         /\ Visible(activeSockets') = Visible(activeSockets) \ {fd}
  BY <1>2
<1> QED
  BY <1>1, <1>3, ObjectsMoved DEF Idle

LEMMA SocketUpdates ==
  /\ \A fd \in DOMAIN activeSockets : UNCHANGED activeSockets => SocketBecomes(fd, activeSockets[fd])
  /\ \A fd \in DOMAIN activeSockets : \A s :
       activeSockets' = [activeSockets EXCEPT ![fd] = s] => SocketBecomes(fd, s)
  /\ \A fd, s : activeSockets' = Known(activeSockets, fd, s) => SocketBecomes(fd, s)
  /\ \A fd : activeSockets' = Forgotten(activeSockets, fd) => SocketForgotten(fd)
<1>1. ASSUME NEW fd \in DOMAIN activeSockets, UNCHANGED activeSockets PROVE SocketBecomes(fd, activeSockets[fd])
  BY <1>1 DEF SocketBecomes
<1>2. ASSUME NEW fd \in DOMAIN activeSockets, NEW s, activeSockets' = [activeSockets EXCEPT ![fd] = s]
      PROVE  SocketBecomes(fd, s)
  BY <1>2 DEF SocketBecomes
<1>3. ASSUME NEW fd, NEW s, activeSockets' = Known(activeSockets, fd, s) PROVE SocketBecomes(fd, s)
  BY <1>3 DEF SocketBecomes, Known
<1>4. ASSUME NEW fd, activeSockets' = Forgotten(activeSockets, fd) PROVE SocketForgotten(fd)
  BY <1>4 DEF SocketForgotten, Forgotten
<1> QED
  BY <1>1, <1>2, <1>3, <1>4

(* The messages.                                                           *)
AllSockets == SocketsOK /\ FilesOK /\ ObjectsOK
LEMMA NothingMoves ==
  ASSUME AllSockets, Idle, UNCHANGED <<activeSockets, chan, flags, active, externalObjects>>
  PROVE  AllSockets'
BY DEF AllSockets, SocketsOK, FilesOK, ObjectsOK, Idle

LEMMA FreshSocket ==
  ASSUME NEW st \in {{}, {"LISTENING"}}, NEW ro \in BOOLEAN
  PROVE  /\ SocketGood(ActiveSocket(st, ro), context) /\ ActiveSocket(st, ro).state = st
         /\ Wishes(st) = {} /\ "WAITING_TO_CONNECT" \notin st
<1>1. 0 \in 0 .. MaxContexts /\ st \in SUBSET Bits
  BY ObjectAssumption DEF Bits
<1>2. ActiveSocket(st, ro) \in SocketType /\ ActiveSocket(st, ro).state = st
  BY <1>1, ActiveSocketLemma
<1>3. st \in States /\ Wishes(st) = {}
  <2>1. st \in States
    BY <1>1 DEF States
  <2>2. Wishes(st) = {}
    BY DEF Wishes, Want
  <2> QED
    BY <2>1, <2>2
<1> QED
  BY <1>2, <1>3 DEF SocketGood

LEMMA Opened ==
  ASSUME AllSockets, Idle, NEW fd \in FreeFds, NEW st \in {{}, {"LISTENING"}}, NEW kind \in {"stream", "listener"},
         activeSockets' = Known(activeSockets, fd, ActiveSocket(st, FALSE)),
         chan' = [chan EXCEPT ![fd] = Channel(kind)],
         Reply(<<"createdSocket">>, fd), UNCHANGED <<flags, active>>
  PROVE  AllSockets'
<1>0. SocketsOK /\ FilesOK /\ ObjectsOK /\ flags \in [Fds -> SUBSET Want] /\ chan \in [Fds -> ChannelType]
  BY DEF AllSockets, SocketsOK
<1>1. fd \in Fds /\ fd \notin DOMAIN activeSockets /\ flags[fd] = {}
  BY <1>0, SocketFree
<1>2. PICK s : s = ActiveSocket(st, FALSE)
  OBVIOUS
<1>3. SocketBecomes(fd, s)
  BY <1>2, SocketUpdates
<1>4. s.state = st /\ SocketGood(s, context) /\ Wishes(s.state) = {} /\ "WAITING_TO_CONNECT" \notin s.state
  BY <1>2, FreshSocket
<1>5. ChannelMoves(fd) /\ chan'[fd].kind # "free"
  BY <1>0, <1>1, ChannelLemma DEF Kinds
<1>6. FilesOK' /\ FlagsBecome(fd, Wishes(s.state))
  BY <1>0, <1>1, <1>4, FilesKept
<1>7. externalObjects' = externalObjects \cup {<<"socket", fd>>}
  BY ReplyLemma
<1>8. SocketsOK' /\ ObjectsOK'
  BY <1>0, <1>1, <1>3, <1>4, <1>5, <1>6, <1>7, Settled
<1> QED
  BY <1>6, <1>8 DEF AllSockets

LEMMA ClientCreated ==
  ASSUME AllSockets, ThreadOK, Idle, CreateClientTcpSocket
  PROVE  AllSockets'
<1>0. SocketsOK /\ FilesOK /\ ObjectsOK /\ flags \in [Fds -> SUBSET Want] /\ chan \in [Fds -> ChannelType]
  BY DEF AllSockets, SocketsOK
<1>1. PICK fd : fd = LowestOf(FreeFds)
  OBVIOUS
<1>2. fd \in FreeFds /\ fd \in Fds /\ fd \notin DOMAIN activeSockets /\ flags[fd] = {}
  BY <1>0, <1>1, LowestFree, SocketFree DEF CreateClientTcpSocket
<1>3. fd \notin Visible(activeSockets)
  BY <1>2 DEF Visible
<1>4. ASSUME activeSockets' = Known(activeSockets, fd, ActiveSocket({}, FALSE)),
             chan' = [chan EXCEPT ![fd] = Channel("stream")],
             Reply(<<"createdSocket">>, fd), UNCHANGED <<flags, active>>
      PROVE  AllSockets'
  BY <1>2, <1>4, Opened
<1>5. ASSUME activeSockets' = Known(activeSockets, fd,
                 [ActiveSocket({"WAITING_TO_CONNECT"}, FALSE) EXCEPT !.context = context]),
             chan' = [chan EXCEPT ![fd] = Channel("connecting")],
             WantTo("WRITE", fd), Reply(<<>>, fd)
      PROVE  AllSockets'
  <2>1. PICK s : s = [ActiveSocket({"WAITING_TO_CONNECT"}, FALSE) EXCEPT !.context = context]
    OBVIOUS
  <2>2. SocketBecomes(fd, s)
    BY <1>5, <2>1, SocketUpdates
  <2>3. s.state = {"WAITING_TO_CONNECT"} /\ SocketGood(s, context)
    <3>1. context \in 0 .. MaxContexts /\ {"WAITING_TO_CONNECT"} \in SUBSET Bits
      BY DEF ThreadOK, Bits
    <3>2. s \in SocketType /\ s.state = {"WAITING_TO_CONNECT"}
      BY <2>1, <3>1, ActiveSocketLemma
    <3> QED
      BY <3>2, StatesLemma DEF SocketGood
  <2>4. ChannelMoves(fd) /\ chan'[fd].kind = "connecting"
    BY <1>0, <1>2, <1>5, ChannelLemma DEF Kinds
  <2>5. FilesOK' /\ FlagsBecome(fd, flags[fd] \cup {"WRITE"})
    BY <1>0, <1>2, <1>5, FilesWantTo DEF Want
  <2>6. externalObjects' = externalObjects
    BY <1>5, ReplyLemma
  <2>7. Wishes(s.state) = {"WRITE"}
    BY <2>3, StatesLemma
  <2>8. FlagsBecome(fd, Wishes(s.state)) /\ "WAITING_TO_CONNECT" \in s.state
    BY <1>2, <2>3, <2>5, <2>7
  <2>9. SocketsOK' /\ ObjectsOK'
    BY <1>0, <1>2, <1>3, <2>2, <2>3, <2>4, <2>6, <2>8, Settled
  <2> QED
    BY <2>5, <2>9 DEF AllSockets
<1>6. ASSUME Reply(<<"socketError">>, fd), UNCHANGED <<activeSockets, chan, flags, active>>
      PROVE  AllSockets'
  <2>1. externalObjects' = externalObjects
    BY <1>6, ReplyLemma DEF Quiet
  <2> QED
    BY <1>6, <2>1, NothingMoves
<1> QED
  BY <1>1, <1>4, <1>5, <1>6 DEF CreateClientTcpSocket

LEMMA ServerCreated ==
  ASSUME AllSockets, Idle, CreateServerTcpSocket
  PROVE  AllSockets'
<1>1. PICK fd : fd = LowestOf(FreeFds)
  OBVIOUS
<1>2. fd \in FreeFds /\ UNCHANGED <<flags, active>>
  BY <1>1, LowestFree DEF CreateServerTcpSocket
<1>3. CASE /\ activeSockets' = Known(activeSockets, fd, ActiveSocket({"LISTENING"}, FALSE))
           /\ chan' = [chan EXCEPT ![fd] = Channel("listener")]
           /\ Reply(<<"createdSocket">>, fd)
  BY <1>2, <1>3, Opened
<1>4. CASE Reply(<<"socketError">>, fd) /\ UNCHANGED <<activeSockets, chan>>
  <2>1. externalObjects' = externalObjects
    BY <1>4, ReplyLemma DEF Quiet
  <2> QED
    BY <1>2, <1>4, <2>1, NothingMoves
<1> QED
  BY <1>1, <1>3, <1>4 DEF CreateServerTcpSocket

(* accept(): the listening socket is left as s, and a client may be new.   *)
LEMMA ClientAccepted ==
  ASSUME AllSockets, Idle, NEW fd \in DOMAIN activeSockets, NEW s, NEW sockets,
         DOMAIN sockets = DOMAIN activeSockets, sockets[fd] = s,
         \A f \in DOMAIN activeSockets \ {fd} : sockets[f] = activeSockets[f],
         SocketGood(s, context), "WAITING_TO_CONNECT" \notin s.state,
         "WAITING_TO_CONNECT" \notin activeSockets[fd].state,
         FilesOK', FlagsBecome(fd, Wishes(s.state)), AcceptNow(fd, sockets)
  PROVE  AllSockets'
<1>0. SocketsOK /\ FilesOK /\ ObjectsOK /\ flags \in [Fds -> SUBSET Want] /\ chan \in [Fds -> ChannelType]
  BY DEF AllSockets, SocketsOK
<1>1. fd \in Fds /\ chan[fd] \in ChannelType /\ chan[fd].kind # "free" /\ DOMAIN activeSockets \subseteq Fds
  BY <1>0, SocketKnown DEF SocketsOK
<1>2. fd \in Visible(activeSockets)
  BY DEF Visible
<1>3. CASE activeSockets' = sockets /\ Took(fd) /\ Reply(<<"socketError">>, fd)
  <2>1. SocketBecomes(fd, s)
    BY <1>3 DEF SocketBecomes
  <2>2. ChannelMoves(fd) /\ chan'[fd].kind # "free"
    BY <1>0, <1>1, <1>3, ChannelLemma
  <2>3. externalObjects' = externalObjects
    BY <1>3, ReplyLemma DEF Quiet
  <2>4. SocketsOK' /\ ObjectsOK'
    BY <1>0, <1>1, <1>2, <2>1, <2>2, <2>3, Settled
  <2> QED
    BY <2>4 DEF AllSockets
<1>4. ASSUME NEW new \in FreeFds, activeSockets' = Known(sockets, new, ActiveSocket({}, FALSE)),
             chan' = [chan EXCEPT ![fd].data = FALSE, ![new] = Channel("stream")],
             Reply(<<"acceptedClient">>, new)
      PROVE  AllSockets'
  <2>1. new \in Fds /\ new \notin DOMAIN activeSockets /\ flags[new] = {} /\ new # fd
    BY <1>0, SocketFree
  <2>2. PICK client : client = ActiveSocket({}, FALSE)
    OBVIOUS
  <2>3. /\ SocketGood(client, context) /\ client.state = {} /\ Wishes(client.state) = {}
        /\ "WAITING_TO_CONNECT" \notin client.state
    BY <2>2, FreshSocket
  <2>4. /\ DOMAIN activeSockets' = DOMAIN activeSockets \cup {new}
        /\ activeSockets'[new] = client /\ activeSockets'[fd] = s
        /\ \A f \in DOMAIN activeSockets \ {fd} : activeSockets'[f] = activeSockets[f]
    BY <1>4, <2>1, <2>2 DEF Known
  <2>5. /\ chan' \in [Fds -> ChannelType] /\ chan'[new].kind # "free" /\ chan'[fd].kind # "free"
        /\ \A f \in Fds \ {fd, new} : chan'[f] = chan[f]
    <3>1. PICK c, d, middle : /\ c = Channel("stream") /\ d = [chan[fd] EXCEPT !.data = FALSE]
                              /\ middle = [chan EXCEPT ![fd].data = FALSE]
      OBVIOUS
    <3>2. c \in ChannelType /\ c.kind = "stream"
      BY <3>1, SocketAssumption DEF Channel, ChannelType, Kinds
    <3>3. d \in ChannelType /\ d.kind = chan[fd].kind
      BY <1>1, <3>1 DEF ChannelType
    <3>4. /\ middle \in [Fds -> ChannelType] /\ middle[fd] = d
          /\ \A f \in Fds \ {fd} : middle[f] = chan[f]
      BY <1>0, <1>1, <3>1, <3>3
    <3>5. chan' = [middle EXCEPT ![new] = c]
      BY <1>4, <3>1
    <3> QED
      BY <1>1, <2>1, <3>2, <3>3, <3>4, <3>5
  <2>6. /\ flags' \in [Fds -> SUBSET Want] /\ flags'[fd] = Wishes(s.state) /\ flags'[new] = {}
        /\ \A f \in Fds \ {fd} : flags'[f] = flags[f]
    BY <2>1 DEF FlagsBecome
  <2>7. SocketsOK'
    <3>1. /\ SocketAt(fd, activeSockets', chan', flags', context)
          /\ SocketAt(new, activeSockets', chan', flags', context)
      BY <2>3, <2>4, <2>5, <2>6 DEF SocketAt
    <3>2. PICK S \in SUBSET Fds : S = {fd, new}
      BY <1>1, <2>1
    <3>3. \A f \in Fds \ S :
           /\ f \in DOMAIN activeSockets' <=> f \in DOMAIN activeSockets
           /\ f \in DOMAIN activeSockets => activeSockets'[f] = activeSockets[f]
           /\ chan'[f].kind = chan[f].kind /\ flags'[f] = flags[f]
      BY <2>4, <2>5, <2>6, <3>2
    <3>4. DOMAIN activeSockets' \subseteq Fds
      BY <1>1, <2>1, <2>4
    <3>5. \A f \in S : SocketAt(f, activeSockets', chan', flags', context)
      BY <3>1, <3>2
    <3>6. UNCHANGED context
      BY DEF Idle
    <3> QED
      BY <1>0, <2>5, <2>6, <3>2, <3>3, <3>4, <3>5, <3>6, SocketsMoved
  <2>8. Visible(activeSockets') = Visible(activeSockets) \cup {new}
    BY <2>3, <2>4 DEF Visible
  <2>9. externalObjects' = externalObjects \cup {<<"socket", new>>}
    BY <1>4, ReplyLemma
  <2>10. ObjectsOK'
    BY <1>0, <2>8, <2>9, ObjectsMoved DEF Idle
  <2> QED
    BY <2>7, <2>10 DEF AllSockets
<1>5. PICK new : new = LowestOf(FreeFds)
  OBVIOUS
<1>6. FreeFds # {} => new \in FreeFds
  BY <1>5, LowestFree
<1> QED
  BY <1>3, <1>4, <1>5, <1>6 DEF AcceptNow

LEMMA AcceptAsked ==
  ASSUME AllSockets, ThreadOK, Idle, NEW fd \in DOMAIN activeSockets, AcceptClient(fd)
  PROVE  AllSockets'
<1>0. SocketsOK /\ FilesOK /\ ObjectsOK /\ flags \in [Fds -> SUBSET Want] /\ chan \in [Fds -> ChannelType]
  BY DEF AllSockets, SocketsOK
<1>1. /\ fd \in Fds /\ SocketGood(activeSockets[fd], context) /\ activeSockets[fd].state = {"LISTENING"}
      /\ flags[fd] = Wishes(activeSockets[fd].state) /\ flags[fd] = {} /\ chan[fd].kind # "free"
  <2>1. activeSockets[fd].state = {"LISTENING"}
    BY DEF AcceptClient
  <2>2. Wishes(activeSockets[fd].state) = {}
    BY <2>1 DEF Wishes, Want
  <2> QED
    BY <1>0, <2>1, <2>2, SocketKnown
<1>2. CASE AcceptNow(fd, activeSockets) /\ UNCHANGED <<flags, active>>
  <2>1. PICK sockets : sockets = activeSockets
    OBVIOUS
  <2>2. AcceptNow(fd, sockets)
    BY <1>2, <2>1 DEF AcceptNow
  <2>3. FilesOK' /\ FlagsBecome(fd, Wishes(activeSockets[fd].state))
    BY <1>0, <1>1, <1>2, FilesKept
  <2>4. PICK s : s = activeSockets[fd]
    OBVIOUS
  <2>5. /\ SocketGood(s, context) /\ FlagsBecome(fd, Wishes(s.state)) /\ s.state = {"LISTENING"}
        /\ "WAITING_TO_CONNECT" \notin s.state
    BY <1>1, <2>3, <2>4
  <2> QED
    BY <2>1, <2>2, <2>3, <2>4, <2>5, ClientAccepted
<1>3. CASE /\ activeSockets' = [activeSockets EXCEPT ![fd].state = {"WAITING_TO_ACCEPT"}, ![fd].context = context]
           /\ WantTo("READ", fd) /\ Reply(<<>>, fd) /\ UNCHANGED chan
  <2>1. PICK st, c, s : st = {"WAITING_TO_ACCEPT"} /\ c = context /\ s = activeSockets[fd]
    OBVIOUS
  <2> DEFINE t == [s EXCEPT !.state = st, !.context = c]
  <2>2. activeSockets' = [activeSockets EXCEPT ![fd] = t]
    BY <1>3, <2>1
  <2>3. t.state = st /\ SocketGood(t, context)
    <3>1. c \in 0 .. MaxContexts /\ st \in States /\ s \in SocketType
      BY <1>1, <2>1, StatesLemma DEF ThreadOK, SocketGood
    <3>2. t.state = st /\ SocketGood(t, c)
      BY <3>1, SocketWaits
    <3> HIDE DEF t
    <3> QED
      BY <2>1, <3>2
  <2> HIDE DEF t
  <2>4. Wishes(t.state) = {"READ"} /\ "WAITING_TO_CONNECT" \notin t.state
    BY <2>1, <2>3, StatesLemma
  <2>5. FilesOK' /\ FlagsBecome(fd, flags[fd] \cup {"READ"})
    BY <1>0, <1>1, <1>3, FilesWantTo DEF Want
  <2>6. FlagsBecome(fd, Wishes(t.state)) /\ SocketBecomes(fd, t)
    BY <1>1, <2>2, <2>4, <2>5, SocketUpdates
  <2>7. ChannelMoves(fd) /\ chan'[fd].kind # "free"
    BY <1>0, <1>1, <1>3, ChannelLemma
  <2>8. externalObjects' = externalObjects /\ fd \in Visible(activeSockets)
    BY <1>1, <1>3, ReplyLemma DEF Visible
  <2>9. SocketsOK' /\ ObjectsOK'
    BY <1>0, <1>1, <2>3, <2>4, <2>6, <2>7, <2>8, Settled
  <2> QED
    BY <2>5, <2>9 DEF AllSockets
<1>4. CASE Reply(<<"socketError">>, fd) /\ UNCHANGED <<activeSockets, chan, flags, active>>
  <2>1. externalObjects' = externalObjects
    BY <1>4, ReplyLemma DEF Quiet
  <2> QED
    BY <1>4, <2>1, NothingMoves
<1> QED
  BY <1>2, <1>3, <1>4 DEF AcceptClient

LEMMA StillGood ==
  ASSUME NEW c, NEW s, SocketGood(s, c)
  PROVE  /\ \A u \in 0 .. MaxRoom + 1 :
              SocketGood([s EXCEPT !.unsent = u], c) /\ [s EXCEPT !.unsent = u].state = s.state
              /\ [s EXCEPT !.unsent = u].unsent = u
         /\ \A b \in BOOLEAN :
              /\ SocketGood([s EXCEPT !.seenEOF = b], c) /\ [s EXCEPT !.seenEOF = b].state = s.state
              /\ SocketGood([s EXCEPT !.readOnly = b], c) /\ [s EXCEPT !.readOnly = b].state = s.state
<1>1. s \in SocketType
  BY DEF SocketGood
<1>2. \A u \in 0 .. MaxRoom + 1 :
        /\ [s EXCEPT !.unsent = u] \in SocketType /\ [s EXCEPT !.unsent = u].state = s.state
        /\ [s EXCEPT !.unsent = u].context = s.context /\ [s EXCEPT !.unsent = u].unsent = u
  BY <1>1 DEF SocketType
<1>3. \A b \in BOOLEAN :
       /\ [s EXCEPT !.seenEOF = b] \in SocketType /\ [s EXCEPT !.seenEOF = b].state = s.state
       /\ [s EXCEPT !.seenEOF = b].context = s.context
       /\ [s EXCEPT !.readOnly = b] \in SocketType /\ [s EXCEPT !.readOnly = b].state = s.state
       /\ [s EXCEPT !.readOnly = b].context = s.context
  BY <1>1 DEF SocketType
<1> QED
  BY <1>2, <1>3 DEF SocketGood

(* A write: what is left of the n units is unsent.                         *)
LEMMA WriteLemma ==
  ASSUME chan \in [Fds -> ChannelType], NEW fd \in DOMAIN activeSockets, fd \in Fds, NEW s, NEW sockets,
         DOMAIN sockets = DOMAIN activeSockets, sockets[fd] = s,
         \A f \in DOMAIN activeSockets \ {fd} : sockets[f] = activeSockets[f],
         NEW n \in 0 .. MaxRoom + 1, Write(fd, n, sockets)
  PROVE  /\ ChannelMoves(fd) /\ chan'[fd].kind = chan[fd].kind
         /\ \E u \in 0 .. n : SocketBecomes(fd, [s EXCEPT !.unsent = u])
<1>1. PICK written \in 0 .. n :
        /\ written <= chan[fd].room
        /\ activeSockets' = [sockets EXCEPT ![fd].unsent = n - written]
        /\ chan' = [chan EXCEPT ![fd].room = @ - written]
  BY DEF Write
<1>2. written \in 0 .. chan[fd].room
  <2>1. chan[fd].room \in Nat
    BY DEF ChannelType
  <2> QED
    BY <1>1, <2>1
<1>3. ChannelMoves(fd) /\ chan'[fd].kind = chan[fd].kind
  BY <1>1, <1>2, ChannelLemma
<1>4. PICK u \in 0 .. n : u = n - written
  <2>1. n \in Nat
    BY SocketAssumption
  <2> QED
    BY <2>1
<1>5. PICK t : t = [s EXCEPT !.unsent = u]
  OBVIOUS
<1>6. activeSockets' = [sockets EXCEPT ![fd] = t]
  BY <1>1, <1>4, <1>5
<1>7. SocketBecomes(fd, t)
  BY <1>6 DEF SocketBecomes
<1> QED
  BY <1>3, <1>4, <1>5, <1>7

LEMMA SendAsked ==
  ASSUME AllSockets, ThreadOK, Idle, NEW fd \in DOMAIN activeSockets, SendSocket(fd)
  PROVE  AllSockets'
<1>0. SocketsOK /\ FilesOK /\ ObjectsOK /\ flags \in [Fds -> SUBSET Want] /\ chan \in [Fds -> ChannelType]
  BY DEF AllSockets, SocketsOK
<1>1. /\ fd \in Fds /\ SocketGood(activeSockets[fd], context)
      /\ activeSockets[fd].state \in SUBSET {"WAITING_TO_READ"}
      /\ flags[fd] = Wishes(activeSockets[fd].state) /\ chan[fd].kind # "free" /\ chan[fd] \in ChannelType
  BY <1>0, SocketKnown DEF SendSocket, MaySend
<1>2. fd \in Visible(activeSockets)
  BY <1>1 DEF Visible
<1>3. CASE Reply(<<"socketError">>, fd) /\ UNCHANGED <<activeSockets, chan, flags, active>>
  <2>1. externalObjects' = externalObjects
    BY <1>3, ReplyLemma DEF Quiet
  <2> QED
    BY <1>3, <2>1, NothingMoves
<1>4. CASE Write(fd, MaxRoom + 1, Waits(fd, "WAITING_TO_WRITE")) /\ WantTo("WRITE", fd) /\ Reply(<<>>, fd)
  <2>1. PICK st, c, old : /\ st = activeSockets[fd].state \cup {"WAITING_TO_WRITE"}
                          /\ c = context /\ old = activeSockets[fd]
    OBVIOUS
  <2>2. st \in States /\ Wishes(st) = flags[fd] \cup {"WRITE"} /\ "WAITING_TO_CONNECT" \notin st
    BY <1>1, <2>1, StatesLemma
  <2>3. PICK s : s = [old EXCEPT !.state = st, !.context = c]
    OBVIOUS
  <2>4. SocketGood(s, c) /\ s.state = st
    <3>1. c \in 0 .. MaxContexts /\ old \in SocketType
      BY <1>1, <2>1 DEF ThreadOK, SocketGood
    <3> QED
      BY <2>2, <2>3, <3>1, SocketWaits
  <2>5. PICK sockets : sockets = Waits(fd, "WAITING_TO_WRITE")
    OBVIOUS
  <2>6. /\ DOMAIN sockets = DOMAIN activeSockets /\ sockets[fd] = s
        /\ \A f \in DOMAIN activeSockets \ {fd} : sockets[f] = activeSockets[f]
    BY <2>1, <2>3, <2>5 DEF Waits
  <2>7. Write(fd, MaxRoom + 1, sockets) /\ MaxRoom + 1 \in 0 .. MaxRoom + 1
    <3>1. MaxRoom + 1 \in 0 .. MaxRoom + 1
      BY SocketAssumption
    <3>2. Write(fd, MaxRoom + 1, sockets)
      BY <1>4, <2>5, Zenon DEF Write
    <3> QED
      BY <3>1, <3>2
  <2>8. /\ ChannelMoves(fd) /\ chan'[fd].kind = chan[fd].kind
        /\ \E u \in 0 .. MaxRoom + 1 : SocketBecomes(fd, [s EXCEPT !.unsent = u])
    BY <1>0, <1>1, <2>6, <2>7, WriteLemma
  <2>9. PICK t : SocketBecomes(fd, t) /\ SocketGood(t, context) /\ t.state = st
    <3>1. PICK u \in 0 .. MaxRoom + 1 : SocketBecomes(fd, [s EXCEPT !.unsent = u])
      BY <2>8
    <3>2. SocketGood([s EXCEPT !.unsent = u], c) /\ [s EXCEPT !.unsent = u].state = st
      BY <2>4, StillGood
    <3> QED
      BY <2>1, <3>1, <3>2
  <2>10. FilesOK' /\ FlagsBecome(fd, Wishes(t.state))
    BY <1>0, <1>1, <1>4, <2>2, <2>9, FilesWantTo DEF Want
  <2>11. externalObjects' = externalObjects
    BY <1>4, ReplyLemma
  <2>12. SocketsOK' /\ ObjectsOK'
    BY <1>0, <1>1, <1>2, <2>2, <2>8, <2>9, <2>10, <2>11, Settled
  <2> QED
    BY <2>10, <2>12 DEF AllSockets
<1>5. CASE /\ chan[fd].room > 0 /\ chan' = [chan EXCEPT ![fd].room = @ - 1]
           /\ Reply(<<"sent">>, fd) /\ UNCHANGED <<activeSockets, flags, active>>
  <2>1. PICK s : s = activeSockets[fd]
    OBVIOUS
  <2>2. SocketBecomes(fd, s)
    BY <1>5, <2>1, SocketUpdates
  <2>3. ChannelMoves(fd) /\ chan'[fd].kind = chan[fd].kind
    <3>1. chan[fd].room \in Nat
      BY <1>1 DEF ChannelType
    <3>2. 1 \in 0 .. chan[fd].room
      BY <1>5, <3>1
    <3> QED
      BY <1>0, <1>1, <1>5, <3>2, ChannelLemma
  <2>4. FilesOK' /\ FlagsBecome(fd, Wishes(s.state))
    BY <1>0, <1>1, <1>5, <2>1, FilesKept
  <2>5. externalObjects' = externalObjects
    BY <1>5, ReplyLemma DEF Quiet
  <2>6. SocketGood(s, context) /\ "WAITING_TO_CONNECT" \notin s.state
    BY <1>1, <2>1
  <2>7. SocketsOK' /\ ObjectsOK'
    BY <1>0, <1>1, <1>2, <2>2, <2>3, <2>4, <2>5, <2>6, Settled
  <2> QED
    BY <2>4, <2>7 DEF AllSockets
<1> QED
  BY <1>3, <1>4, <1>5 DEF SendSocket

LEMMA ClosedNow ==
  ASSUME AllSockets, Idle, NEW fd \in DOMAIN activeSockets, CloseSocketNow(fd)
  PROVE  AllSockets'
<1>0. SocketsOK /\ FilesOK /\ ObjectsOK /\ flags \in [Fds -> SUBSET Want] /\ chan \in [Fds -> ChannelType]
  BY DEF AllSockets, SocketsOK
<1>1. /\ fd \in Fds /\ chan' = [chan EXCEPT ![fd] = Channel("free")]
      /\ activeSockets' = Forgotten(activeSockets, fd) /\ Wanted({}, fd)
      /\ Reply(<<"closedSocket">>, fd)
  BY <1>0, SocketKnown DEF CloseSocketNow, ClearFlags
<1>2. FilesOK' /\ FlagsBecome(fd, {})
  BY <1>0, <1>1, FilesWanted
<1>3. ChannelMoves(fd) /\ chan'[fd].kind = "free"
  BY <1>0, <1>1, ChannelLemma DEF Kinds
<1>4. SocketForgotten(fd) /\ externalObjects' = externalObjects \ {<<"socket", fd>>}
  BY <1>1, SocketUpdates, ReplyLemma
<1>5. SocketsOK' /\ ObjectsOK'
  BY <1>0, <1>1, <1>2, <1>3, <1>4, Gone
<1> QED
  BY <1>2, <1>5 DEF AllSockets

(* The socket becomes s, is watched for what it waits for, and its object  *)
(* stays.                                                                  *)
LEMMA Stays ==
  ASSUME AllSockets, Idle, NEW fd \in DOMAIN activeSockets, NEW s, SocketBecomes(fd, s),
         SocketGood(s, context), "WAITING_TO_CONNECT" \notin activeSockets[fd].state,
         "WAITING_TO_CONNECT" \notin s.state, ChannelMoves(fd), chan'[fd].kind = chan[fd].kind,
         FilesOK', FlagsBecome(fd, Wishes(s.state)), externalObjects' = externalObjects
  PROVE  AllSockets'
<1>0. SocketsOK /\ FilesOK /\ ObjectsOK
  BY DEF AllSockets
<1>1. fd \in Fds /\ chan[fd].kind # "free" /\ fd \in Visible(activeSockets)
  BY <1>0, SocketKnown DEF Visible
<1>2. SocketsOK' /\ ObjectsOK'
  BY <1>0, <1>1, Settled
<1> QED
  BY <1>2 DEF AllSockets

LEMMA ShutdownAsked ==
  ASSUME AllSockets, Idle, NEW fd \in DOMAIN activeSockets, ShutdownSocket(fd)
  PROVE  AllSockets'
<1>0. SocketsOK /\ FilesOK /\ ObjectsOK /\ flags \in [Fds -> SUBSET Want] /\ chan \in [Fds -> ChannelType]
  BY DEF AllSockets, SocketsOK
<1>1. /\ fd \in Fds /\ SocketGood(activeSockets[fd], context)
      /\ activeSockets[fd].state \in SUBSET {"WAITING_TO_READ"}
      /\ flags[fd] = Wishes(activeSockets[fd].state)
      /\ UNCHANGED <<chan, flags, active>>
  BY <1>0, SocketKnown DEF ShutdownSocket, MaySend
<1>2. CASE Reply(<<"socketError">>, fd) /\ UNCHANGED activeSockets
  <2>1. externalObjects' = externalObjects
    BY <1>2, ReplyLemma DEF Quiet
  <2> QED
    BY <1>1, <1>2, <2>1, NothingMoves
<1>3. CASE activeSockets' = [activeSockets EXCEPT ![fd].readOnly = TRUE] /\ Reply(<<"sent">>, fd)
  <2>1. PICK s : s = [activeSockets[fd] EXCEPT !.readOnly = TRUE]
    OBVIOUS
  <2>2. SocketBecomes(fd, s)
    BY <1>3, <2>1, SocketUpdates
  <2>3. SocketGood(s, context) /\ s.state = activeSockets[fd].state
    <3>1. PICK old, c : old = activeSockets[fd] /\ c = context
      OBVIOUS
    <3>2. SocketGood([old EXCEPT !.readOnly = TRUE], c) /\ [old EXCEPT !.readOnly = TRUE].state = old.state
      BY <1>1, <3>1, StillGood
    <3> QED
      BY <2>1, <3>1, <3>2
  <2>4. FilesOK' /\ FlagsBecome(fd, Wishes(s.state))
    BY <1>0, <1>1, <2>3, FilesKept
  <2>5. externalObjects' = externalObjects
    BY <1>3, ReplyLemma DEF Quiet
  <2>6. ChannelMoves(fd) /\ chan'[fd].kind = chan[fd].kind
    BY <1>0, <1>1, ChannelLemma
  <2> QED
    BY <1>1, <2>2, <2>3, <2>4, <2>5, <2>6, Stays
<1> QED
  BY <1>2, <1>3 DEF ShutdownSocket

LEMMA ReceiveAsked ==
  ASSUME AllSockets, ThreadOK, Idle, NEW fd \in DOMAIN activeSockets, ReceiveSocket(fd)
  PROVE  AllSockets'
<1>0. SocketsOK /\ FilesOK /\ ObjectsOK /\ flags \in [Fds -> SUBSET Want] /\ chan \in [Fds -> ChannelType]
  BY DEF AllSockets, SocketsOK
<1>1. /\ fd \in Fds /\ SocketGood(activeSockets[fd], context)
      /\ activeSockets[fd].state \in SUBSET {"WAITING_TO_WRITE"}
      /\ flags[fd] = Wishes(activeSockets[fd].state)
  BY <1>0, SocketKnown DEF ReceiveSocket
<1>2. PICK old, c : old = activeSockets[fd] /\ c = context
  OBVIOUS
<1>3. CASE Took(fd) /\ Reply(<<"received">>, fd) /\ UNCHANGED <<activeSockets, flags, active>>
  <2>1. SocketBecomes(fd, old)
    BY <1>2, <1>3, SocketUpdates
  <2>2. FilesOK' /\ FlagsBecome(fd, Wishes(old.state))
    BY <1>0, <1>1, <1>2, <1>3, FilesKept
  <2>3. externalObjects' = externalObjects
    BY <1>3, ReplyLemma DEF Quiet
  <2>4. ChannelMoves(fd) /\ chan'[fd].kind = chan[fd].kind
    BY <1>0, <1>1, <1>3, ChannelLemma
  <2>5. SocketGood(old, context) /\ "WAITING_TO_CONNECT" \notin old.state
    BY <1>1, <1>2
  <2> QED
    BY <1>1, <1>2, <2>1, <2>2, <2>3, <2>4, <2>5, Stays
<1>4. CASE /\ activeSockets' = [activeSockets EXCEPT ![fd].seenEOF = TRUE]
           /\ Reply(<<"received">>, fd) /\ UNCHANGED <<chan, flags, active>>
  <2>1. PICK s : s = [old EXCEPT !.seenEOF = TRUE]
    OBVIOUS
  <2>2. SocketBecomes(fd, s)
    BY <1>2, <1>4, <2>1, SocketUpdates
  <2>3. SocketGood(s, context) /\ s.state = old.state
    <3>1. SocketGood([old EXCEPT !.seenEOF = TRUE], c) /\ [old EXCEPT !.seenEOF = TRUE].state = old.state
      BY <1>1, <1>2, StillGood
    <3> QED
      BY <1>2, <2>1, <3>1
  <2>4. FilesOK' /\ FlagsBecome(fd, Wishes(s.state))
    BY <1>0, <1>1, <1>2, <1>4, <2>3, FilesKept
  <2>5. externalObjects' = externalObjects
    BY <1>4, ReplyLemma DEF Quiet
  <2>6. ChannelMoves(fd) /\ chan'[fd].kind = chan[fd].kind
    BY <1>0, <1>1, <1>4, ChannelLemma
  <2> QED
    BY <1>1, <1>2, <2>2, <2>3, <2>4, <2>5, <2>6, Stays
<1>5. CASE /\ activeSockets' = Waits(fd, "WAITING_TO_READ")
           /\ WantTo("READ", fd) /\ Reply(<<>>, fd) /\ UNCHANGED chan
  <2>1. PICK st : st = old.state \cup {"WAITING_TO_READ"}
    OBVIOUS
  <2>2. st \in States /\ Wishes(st) = flags[fd] \cup {"READ"} /\ "WAITING_TO_CONNECT" \notin st
    BY <1>1, <1>2, <2>1, StatesLemma
  <2>3. PICK s : s = [old EXCEPT !.state = st, !.context = c]
    OBVIOUS
  <2>4. SocketGood(s, c) /\ s.state = st
    <3>1. c \in 0 .. MaxContexts /\ old \in SocketType
      BY <1>1, <1>2 DEF ThreadOK, SocketGood
    <3> QED
      BY <2>2, <2>3, <3>1, SocketWaits
  <2>5. SocketBecomes(fd, s)
    <3>1. activeSockets' = [activeSockets EXCEPT ![fd] = s]
      BY <1>2, <1>5, <2>1, <2>3 DEF Waits
    <3> QED
      BY <3>1, SocketUpdates
  <2>6. FilesOK' /\ FlagsBecome(fd, Wishes(s.state))
    BY <1>0, <1>1, <1>5, <2>2, <2>4, FilesWantTo DEF Want
  <2>7. externalObjects' = externalObjects
    BY <1>5, ReplyLemma
  <2>8. ChannelMoves(fd) /\ chan'[fd].kind = chan[fd].kind
    BY <1>0, <1>1, <1>5, ChannelLemma
  <2> QED
    BY <1>1, <1>2, <2>2, <2>4, <2>5, <2>6, <2>7, <2>8, Stays
<1>6. CASE CloseSocketNow(fd)
  BY <1>6, ClosedNow
<1> QED
  BY <1>3, <1>4, <1>5, <1>6 DEF ReceiveSocket

LEMMA SocketMessageStep ==
  ASSUME AllSockets, ThreadOK, SocketMessage
  PROVE  AllSockets'
<1>1. Idle
  BY DEF SocketMessage, OfSocket, Send, Idle, processVars
<1> QED
  BY <1>1, ClientCreated, ServerCreated, AcceptAsked, SendAsked, ShutdownAsked, ReceiveAsked, ClosedNow
  DEF SocketMessage, CloseSocket

(* The callbacks.                                                          *)
LEMMA AnsweredGood ==
  ASSUME NEW c, NEW old, SocketGood(old, c)
  PROVE  /\ "WAITING_TO_READ" \in old.state =>
              /\ SocketGood([old EXCEPT !.state = @ \ {"WAITING_TO_READ"}], c)
              /\ [old EXCEPT !.state = @ \ {"WAITING_TO_READ"}].state = old.state \ {"WAITING_TO_READ"}
              /\ Wishes(old.state \ {"WAITING_TO_READ"}) = Wishes(old.state) \ {"READ"}
              /\ "WAITING_TO_CONNECT" \notin old.state
         /\ "WAITING_TO_WRITE" \in old.state =>
              /\ SocketGood([old EXCEPT !.state = @ \ {"WAITING_TO_WRITE"}], c)
              /\ [old EXCEPT !.state = @ \ {"WAITING_TO_WRITE"}].state = old.state \ {"WAITING_TO_WRITE"}
              /\ Wishes(old.state \ {"WAITING_TO_WRITE"}) = Wishes(old.state) \ {"WRITE"}
              /\ "WAITING_TO_CONNECT" \notin old.state
<1>1. old \in SocketType /\ old.state \in States
  BY DEF SocketGood
<1>2. ASSUME NEW bit, old.state \ {bit} \in States
      PROVE  SocketGood([old EXCEPT !.state = @ \ {bit}], c)
             /\ [old EXCEPT !.state = @ \ {bit}].state = old.state \ {bit}
  <2>1. PICK st : st = old.state \ {bit}
    OBVIOUS
  <2>2. st \in SUBSET Bits
    BY <1>2, <2>1, StatesLemma
  <2>3. /\ [old EXCEPT !.state = st] \in SocketType /\ [old EXCEPT !.state = st].state = st
        /\ [old EXCEPT !.state = st].context = old.context
    BY <1>1, <2>2 DEF SocketType
  <2>4. SocketGood([old EXCEPT !.state = st], c)
    <3>1. PICK s : s = [old EXCEPT !.state = st]
      OBVIOUS
    <3>2. SocketGood(s, c)
      BY <1>2, <2>1, <2>3, <3>1 DEF SocketGood
    <3> QED
      BY <3>1, <3>2
  <2> QED
    BY <2>1, <2>3, <2>4
<1>3. "WAITING_TO_READ" \in old.state =>
        /\ old.state \ {"WAITING_TO_READ"} \in States
        /\ Wishes(old.state \ {"WAITING_TO_READ"}) = Wishes(old.state) \ {"READ"}
        /\ "WAITING_TO_CONNECT" \notin old.state
  <2>1. PICK st \in States : st = old.state
    BY <1>1
  <2>2. "WAITING_TO_READ" \in st =>
          /\ st \subseteq {"WAITING_TO_READ", "WAITING_TO_WRITE"}
          /\ st \ {"WAITING_TO_READ"} \in States
          /\ Wishes(st \ {"WAITING_TO_READ"}) = Wishes(st) \ {"READ"}
    BY StatesLemma
  <2> QED
    BY <2>1, <2>2
<1>4. "WAITING_TO_WRITE" \in old.state =>
        /\ old.state \ {"WAITING_TO_WRITE"} \in States
        /\ Wishes(old.state \ {"WAITING_TO_WRITE"}) = Wishes(old.state) \ {"WRITE"}
        /\ "WAITING_TO_CONNECT" \notin old.state
  <2>1. PICK st \in States : st = old.state
    BY <1>1
  <2>2. "WAITING_TO_WRITE" \in st =>
          /\ st \subseteq {"WAITING_TO_READ", "WAITING_TO_WRITE"}
          /\ st \ {"WAITING_TO_WRITE"} \in States
          /\ Wishes(st \ {"WAITING_TO_WRITE"}) = Wishes(st) \ {"WRITE"}
    BY StatesLemma
  <2> QED
    BY <2>1, <2>2
<1> QED
  BY <1>2, <1>3, <1>4

LEMMA ReadHandled ==
  ASSUME AllSockets, Idle, NEW fd \in DOMAIN activeSockets, flags[fd] # {},
         ReadNow(fd, flags[fd] \ {"READ"})
  PROVE  AllSockets'
<1>0. SocketsOK /\ FilesOK /\ ObjectsOK /\ flags \in [Fds -> SUBSET Want] /\ chan \in [Fds -> ChannelType]
  BY DEF AllSockets, SocketsOK
<1>1. PICK old, c, left : old = activeSockets[fd] /\ c = context /\ left = flags[fd] \ {"READ"}
  OBVIOUS
<1>2. /\ fd \in Fds /\ SocketGood(old, c) /\ flags[fd] = Wishes(old.state)
      /\ "WAITING_TO_READ" \in old.state /\ left \in SUBSET Want
  BY <1>0, <1>1, SocketKnown DEF ReadNow, Awaiting
<1>3. PICK s : s = [old EXCEPT !.state = @ \ {"WAITING_TO_READ"}]
  OBVIOUS
<1>4. /\ SocketGood(s, c) /\ Wishes(s.state) = left
      /\ "WAITING_TO_CONNECT" \notin old.state /\ "WAITING_TO_CONNECT" \notin s.state
  BY <1>1, <1>2, <1>3, AnsweredGood, ZenonT(60)
<1>5. Wanted(left, fd) => FilesOK' /\ FlagsBecome(fd, left)
  BY <1>0, <1>2, FilesWanted
<1>6. CASE /\ Took(fd) /\ activeSockets' = Answered(fd, "WAITING_TO_READ")
           /\ Wanted(left, fd) /\ Reply(<<"received">>, fd)
  <2>1. SocketBecomes(fd, s)
    <3>1. activeSockets' = [activeSockets EXCEPT ![fd] = s]
      BY <1>1, <1>3, <1>6 DEF Answered
    <3> QED
      BY <3>1, SocketUpdates
  <2>2. externalObjects' = externalObjects
    BY <1>6, ReplyLemma DEF Quiet
  <2>3. ChannelMoves(fd) /\ chan'[fd].kind = chan[fd].kind
    BY <1>0, <1>2, <1>6, ChannelLemma
  <2> QED
    BY <1>1, <1>4, <1>5, <1>6, <2>1, <2>2, <2>3, Stays
<1>7. CASE /\ activeSockets' = [Answered(fd, "WAITING_TO_READ") EXCEPT ![fd].seenEOF = TRUE]
           /\ Wanted(left, fd) /\ Reply(<<"received">>, fd) /\ UNCHANGED chan
  <2>1. PICK t : t = [s EXCEPT !.seenEOF = TRUE]
    OBVIOUS
  <2>2. SocketBecomes(fd, t)
    <3>1. activeSockets' = [activeSockets EXCEPT ![fd] = t]
      BY <1>1, <1>3, <1>7, <2>1 DEF Answered
    <3> QED
      BY <3>1, SocketUpdates
  <2>3. SocketGood(t, c) /\ t.state = s.state
    BY <1>4, <2>1, StillGood
  <2>4. externalObjects' = externalObjects
    BY <1>7, ReplyLemma DEF Quiet
  <2>5. ChannelMoves(fd) /\ chan'[fd].kind = chan[fd].kind
    BY <1>0, <1>2, <1>7, ChannelLemma
  <2>6. FlagsBecome(fd, Wishes(t.state)) /\ FilesOK'
    BY <1>4, <1>5, <1>7, <2>3
  <2> QED
    BY <1>1, <1>4, <2>2, <2>3, <2>4, <2>5, <2>6, Stays
<1>8. CASE CloseSocketNow(fd)
  BY <1>8, ClosedNow
<1> QED
  BY <1>1, <1>6, <1>7, <1>8 DEF ReadNow

LEMMA AcceptHandled ==
  ASSUME AllSockets, Idle, NEW fd \in DOMAIN activeSockets, flags[fd] # {},
         ReadAccepted(fd, flags[fd] \ {"READ"})
  PROVE  AllSockets'
<1>0. SocketsOK /\ FilesOK /\ ObjectsOK /\ flags \in [Fds -> SUBSET Want] /\ chan \in [Fds -> ChannelType]
  BY DEF AllSockets, SocketsOK
<1>1. PICK old, c, left, st : /\ old = activeSockets[fd] /\ c = context /\ left = flags[fd] \ {"READ"}
                              /\ st = {"LISTENING"}
  OBVIOUS
<1>2. /\ fd \in Fds /\ SocketGood(old, c) /\ flags[fd] = Wishes(old.state)
      /\ old.state = {"WAITING_TO_ACCEPT"} /\ flags[fd] = {"READ"} /\ left = {}
  <2>1. fd \in Fds /\ SocketGood(old, c) /\ flags[fd] = Wishes(old.state) /\ "WAITING_TO_ACCEPT" \in old.state
    BY <1>0, <1>1, SocketKnown DEF ReadAccepted, Awaiting
  <2>2. old.state = {"WAITING_TO_ACCEPT"}
    BY <2>1, StatesLemma DEF SocketGood
  <2>3. Wishes(old.state) = {"READ"}
    BY <2>2, StatesLemma
  <2> QED
    BY <1>1, <2>1, <2>2, <2>3
<1>3. PICK s : s = [old EXCEPT !.state = st]
  OBVIOUS
<1>4. SocketGood(s, c) /\ s.state = st /\ "WAITING_TO_CONNECT" \notin st /\ Wishes(s.state) = {}
  <2>1. st \in States /\ Wishes(st) = {} /\ st \in SUBSET Bits
    BY <1>1, StatesLemma DEF Bits
  <2>2. s \in SocketType /\ s.state = st
    BY <1>2, <1>3, <2>1 DEF SocketGood, SocketType
  <2> QED
    BY <1>1, <2>1, <2>2 DEF SocketGood
<1>5. PICK sockets : sockets = [activeSockets EXCEPT ![fd].state = {"LISTENING"}]
  OBVIOUS
<1>6. /\ DOMAIN sockets = DOMAIN activeSockets /\ sockets[fd] = s
      /\ \A f \in DOMAIN activeSockets \ {fd} : sockets[f] = activeSockets[f]
  BY <1>1, <1>3, <1>5
<1>7. FilesOK' /\ FlagsBecome(fd, Wishes(s.state))
  <2>1. Wanted({}, fd)
    BY <1>1, <1>2 DEF ReadAccepted
  <2> QED
    BY <1>0, <1>2, <1>4, <2>1, FilesWanted
<1>8. CASE AcceptNow(fd, sockets)
  BY <1>1, <1>2, <1>4, <1>6, <1>7, <1>8, ClientAccepted
<1>9. CASE activeSockets' = sockets /\ Reply(<<"socketError">>, fd) /\ UNCHANGED chan
  <2>1. SocketBecomes(fd, s)
    BY <1>6, <1>9 DEF SocketBecomes
  <2>2. externalObjects' = externalObjects
    BY <1>9, ReplyLemma DEF Quiet
  <2>3. ChannelMoves(fd) /\ chan'[fd].kind = chan[fd].kind
    BY <1>0, <1>2, <1>9, ChannelLemma
  <2> QED
    BY <1>1, <1>2, <1>4, <1>7, <2>1, <2>2, <2>3, Stays
<1>10. IF Read(fd) = "characters" THEN AcceptNow(fd, [activeSockets EXCEPT ![fd].state = {"LISTENING"}])
       ELSE activeSockets' = [activeSockets EXCEPT ![fd].state = {"LISTENING"}]
            /\ Reply(<<"socketError">>, fd) /\ UNCHANGED chan
  BY DEF ReadAccepted
<1>11. AcceptNow(fd, [activeSockets EXCEPT ![fd].state = {"LISTENING"}]) => AcceptNow(fd, sockets)
  BY <1>5, Zenon DEF AcceptNow
<1> QED
  BY <1>5, <1>8, <1>9, <1>10, <1>11

LEMMA ConnectHandled ==
  ASSUME AllSockets, Idle, NEW fd \in DOMAIN activeSockets, flags[fd] # {},
         Connected(fd, flags[fd] \ {"WRITE"})
  PROVE  AllSockets'
<1>0. SocketsOK /\ FilesOK /\ ObjectsOK /\ flags \in [Fds -> SUBSET Want] /\ chan \in [Fds -> ChannelType]
  BY DEF AllSockets, SocketsOK
<1>1. PICK old, c, left, st : /\ old = activeSockets[fd] /\ c = context /\ left = flags[fd] \ {"WRITE"}
                              /\ st = {}
  OBVIOUS
<1>2. /\ fd \in Fds /\ SocketGood(old, c) /\ old.state = {"WAITING_TO_CONNECT"} /\ left = {}
      /\ chan[fd].kind # "free"
  <2>1. /\ fd \in Fds /\ SocketGood(old, c) /\ flags[fd] = Wishes(old.state)
        /\ "WAITING_TO_CONNECT" \in old.state /\ chan[fd].kind # "free"
    BY <1>0, <1>1, SocketKnown DEF Connected, Awaiting
  <2>2. old.state = {"WAITING_TO_CONNECT"}
    BY <2>1, StatesLemma DEF SocketGood
  <2>3. Wishes(old.state) = {"WRITE"}
    BY <2>2, StatesLemma
  <2> QED
    BY <1>1, <2>1, <2>2, <2>3
<1>3. fd \notin Visible(activeSockets)
  BY <1>1, <1>2 DEF Visible
<1>4. FilesOK' /\ FlagsBecome(fd, {})
  <2>1. Wanted({}, fd)
    BY <1>1, <1>2 DEF Connected
  <2> QED
    BY <1>0, <1>2, <2>1, FilesWanted
<1>5. CASE activeSockets' = [activeSockets EXCEPT ![fd].state = {}] /\ Reply(<<"createdSocket">>, fd)
           /\ UNCHANGED chan
  <2>1. PICK s : s = [old EXCEPT !.state = st]
    OBVIOUS
  <2>2. s \in SocketType /\ s.state = {}
    BY <1>1, <1>2, <2>1 DEF SocketGood, SocketType
  <2>3. SocketGood(s, context) /\ Wishes(s.state) = {} /\ "WAITING_TO_CONNECT" \notin s.state
    BY <2>2, StatesLemma DEF SocketGood
  <2>4. SocketBecomes(fd, s)
    <3>1. activeSockets' = [activeSockets EXCEPT ![fd] = s]
      BY <1>1, <1>5, <2>1
    <3> QED
      BY <3>1, SocketUpdates
  <2>5. externalObjects' = externalObjects \cup {<<"socket", fd>>}
    BY <1>5, ReplyLemma
  <2>6. ChannelMoves(fd) /\ chan'[fd].kind # "free"
    BY <1>0, <1>2, <1>5, ChannelLemma
  <2>7. SocketsOK' /\ ObjectsOK'
    BY <1>0, <1>2, <1>4, <2>3, <2>4, <2>5, <2>6, Settled
  <2> QED
    BY <1>4, <2>7 DEF AllSockets
<1>6. CASE Refuse(fd)
  <2>1. externalObjects' = externalObjects /\ SocketForgotten(fd)
    BY <1>6, ReplyLemma, SocketUpdates DEF Refuse, Quiet
  <2>2. ChannelMoves(fd) /\ chan'[fd].kind = "free"
    BY <1>0, <1>2, <1>6, ChannelLemma DEF Refuse, Kinds
  <2>3. SocketsOK' /\ ObjectsOK'
    BY <1>0, <1>2, <1>3, <1>4, <2>1, <2>2, Gone
  <2> QED
    BY <1>4, <2>3 DEF AllSockets
<1> QED
  BY <1>5, <1>6 DEF Connected

LEMMA WriteHandled ==
  ASSUME AllSockets, Idle, NEW fd \in DOMAIN activeSockets, flags[fd] # {},
         WriteRest(fd, flags[fd] \ {"WRITE"})
  PROVE  AllSockets'
<1>0. SocketsOK /\ FilesOK /\ ObjectsOK /\ flags \in [Fds -> SUBSET Want] /\ chan \in [Fds -> ChannelType]
  BY DEF AllSockets, SocketsOK
<1>1. PICK old, c, left, n : /\ old = activeSockets[fd] /\ c = context /\ left = flags[fd] \ {"WRITE"}
                             /\ n = old.unsent
  OBVIOUS
<1>2. /\ fd \in Fds /\ SocketGood(old, c) /\ flags[fd] = Wishes(old.state)
      /\ "WAITING_TO_WRITE" \in old.state /\ left \in SUBSET Want
  BY <1>0, <1>1, SocketKnown DEF WriteRest, Awaiting
<1>3. PICK s : s = [old EXCEPT !.state = @ \ {"WAITING_TO_WRITE"}]
  OBVIOUS
<1>4. /\ SocketGood(s, c) /\ Wishes(s.state) = left
      /\ "WAITING_TO_CONNECT" \notin old.state /\ "WAITING_TO_CONNECT" \notin s.state
  BY <1>1, <1>2, <1>3, AnsweredGood, ZenonT(60)
<1>5. Wanted(left, fd) => FilesOK' /\ FlagsBecome(fd, left)
  BY <1>0, <1>2, FilesWanted
<1>6. n \in 0 .. MaxRoom + 1
  BY <1>1, <1>2 DEF SocketGood, SocketType
<1>7. PICK answered : answered = Answered(fd, "WAITING_TO_WRITE")
  OBVIOUS
<1>8. /\ DOMAIN answered = DOMAIN activeSockets /\ answered[fd] = s
      /\ \A f \in DOMAIN activeSockets \ {fd} : answered[f] = activeSockets[f]
  BY <1>1, <1>3, <1>7 DEF Answered
<1>9. CASE /\ activeSockets' = [Answered(fd, "WAITING_TO_WRITE") EXCEPT ![fd].unsent = 0]
           /\ Wanted(left, fd) /\ Reply(<<"socketError">>, fd) /\ UNCHANGED chan
  <2>1. PICK none, t : none = 0 /\ t = [s EXCEPT !.unsent = none]
    OBVIOUS
  <2>2. SocketBecomes(fd, t)
    BY <1>7, <1>8, <1>9, <2>1 DEF SocketBecomes
  <2>3. SocketGood(t, c) /\ t.state = s.state
    <3>1. none \in 0 .. MaxRoom + 1
      BY <2>1, SocketAssumption
    <3> QED
      BY <1>4, <2>1, <3>1, StillGood
  <2>4. externalObjects' = externalObjects
    BY <1>9, ReplyLemma DEF Quiet
  <2>5. ChannelMoves(fd) /\ chan'[fd].kind = chan[fd].kind
    BY <1>0, <1>2, <1>9, ChannelLemma
  <2>6. FlagsBecome(fd, Wishes(t.state)) /\ FilesOK'
    BY <1>4, <1>5, <1>9, <2>3
  <2> QED
    BY <1>1, <1>4, <2>2, <2>3, <2>4, <2>5, <2>6, Stays
<1>10. CASE Write(fd, n, Answered(fd, "WAITING_TO_WRITE")) /\ Wanted(left, fd) /\ Reply(<<"sent">>, fd)
  <2>1. Write(fd, n, answered)
    BY <1>7, <1>10, Zenon DEF Write
  <2>2. /\ ChannelMoves(fd) /\ chan'[fd].kind = chan[fd].kind
        /\ \E u \in 0 .. n : SocketBecomes(fd, [s EXCEPT !.unsent = u])
    BY <1>0, <1>2, <1>6, <1>8, <2>1, WriteLemma
  <2>3. PICK u \in 0 .. n : SocketBecomes(fd, [s EXCEPT !.unsent = u])
    BY <2>2
  <2>4. PICK t : t = [s EXCEPT !.unsent = u]
    OBVIOUS
  <2>5. SocketGood(t, c) /\ t.state = s.state
    <3>1. u \in 0 .. MaxRoom + 1
      BY <1>6, SocketAssumption
    <3> QED
      BY <1>4, <2>4, <3>1, StillGood
  <2>6. externalObjects' = externalObjects
    BY <1>10, ReplyLemma DEF Quiet
  <2>7. FlagsBecome(fd, Wishes(t.state)) /\ FilesOK'
    BY <1>4, <1>5, <1>10, <2>5
  <2> QED
    BY <1>1, <1>4, <2>2, <2>3, <2>4, <2>5, <2>6, <2>7, Stays
<1>11. CASE Write(fd, n, activeSockets) /\ WantAgain(fd, left) /\ Reply(<<>>, fd)
  <2>1. PICK sockets : sockets = activeSockets
    OBVIOUS
  <2>2. Write(fd, n, sockets)
    BY <1>11, <2>1, Zenon DEF Write
  <2>3. /\ ChannelMoves(fd) /\ chan'[fd].kind = chan[fd].kind
        /\ \E u \in 0 .. n : SocketBecomes(fd, [old EXCEPT !.unsent = u])
    BY <1>0, <1>1, <1>2, <1>6, <2>1, <2>2, WriteLemma
  <2>4. PICK u \in 0 .. n : SocketBecomes(fd, [old EXCEPT !.unsent = u])
    BY <2>3
  <2>5. PICK t : t = [old EXCEPT !.unsent = u]
    OBVIOUS
  <2>6. SocketGood(t, c) /\ t.state = old.state
    <3>1. u \in 0 .. MaxRoom + 1
      BY <1>6, SocketAssumption
    <3> QED
      BY <1>2, <2>5, <3>1, StillGood
  <2>7. externalObjects' = externalObjects
    BY <1>11, ReplyLemma
  <2>8. FlagsBecome(fd, Wishes(t.state)) /\ FilesOK'
    <3>1. FilesOK' /\ FlagsBecome(fd, flags[fd])
      BY <1>0, <1>2, <1>11, FilesWantAgain
    <3> QED
      BY <1>2, <2>6, <3>1
  <2> QED
    BY <1>1, <1>4, <2>3, <2>4, <2>5, <2>6, <2>7, <2>8, Stays
<1> QED
  BY <1>1, <1>9, <1>10, <1>11 DEF WriteRest

LEMMA TwoReplies ==
  /\ <<"socketError">> \o <<"closedSocket">> = <<"socketError", "closedSocket">>
  /\ <<>> \o <<"closedSocket">> = <<"closedSocket">>
<1>1. PICK a, b : a = "socketError" /\ b = "closedSocket"
  OBVIOUS
<1>2. PICK S, u, v, w : S = {a, b} /\ u = <<a>> /\ v = <<b>> /\ w = <<a, b>>
  OBVIOUS
<1>3. u \in Seq(S) /\ v \in Seq(S) /\ w \in Seq(S) /\ Len(u) = 1 /\ Len(v) = 1 /\ Len(w) = 2
  BY <1>2
<1>4. u[1] = a /\ v[1] = b /\ w[1] = a /\ w[2] = b
  BY <1>2
<1>5. /\ u \o v \in Seq(S) /\ Len(u \o v) = Len(u) + Len(v)
      /\ \A i \in 1 .. Len(u) + Len(v) : (u \o v)[i] = IF i <= Len(u) THEN u[i] ELSE v[i - Len(u)]
  BY <1>3, ConcatProperties
<1>6. PICK x : x = u \o v
  OBVIOUS
<1>7. x \in Seq(S) /\ Len(x) = 2 /\ \A i \in 1 .. 2 : x[i] = w[i]
  BY <1>3, <1>4, <1>5, <1>6
<1>8. x = w
  BY <1>3, <1>7, SeqEqual
<1>9. <<>> \o v = v
  BY <1>3, ConcatEmptySeq
<1> QED
  BY <1>1, <1>2, <1>6, <1>8, <1>9

LEMMA ExceptionHandled ==
  ASSUME AllSockets, Idle, NEW fd \in DOMAIN activeSockets, NEW channels, HandleException(fd, channels),
         chan' = channels => ChannelMoves(fd) /\ chan'[fd].kind = chan[fd].kind
  PROVE  AllSockets'
<1>0. SocketsOK /\ FilesOK /\ ObjectsOK /\ flags \in [Fds -> SUBSET Want] /\ chan \in [Fds -> ChannelType]
  BY DEF AllSockets, SocketsOK
<1>1. PICK old, c : old = activeSockets[fd] /\ c = context
  OBVIOUS
<1>2. /\ fd \in Fds /\ SocketGood(old, c) /\ chan[fd].kind # "free" /\ ClearFlags(fd)
  BY <1>0, <1>1, SocketKnown DEF HandleException
<1>3. FilesOK' /\ FlagsBecome(fd, {})
  BY <1>0, <1>2, FilesWanted DEF ClearFlags
<1>4. CASE /\ Awaiting(fd, "WAITING_TO_ACCEPT") /\ activeSockets' = Answered(fd, "WAITING_TO_ACCEPT")
           /\ Reply(<<"socketError">>, fd) /\ chan' = channels
  <2>1. PICK st, s : st = old.state \ {"WAITING_TO_ACCEPT"} /\ s = [old EXCEPT !.state = st]
    OBVIOUS
  <2>2. old.state = {"WAITING_TO_ACCEPT"}
    BY <1>1, <1>2, <1>4, StatesLemma DEF Awaiting, SocketGood
  <2>3. st = {} /\ s \in SocketType /\ s.state = {}
    BY <1>2, <2>1, <2>2 DEF SocketGood, SocketType
  <2>4. SocketGood(s, context) /\ Wishes(s.state) = {} /\ "WAITING_TO_CONNECT" \notin s.state
    BY <2>3, StatesLemma DEF SocketGood
  <2>5. SocketBecomes(fd, s)
    <3>1. activeSockets' = [activeSockets EXCEPT ![fd] = s]
      BY <1>1, <1>4, <2>1 DEF Answered
    <3> QED
      BY <3>1, SocketUpdates
  <2>6. externalObjects' = externalObjects
    BY <1>4, ReplyLemma DEF Quiet
  <2> QED
    BY <1>1, <1>3, <1>4, <2>2, <2>4, <2>5, <2>6, Stays
<1>5. CASE Awaiting(fd, "WAITING_TO_CONNECT") /\ Refuse(fd)
  <2>1. externalObjects' = externalObjects /\ SocketForgotten(fd)
    BY <1>5, ReplyLemma, SocketUpdates DEF Refuse, Quiet
  <2>2. ChannelMoves(fd) /\ chan'[fd].kind = "free"
    BY <1>0, <1>2, <1>5, ChannelLemma DEF Refuse, Kinds
  <2>3. fd \notin Visible(activeSockets)
    BY <1>5 DEF Visible, Awaiting
  <2>4. SocketsOK' /\ ObjectsOK'
    BY <1>0, <1>2, <1>3, <2>1, <2>2, <2>3, Gone
  <2> QED
    BY <1>3, <2>4 DEF AllSockets
<1>6. PICK unsent : unsent = IF Awaiting(fd, "WAITING_TO_WRITE") THEN <<"socketError">> ELSE <<>>
  OBVIOUS
<1>7. unsent = <<"socketError">> \/ unsent = <<>>
  BY <1>6
<1>8. CASE /\ Awaiting(fd, "WAITING_TO_READ") /\ chan' = [chan EXCEPT ![fd] = Channel("free")]
           /\ activeSockets' = Forgotten(activeSockets, fd)
           /\ Reply(unsent \o <<"closedSocket">>, fd)
  <2>2. Reply(<<"socketError", "closedSocket">>, fd) \/ Reply(<<"closedSocket">>, fd)
    BY <1>7, <1>8, TwoReplies
  <2>3. externalObjects' = externalObjects \ {<<"socket", fd>>} /\ SocketForgotten(fd)
    BY <1>8, <2>2, ReplyLemma, SocketUpdates
  <2>4. ChannelMoves(fd) /\ chan'[fd].kind = "free"
    BY <1>0, <1>2, <1>8, ChannelLemma DEF Kinds
  <2>5. SocketsOK' /\ ObjectsOK'
    BY <1>0, <1>2, <1>3, <2>3, <2>4, Gone
  <2> QED
    BY <1>3, <2>5 DEF AllSockets
<1>9. CASE /\ ~Awaiting(fd, "WAITING_TO_READ") /\ ~Awaiting(fd, "WAITING_TO_ACCEPT")
           /\ ~Awaiting(fd, "WAITING_TO_CONNECT")
           /\ activeSockets' = [Answered(fd, "WAITING_TO_WRITE") EXCEPT ![fd].unsent = 0]
           /\ Reply(unsent, fd) /\ chan' = channels
  <2>1. PICK st, none : st = old.state \ {"WAITING_TO_WRITE"} /\ none = 0
    OBVIOUS
  <2>2. PICK s : s = [old EXCEPT !.state = st]
    OBVIOUS
  <2>3. PICK t : t = [s EXCEPT !.unsent = none]
    OBVIOUS
  <2>4. st \in {{}, {"LISTENING"}} /\ old.state \cap {"WAITING_TO_READ", "WAITING_TO_ACCEPT", "WAITING_TO_CONNECT"} = {}
    <3>1. old.state \cap {"WAITING_TO_READ", "WAITING_TO_ACCEPT", "WAITING_TO_CONNECT"} = {}
      BY <1>1, <1>9 DEF Awaiting
    <3>2. old.state \in States
      BY <1>2 DEF SocketGood
    <3>3. old.state \subseteq {"WAITING_TO_WRITE"} \/ old.state = {"LISTENING"}
      BY <3>1, <3>2 DEF States
    <3> QED
      BY <2>1, <3>1, <3>3
  <2>5. st \in States /\ Wishes(st) = {} /\ "WAITING_TO_CONNECT" \notin st /\ st \in SUBSET Bits
    BY <2>4 DEF States, Wishes, Want, Bits
  <2>6. s \in SocketType /\ s.state = st
    BY <1>2, <2>2, <2>5 DEF SocketGood, SocketType
  <2>7. SocketGood(s, c)
    BY <2>4, <2>5, <2>6 DEF SocketGood
  <2>8. SocketGood(t, c) /\ t.state = st
    <3>1. none \in 0 .. MaxRoom + 1
      BY <2>1, SocketAssumption
    <3> QED
      BY <2>3, <2>6, <2>7, <3>1, StillGood
  <2>9. SocketBecomes(fd, t)
    <3>1. PICK answered : answered = Answered(fd, "WAITING_TO_WRITE")
      OBVIOUS
    <3>2. /\ DOMAIN answered = DOMAIN activeSockets /\ answered[fd] = s
          /\ \A f \in DOMAIN activeSockets \ {fd} : answered[f] = activeSockets[f]
      BY <1>1, <2>1, <2>2, <3>1 DEF Answered
    <3>3. activeSockets' = [answered EXCEPT ![fd].unsent = none]
      BY <1>9, <2>1, <3>1
    <3> QED
      BY <2>3, <3>2, <3>3 DEF SocketBecomes
  <2>10. externalObjects' = externalObjects
    BY <1>7, <1>9, ReplyLemma DEF Quiet
  <2>11. FlagsBecome(fd, Wishes(t.state)) /\ "WAITING_TO_CONNECT" \notin t.state
         /\ "WAITING_TO_CONNECT" \notin activeSockets[fd].state
    BY <1>1, <1>3, <2>4, <2>5, <2>8
  <2> QED
    BY <1>1, <1>3, <1>9, <2>8, <2>9, <2>10, <2>11, Stays
<1> QED
  BY <1>4, <1>5, <1>6, <1>8, <1>9 DEF HandleException

LEMMA FileCallbackStep ==
  ASSUME AllSockets, ThreadOK, FileCallback
  PROVE  AllSockets'
<1>0. Idle
  BY DEF FileCallback, Beside, Idle, processVars
<1>1. PICK fd : fd = NextFile.fd
  OBVIOUS
<1>2. fd \in Fds /\ flags[fd] # {}
  <2>1. PICK event : HandleFile(event)
    BY DEF FileCallback
  <2> QED
    BY <1>1, <2>1, HandledFile DEF ThreadOK
<1>3. fd \in DOMAIN activeSockets
  BY <1>2 DEF AllSockets, SocketsOK, SocketAt
<1>4. \/ DoError(fd) \/ DoHungUp(fd)
      \/ DoRead(fd, flags[fd] \ {"READ"}) \/ DoWrite(fd, flags[fd] \ {"WRITE"})
  BY <1>1 DEF FileCallback
<1>5. chan \in [Fds -> ChannelType]
  BY DEF AllSockets, SocketsOK
<1>6. CASE DoError(fd)
  <2>1. PICK channels, p : /\ p = (IF chan[fd].kind = "stream" THEN "gone" ELSE chan[fd].peer)
                           /\ channels = [chan EXCEPT ![fd].broken = FALSE, ![fd].peer = p]
    OBVIOUS
  <2>2. HandleException(fd, channels)
    BY <1>6, <2>1 DEF DoError
  <2>3. chan' = channels => ChannelMoves(fd) /\ chan'[fd].kind = chan[fd].kind
    <3>1. PICK c : c = [chan[fd] EXCEPT !.broken = FALSE, !.peer = p]
      OBVIOUS
    <3>2. chan[fd] \in ChannelType /\ p \in {"open", "eof", "gone"}
      BY <1>2, <1>5, <2>1 DEF ChannelType
    <3>3. c \in ChannelType /\ c.kind = chan[fd].kind
      BY <3>1, <3>2 DEF ChannelType
    <3>4. channels = [chan EXCEPT ![fd] = c]
      BY <2>1, <3>1
    <3> QED
      BY <1>2, <1>5, <3>3, <3>4 DEF ChannelMoves
  <2> QED
    BY <1>0, <1>3, <2>2, <2>3, ExceptionHandled
<1>7. CASE DoHungUp(fd)
  <2>1. PICK channels : channels = chan
    OBVIOUS
  <2>2. HandleException(fd, channels)
    BY <1>7, <2>1 DEF DoHungUp
  <2>3. chan' = channels => ChannelMoves(fd) /\ chan'[fd].kind = chan[fd].kind
    BY <1>2, <1>5, <2>1, ChannelLemma
  <2> QED
    BY <1>0, <1>3, <2>2, <2>3, ExceptionHandled
<1>8. CASE DoRead(fd, flags[fd] \ {"READ"})
  BY <1>0, <1>2, <1>3, <1>8, ReadHandled, AcceptHandled DEF DoRead
<1>9. CASE DoWrite(fd, flags[fd] \ {"WRITE"})
  BY <1>0, <1>2, <1>3, <1>9, ConnectHandled, WriteHandled DEF DoWrite
<1> QED
  BY <1>4, <1>6, <1>7, <1>8, <1>9

----------------------------------------------------------------------------
(* The other steps that touch the sockets.                                 *)
LEMMA SocketsTouched ==
  ASSUME [Next]_vars
  PROVE  \/ SocketMessage \/ FileCallback \/ CreateProcessMessage \/ NewContext \/ ChildEvent \/ NetworkEvent
         \/ UNCHANGED <<activeSockets, chan, flags, active, context>>
<1>1. CASE TimerMessage
  BY <1>1 DEF TimerMessage, OfTimer, Send, socketVars
<1>2. CASE SignalMessage
  BY <1>2 DEF SignalMessage, OfProcess, Send, requestVars, managerVars, socketVars
<1>3. CASE WaitMessage
  BY <1>3 DEF WaitMessage, OfProcess, Send, managerVars, socketVars
<1>4. CASE WaitChecked \/ TraversalEnds \/ HandleInterrupt \/ WaitForEvents \/ EventLoopReturns
  BY <1>4 DEF WaitChecked, TraversalEnds, HandleInterrupt, WaitForEvents, EventLoopReturns,
              Elsewhere, requestVars, managerVars, socketVars
<1>5. CASE TimerCallback
  BY <1>5 DEF TimerCallback, HandleCallback, Beside, socketVars
<1>6. CASE ChildCallback
  BY <1>6 DEF ChildCallback, HandleChild, Beside, socketVars
<1>7. CASE PollStep
  <2>1. UNCHANGED <<flags, active>>
    BY <1>7 DEF PollStep, ThreadSteps, ReadClock, CallbacksHandled, Decide, BlockSigchld, CollectFiles,
                PollInterrupted, SkipFile, FilesHandled, ChildrenHandled, Unblock, Again, FilesReady,
                PollTimedOut
  <2> QED
    BY <1>7, <2>1 DEF PollStep, Beside, managerVars, socketVars
<1>8. CASE LimitReached \/ Continue
  BY <1>8 DEF LimitReached, Continue, Elsewhere, requestVars, managerVars, socketVars
<1>9. CASE Tick \/ UserInterrupt \/ UNCHANGED vars
  BY <1>9 DEF Tick, UserInterrupt, vars, threadVars, requestVars, managerVars, contextVars, socketVars
<1> QED
  BY <1>1, <1>2, <1>3, <1>4, <1>5, <1>6, <1>7, <1>8, <1>9 DEF Next, Program, SendMessage

LEMMA ChildLeavesSockets ==
  ASSUME SocketsOK, FilesOK, ChildEvent
  PROVE  SocketsOK' /\ FilesOK'
<1>1. UNCHANGED <<activeSockets, flags, active, context>>
  BY DEF ChildEvent, requestVars, contextVars
<1>2. PICK pid : ChildExits(pid)
  BY DEF ChildEvent
<1>3. /\ chan \in [Fds -> ChannelType] /\ flags \in [Fds -> SUBSET Want]
      /\ DOMAIN activeSockets \subseteq Fds
      /\ \A fd \in Fds : SocketAt(fd, activeSockets, chan, flags, context)
  BY DEF SocketsOK
<1>4. PICK P : P = {f \in Fds : /\ pid \in DOMAIN childProcesses /\ chan[f].kind = "stream"
                                /\ f \in {childProcesses[pid].ioSocket, childProcesses[pid].errSocket}}
  OBVIOUS
<1>5. chan' = [f \in Fds |-> IF f \in P THEN [chan[f] EXCEPT !.peer = "gone"] ELSE chan[f]]
  BY <1>2, <1>4 DEF ChildExits
<1>6. \A c \in ChannelType : [c EXCEPT !.peer = "gone"] \in ChannelType /\ [c EXCEPT !.peer = "gone"].kind = c.kind
  BY DEF ChannelType
<1>7. chan' \in [Fds -> ChannelType] /\ \A f \in Fds : chan'[f].kind = chan[f].kind
  BY <1>3, <1>5, <1>6
<1>8. \A fd \in Fds : SocketAt(fd, activeSockets', chan', flags', context')
  BY <1>1, <1>3, <1>7 DEF SocketAt
<1> QED
  BY <1>1, <1>3, <1>7, <1>8 DEF SocketsOK, FilesOK

LEMMA NetworkLeavesSockets ==
  ASSUME SocketsOK, FilesOK, NetworkEvent
  PROVE  SocketsOK' /\ FilesOK'
<1>1. UNCHANGED <<activeSockets, flags, active, context>>
  BY DEF NetworkEvent, threadVars, contextVars
<1>2. PICK fd \in Fds : SocketEvent(fd)
  BY DEF NetworkEvent
<1>3. /\ chan \in [Fds -> ChannelType] /\ flags \in [Fds -> SUBSET Want]
      /\ DOMAIN activeSockets \subseteq Fds
      /\ \A f \in Fds : SocketAt(f, activeSockets, chan, flags, context)
  BY DEF SocketsOK
<1>4. PICK was : was = chan[fd] /\ was \in ChannelType
  BY <1>3
<1>5. /\ Channel("stream") \in ChannelType /\ Channel("stream").kind # "free"
      /\ \A seen \in BOOLEAN : LET c == [was EXCEPT !.kind = "refused", !.broken = seen]
                               IN  c \in ChannelType /\ c.kind # "free"
      /\ \A b \in BOOLEAN : /\ [was EXCEPT !.data = b] \in ChannelType /\ [was EXCEPT !.data = b].kind = was.kind
                            /\ [was EXCEPT !.broken = b] \in ChannelType /\ [was EXCEPT !.broken = b].kind = was.kind
      /\ [was EXCEPT !.room = MaxRoom] \in ChannelType /\ [was EXCEPT !.room = MaxRoom].kind = was.kind
      /\ \A p \in {"open", "eof", "gone"} :
           [was EXCEPT !.peer = p] \in ChannelType /\ [was EXCEPT !.peer = p].kind = was.kind
  <2>1. MaxRoom \in 0 .. MaxRoom
    BY SocketAssumption
  <2>2. Channel("stream") \in ChannelType /\ Channel("stream").kind # "free"
    BY <2>1 DEF Channel, ChannelType, Kinds
  <2>3. \A seen \in BOOLEAN : LET c == [was EXCEPT !.kind = "refused", !.broken = seen]
                              IN  c \in ChannelType /\ c.kind # "free"
    BY <1>4 DEF ChannelType, Kinds
  <2>4. \A b \in BOOLEAN : /\ [was EXCEPT !.data = b] \in ChannelType /\ [was EXCEPT !.data = b].kind = was.kind
                           /\ [was EXCEPT !.broken = b] \in ChannelType /\ [was EXCEPT !.broken = b].kind = was.kind
    BY <1>4 DEF ChannelType
  <2>5. [was EXCEPT !.room = MaxRoom] \in ChannelType /\ [was EXCEPT !.room = MaxRoom].kind = was.kind
    BY <1>4, <2>1 DEF ChannelType
  <2>6. \A p \in {"open", "eof", "gone"} :
           [was EXCEPT !.peer = p] \in ChannelType /\ [was EXCEPT !.peer = p].kind = was.kind
    BY <1>4 DEF ChannelType
  <2> QED
    BY <2>2, <2>3, <2>4, <2>5, <2>6
<1>6. \E c \in ChannelType : c.kind # "free" /\ chan' = [chan EXCEPT ![fd] = c]
  <2>1. CASE /\ was.kind = "connecting"
             /\ \/ chan' = [chan EXCEPT ![fd] = Channel("stream")]
                \/ \E seen \in BOOLEAN : chan' = [chan EXCEPT ![fd] = [was EXCEPT !.kind = "refused", !.broken = seen]]
    BY <1>5, <2>1
  <2>2. CASE /\ was.kind \in {"stream", "listener"}
             /\ \/ chan' = [chan EXCEPT ![fd] = [was EXCEPT !.data = TRUE]]
                \/ chan' = [chan EXCEPT ![fd] = [was EXCEPT !.data = FALSE]]
                \/ chan' = [chan EXCEPT ![fd] = [was EXCEPT !.broken = TRUE]]
    BY <1>5, <2>2
  <2>3. CASE /\ was.kind = "stream"
             /\ \/ chan' = [chan EXCEPT ![fd] = [was EXCEPT !.room = MaxRoom]]
                \/ chan' = [chan EXCEPT ![fd] = [was EXCEPT !.peer = "eof"]]
                \/ chan' = [chan EXCEPT ![fd] = [was EXCEPT !.peer = "gone"]]
    BY <1>5, <2>3
  <2> QED
    BY <1>2, <1>4, <2>1, <2>2, <2>3 DEF SocketEvent
<1>7. chan[fd].kind # "free"
  BY <1>2 DEF SocketEvent
<1>8. chan' \in [Fds -> ChannelType] /\ \A f \in Fds : chan'[f].kind = "free" <=> chan[f].kind = "free"
  BY <1>3, <1>6, <1>7
<1>9. \A f \in Fds : SocketAt(f, activeSockets', chan', flags', context')
  BY <1>1, <1>3, <1>8 DEF SocketAt
<1> QED
  BY <1>1, <1>3, <1>8, <1>9 DEF SocketsOK, FilesOK

(* A new context closes all sockets but those that are still connecting.   *)
LEMMA SocketsCleanedUp ==
  ASSUME SocketsOK, FilesOK, ObjectsOK, NewContext
  PROVE  SocketsOK' /\ FilesOK' /\ Visible(activeSockets') = {}
<1>1. PICK S : S = Visible(activeSockets)
  OBVIOUS
<1>2. {fd \in DOMAIN activeSockets : <<"socket", fd>> \in externalObjects} = S
  BY <1>1 DEF ObjectsOK, Socket, Timer, Process, Visible
<1>3. CleanUpSockets(S)
  BY <1>2 DEF NewContext
<1>4. /\ chan \in [Fds -> ChannelType] /\ flags \in [Fds -> SUBSET Want]
      /\ DOMAIN activeSockets \subseteq Fds
      /\ \A fd \in Fds : SocketAt(fd, activeSockets, chan, flags, context)
  BY DEF SocketsOK
<1>5. /\ DOMAIN activeSockets' = DOMAIN activeSockets \ S
      /\ \A fd \in DOMAIN activeSockets \ S : activeSockets'[fd] = activeSockets[fd]
      /\ \A fd \in Fds : /\ fd \in S => chan'[fd] = Channel("free") /\ flags'[fd] = {}
                         /\ fd \notin S => chan'[fd] = chan[fd] /\ flags'[fd] = flags[fd]
  BY <1>3 DEF CleanUpSockets
<1>6. Channel("free") \in ChannelType /\ Channel("free").kind = "free"
  BY SocketAssumption DEF Channel, ChannelType, Kinds
<1>7. chan' \in [Fds -> ChannelType] /\ flags' \in [Fds -> SUBSET Want]
  <2>1. /\ chan' = [f \in Fds |-> IF f \in S THEN Channel("free") ELSE chan[f]]
        /\ flags' = [f \in Fds |-> IF f \in S THEN {} ELSE flags[f]]
    BY <1>3 DEF CleanUpSockets
  <2> QED
    BY <1>4, <1>6, <2>1
<1>8. \A fd \in DOMAIN activeSockets \ S : activeSockets[fd].state = {"WAITING_TO_CONNECT"}
  BY <1>1, <1>4, StatesLemma DEF Visible, SocketAt, SocketGood
<1>9. ASSUME NEW fd \in Fds PROVE SocketAt(fd, activeSockets', chan', flags', context')
  <2>1. SocketAt(fd, activeSockets, chan, flags, context)
    BY <1>4
  <2>2. CASE fd \in S
    BY <1>5, <1>6, <2>2 DEF SocketAt
  <2>3. CASE fd \in DOMAIN activeSockets \ S
    <3>1. /\ fd \in DOMAIN activeSockets' /\ activeSockets'[fd] = activeSockets[fd]
          /\ chan'[fd] = chan[fd] /\ flags'[fd] = flags[fd]
      BY <1>5, <2>3
    <3>2. SocketGood(activeSockets[fd], context')
      BY <1>8, <2>1, <2>3 DEF SocketAt, SocketGood
    <3> QED
      BY <2>1, <2>3, <3>1, <3>2 DEF SocketAt
  <2>4. CASE fd \notin DOMAIN activeSockets
    <3>1. fd \notin S
      BY <1>1, <2>4 DEF Visible
    <3> QED
      BY <1>5, <2>1, <2>4, <3>1 DEF SocketAt
  <2> QED
    BY <2>2, <2>3, <2>4
<1>10. SocketsOK'
  BY <1>4, <1>5, <1>7, <1>9 DEF SocketsOK
<1>11. FilesOK'
  <2>1. active \in Seq(Fds) /\ IsInjective(active) /\ ToSet(active) = {f \in Fds : flags[f] # {}}
    BY DEF FilesOK
  <2>2. PICK rest : rest = Dropped(active, S)
    OBVIOUS
  <2>3. rest \in Seq(Fds) /\ IsInjective(rest) /\ ToSet(rest) = ToSet(active) \ S
    BY <2>1, <2>2, DroppedLemma, DroppedInjective
  <2>4. active' = rest
    BY <1>3, <2>2 DEF CleanUpSockets
  <2>5. {f \in Fds : flags'[f] # {}} = ToSet(active) \ S
    BY <1>5, <2>1
  <2>6. IsInjective(active)' /\ ToSet(active)' = ToSet(rest)
    BY <2>3, <2>4
  <2> QED
    BY <2>3, <2>4, <2>5, <2>6 DEF FilesOK
<1>12. Visible(activeSockets') = {}
  BY <1>1, <1>5 DEF Visible
<1> QED
  BY <1>10, <1>11, <1>12

----------------------------------------------------------------------------
(* The external objects.                                                   *)
ObjectsAre(e, ids, pids, fds) ==
  \A o : o \in e <=> \/ \E id \in ids : o = <<"timer", id>>
                     \/ \E pid \in pids : o = <<"process", pid>>
                     \/ \E fd \in fds : o = <<"socket", fd>>
LEMMA ObjectsAreThose ==
  /\ ObjectsOK <=>
       ObjectsAre(externalObjects, DOMAIN timerMap, DOMAIN childProcesses, Visible(activeSockets))
  /\ ObjectsOK' <=>
       ObjectsAre(externalObjects', DOMAIN timerMap', DOMAIN childProcesses', Visible(activeSockets'))
BY DEF ObjectsOK, Timer, Process, Socket, Visible, ObjectsAre

LEMMA ObjectsChange ==
  ASSUME NEW e, NEW ids, NEW pids, NEW fds, ObjectsAre(e, ids, pids, fds)
  PROVE  \A x : /\ ObjectsAre(e \cup {<<"timer", x>>}, ids \cup {x}, pids, fds)
                /\ ObjectsAre(e \ {<<"timer", x>>}, ids \ {x}, pids, fds)
                /\ ObjectsAre(e \cup {<<"process", x>>}, ids, pids \cup {x}, fds)
                /\ ObjectsAre(e \ {<<"process", x>>}, ids, pids \ {x}, fds)
                /\ ObjectsAre(e \cup {<<"socket", x>>}, ids, pids, fds \cup {x})
<1> TAKE x
<1>1. /\ \A y, z : /\ <<"timer", y>> # <<"process", z>> /\ <<"timer", y>> # <<"socket", z>>
                   /\ <<"process", y>> # <<"socket", z>>
                   /\ <<"timer", y>> = <<"timer", z>> <=> y = z
                   /\ <<"process", y>> = <<"process", z>> <=> y = z
                   /\ <<"socket", y>> = <<"socket", z>> <=> y = z
  OBVIOUS
<1>2. ObjectsAre(e \cup {<<"timer", x>>}, ids \cup {x}, pids, fds)
  BY <1>1 DEF ObjectsAre
<1>3. ObjectsAre(e \ {<<"timer", x>>}, ids \ {x}, pids, fds)
  BY <1>1 DEF ObjectsAre
<1>4. ObjectsAre(e \cup {<<"process", x>>}, ids, pids \cup {x}, fds)
  BY <1>1 DEF ObjectsAre
<1>5. ObjectsAre(e \ {<<"process", x>>}, ids, pids \ {x}, fds)
  BY <1>1 DEF ObjectsAre
<1>6. ObjectsAre(e \cup {<<"socket", x>>}, ids, pids, fds \cup {x})
  BY <1>1 DEF ObjectsAre
<1> QED
  BY <1>2, <1>3, <1>4, <1>5, <1>6

(* createProcess: the child and its two sockets appear together.           *)
LEMMA ProcessOpened ==
  ASSUME AllSockets, ThreadOK, CreateProcessMessage
  PROVE  AllSockets'
<1>0. /\ SocketsOK /\ FilesOK /\ ObjectsOK
      /\ flags \in [Fds -> SUBSET Want] /\ chan \in [Fds -> ChannelType] /\ DOMAIN activeSockets \subseteq Fds
  BY DEF AllSockets, SocketsOK
<1>1. UNCHANGED <<flags, active, context, timerMap>> /\ CreateProcess
  BY DEF CreateProcessMessage, Send, requestVars
<1>2. PICK pid, io, err : pid = LowestOf(FreePids) /\ io = LowestOf(FreeFds) /\ err = LowestOf(FreeFds \ {io})
  OBVIOUS
<1>3. io \in FreeFds /\ err \in FreeFds /\ io # err
  BY <1>1, <1>2, TwoFree DEF CreateProcess
<1>4. /\ io \in Fds /\ io \notin DOMAIN activeSockets /\ flags[io] = {}
      /\ err \in Fds /\ err \notin DOMAIN activeSockets /\ flags[err] = {}
  BY <1>0, <1>3, SocketFree
<1>5. ASSUME DOMAIN childProcesses' = DOMAIN childProcesses \cup {pid},
             activeSockets' = Known(Known(activeSockets, io, ActiveSocket({}, FALSE)),
                                    err, ActiveSocket({}, TRUE)),
             chan' = [chan EXCEPT ![io] = Channel("stream"), ![err] = Channel("stream")],
             ReplyWith(<<"createdProcess">>, pid, {<<"socket", io>>, <<"socket", err>>})
      PROVE  AllSockets'
  <2>1. PICK first, second, c : first = ActiveSocket({}, FALSE) /\ second = ActiveSocket({}, TRUE)
                                /\ c = Channel("stream")
    OBVIOUS
  <2>2. /\ SocketGood(first, context) /\ first.state = {}
        /\ SocketGood(second, context) /\ second.state = {} /\ Wishes({}) = {}
    BY <2>1, FreshSocket
  <2>3. c \in ChannelType /\ c.kind # "free"
    BY <2>1, SocketAssumption DEF Channel, ChannelType, Kinds
  <2>4. PICK sockets, channels : /\ sockets = Known(activeSockets, io, first)
                                 /\ channels = [chan EXCEPT ![io] = c]
    OBVIOUS
  <2>5. /\ DOMAIN sockets = DOMAIN activeSockets \cup {io} /\ sockets[io] = first
        /\ \A f \in DOMAIN activeSockets : sockets[f] = activeSockets[f]
    BY <1>4, <2>4 DEF Known
  <2>6. activeSockets' = Known(sockets, err, second) /\ chan' = [channels EXCEPT ![err] = c]
    BY <1>5, <2>1, <2>4
  <2>7. /\ DOMAIN activeSockets' = DOMAIN activeSockets \cup {io, err}
        /\ activeSockets'[io] = first /\ activeSockets'[err] = second
        /\ \A f \in DOMAIN activeSockets : activeSockets'[f] = activeSockets[f]
    BY <1>3, <1>4, <2>5, <2>6 DEF Known
  <2>8. /\ channels \in [Fds -> ChannelType] /\ channels[io] = c
        /\ \A f \in Fds \ {io} : channels[f] = chan[f]
    BY <1>0, <1>4, <2>3, <2>4
  <2>9. /\ chan' \in [Fds -> ChannelType] /\ chan'[io] = c /\ chan'[err] = c
        /\ \A f \in Fds \ {io, err} : chan'[f] = chan[f]
    BY <1>3, <1>4, <2>3, <2>6, <2>8
  <2>10. /\ SocketAt(io, activeSockets', chan', flags', context)
         /\ SocketAt(err, activeSockets', chan', flags', context)
    BY <1>1, <1>4, <2>2, <2>3, <2>7, <2>9 DEF SocketAt
  <2>11. SocketsOK'
    <3>1. PICK S \in SUBSET Fds : S = {io, err}
      BY <1>4
    <3>2. \A f \in Fds \ S :
           /\ f \in DOMAIN activeSockets' <=> f \in DOMAIN activeSockets
           /\ f \in DOMAIN activeSockets => activeSockets'[f] = activeSockets[f]
           /\ chan'[f].kind = chan[f].kind /\ flags'[f] = flags[f]
      BY <1>1, <2>7, <2>9, <3>1
    <3>3. DOMAIN activeSockets' \subseteq Fds
      BY <1>0, <1>4, <2>7
    <3>4. \A f \in S : SocketAt(f, activeSockets', chan', flags', context)
      BY <2>10, <3>1
    <3>5. UNCHANGED context /\ flags' \in [Fds -> SUBSET Want]
      BY <1>0, <1>1
    <3> QED
      BY <1>0, <2>9, <3>1, <3>2, <3>3, <3>4, <3>5, SocketsMoved
  <2>12. FilesOK'
    BY <1>0, <1>1, FilesKept
  <2>13. Visible(activeSockets') = (Visible(activeSockets) \cup {io}) \cup {err}
    BY <1>4, <2>2, <2>7 DEF Visible
  <2>14. externalObjects' =
           ((externalObjects \cup {<<"socket", io>>}) \cup {<<"socket", err>>}) \cup {<<"process", pid>>}
    <3>1. PICK others : others = {<<"socket", io>>, <<"socket", err>>}
      OBVIOUS
    <3>2. ReplyWith(<<"createdProcess">>, pid, others)
      BY <1>5, <3>1
    <3>3. externalObjects' = (externalObjects \cup others \cup Appears("createdProcess", pid))
                             \ Disappears("createdProcess", pid)
      BY <3>2, RepliesLemma
    <3>4. Appears("createdProcess", pid) = {<<"process", pid>>} /\ Disappears("createdProcess", pid) = {}
      BY DEF Appears, Disappears
    <3> QED
      BY <3>1, <3>3, <3>4
  <2>15. ObjectsOK'
    <3>1. PICK e, ids, pids, fds :
            e = externalObjects /\ ids = DOMAIN timerMap /\ pids = DOMAIN childProcesses
            /\ fds = Visible(activeSockets)
      OBVIOUS
    <3>2. ObjectsAre(e, ids, pids, fds)
      BY <1>0, <3>1, ObjectsAreThose
    <3>3. ObjectsAre(e \cup {<<"socket", io>>}, ids, pids, fds \cup {io})
      BY <3>2, ObjectsChange
    <3>4. ObjectsAre((e \cup {<<"socket", io>>}) \cup {<<"socket", err>>}, ids, pids, (fds \cup {io}) \cup {err})
      BY <3>3, ObjectsChange
    <3>5. ObjectsAre(((e \cup {<<"socket", io>>}) \cup {<<"socket", err>>}) \cup {<<"process", pid>>},
                     ids, pids \cup {pid}, (fds \cup {io}) \cup {err})
      BY <3>4, ObjectsChange
    <3>6. /\ externalObjects' = ((e \cup {<<"socket", io>>}) \cup {<<"socket", err>>}) \cup {<<"process", pid>>}
          /\ DOMAIN timerMap' = ids /\ DOMAIN childProcesses' = pids \cup {pid}
          /\ Visible(activeSockets') = (fds \cup {io}) \cup {err}
      BY <1>1, <1>5, <2>13, <2>14, <3>1
    <3> QED
      BY <3>5, <3>6, ObjectsAreThose
  <2> QED
    BY <2>11, <2>12, <2>15 DEF AllSockets
<1>6. ASSUME Reply(<<"processError">>, pid), UNCHANGED <<childProcesses, socketVars>>
      PROVE  AllSockets'
  <2>1. externalObjects' = externalObjects
    BY <1>6, ReplyLemma DEF Quiet
  <2>2. Idle
    BY <1>1, <1>6 DEF Idle
  <2> QED
    BY <1>1, <1>6, <2>1, <2>2, NothingMoves DEF socketVars
<1>7. \/ /\ childProcesses' = [p \in DOMAIN childProcesses \cup {pid} |->
                 IF p = pid THEN [ioSocket |-> io, errSocket |-> err, waitContext |-> NoContext]
                 ELSE childProcesses[p]]
         /\ activeSockets' = Known(Known(activeSockets, io, ActiveSocket({}, FALSE)),
                                   err, ActiveSocket({}, TRUE))
         /\ chan' = [chan EXCEPT ![io] = Channel("stream"), ![err] = Channel("stream")]
         /\ ReplyWith(<<"createdProcess">>, pid, {<<"socket", io>>, <<"socket", err>>})
      \/ Reply(<<"processError">>, pid) /\ UNCHANGED <<childProcesses, socketVars>>
  BY <1>1, <1>2 DEF CreateProcess
<1>8. childProcesses' = [p \in DOMAIN childProcesses \cup {pid} |->
                 IF p = pid THEN [ioSocket |-> io, errSocket |-> err, waitContext |-> NoContext]
                 ELSE childProcesses[p]]
      => DOMAIN childProcesses' = DOMAIN childProcesses \cup {pid}
  OBVIOUS
<1> QED
  BY <1>5, <1>6, <1>7, <1>8

LEMMA SocketsStep ==
  ASSUME AllSockets, ThreadOK, [Next]_vars
  PROVE  SocketsOK' /\ FilesOK'
<1>1. CASE SocketMessage \/ FileCallback \/ CreateProcessMessage
  BY <1>1, SocketMessageStep, FileCallbackStep, ProcessOpened DEF AllSockets
<1>2. CASE NewContext
  BY <1>2, SocketsCleanedUp DEF AllSockets
<1>3. CASE ChildEvent
  BY <1>3, ChildLeavesSockets DEF AllSockets
<1>4. CASE NetworkEvent
  BY <1>4, NetworkLeavesSockets DEF AllSockets
<1>5. CASE UNCHANGED <<activeSockets, chan, flags, active, context>>
  BY <1>5 DEF AllSockets, SocketsOK, FilesOK
<1> QED
  BY <1>1, <1>2, <1>3, <1>4, <1>5, SocketsTouched

LEMMA ObjectsInitial == Init => ObjectsOK
<1> SUFFICES ASSUME Init PROVE ObjectsOK
  OBVIOUS
<1>1. /\ externalObjects = {} /\ timerMap = <<>> /\ childProcesses = <<>> /\ activeSockets = <<>>
  BY DEF Init, ContextInit, TimersInit, ProcessesInit, SocketsInit
<1>2. DOMAIN timerMap = {} /\ DOMAIN childProcesses = {} /\ DOMAIN activeSockets = {}
  <2>1. DOMAIN <<>> = {}
    OBVIOUS
  <2> QED
    BY <1>1, <2>1
<1> QED
  BY <1>1, <1>2 DEF ObjectsOK

(* Only the numbers of the timers and of the children matter.              *)
LEMMA ObjectsKept ==
  ASSUME ObjectsOK, externalObjects' = externalObjects, DOMAIN timerMap' = DOMAIN timerMap,
         DOMAIN childProcesses' = DOMAIN childProcesses, UNCHANGED activeSockets
  PROVE  ObjectsOK'
<1>1. Visible(activeSockets') = Visible(activeSockets)
  OBVIOUS
<1> QED
  BY <1>1, ObjectsAreThose

LEMMA ObjectMoved ==
  ASSUME ObjectsOK, NEW x, Visible(activeSockets') = Visible(activeSockets),
         \/ /\ externalObjects' = externalObjects \cup {<<"timer", x>>}
            /\ DOMAIN timerMap' = DOMAIN timerMap \cup {x} /\ DOMAIN childProcesses' = DOMAIN childProcesses
         \/ /\ externalObjects' = externalObjects \ {<<"timer", x>>}
            /\ DOMAIN timerMap' = DOMAIN timerMap \ {x} /\ DOMAIN childProcesses' = DOMAIN childProcesses
         \/ /\ externalObjects' = externalObjects \ {<<"process", x>>}
            /\ DOMAIN timerMap' = DOMAIN timerMap /\ DOMAIN childProcesses' = DOMAIN childProcesses \ {x}
  PROVE  ObjectsOK'
<1>1. PICK e, ids, pids, fds :
        e = externalObjects /\ ids = DOMAIN timerMap /\ pids = DOMAIN childProcesses
        /\ fds = Visible(activeSockets)
  OBVIOUS
<1>2. ObjectsAre(e, ids, pids, fds)
  BY <1>1, ObjectsAreThose
<1>3. /\ ObjectsAre(e \cup {<<"timer", x>>}, ids \cup {x}, pids, fds)
      /\ ObjectsAre(e \ {<<"timer", x>>}, ids \ {x}, pids, fds)
      /\ ObjectsAre(e \ {<<"process", x>>}, ids, pids \ {x}, fds)
  BY <1>2, ObjectsChange
<1>4. ObjectsAre(externalObjects', DOMAIN timerMap', DOMAIN childProcesses', Visible(activeSockets'))
  BY <1>1, <1>3
<1> QED
  BY <1>4, ObjectsAreThose

LEMMA TimerObjects ==
  ASSUME ObjectsOK, TimerMessage \/ TimerCallback
  PROVE  ObjectsOK'
<1>1. UNCHANGED <<childProcesses, activeSockets>>
  BY DEF TimerMessage, TimerCallback, processVars, socketVars
<1>2. ASSUME NEW id, DOMAIN timerMap' = DOMAIN timerMap,
             \E m \in {"startedTimer", "stoppedTimer", "timeOut"} : Reply(<<m>>, id)
      PROVE  ObjectsOK'
  <2>1. externalObjects' = externalObjects
    BY <1>2, ReplyLemma DEF Quiet
  <2> QED
    BY <1>1, <1>2, <2>1, ObjectsKept
<1>3. Visible(activeSockets') = Visible(activeSockets)
  BY <1>1
<1>4. CASE CreateTimer
  <2>1. PICK id : id = FindUnusedId
    OBVIOUS
  <2>2. PICK t : t = [at |-> Stopped, period |-> 0, context |-> NoContext]
    OBVIOUS
  <2>3. timerMap' = With(timerMap, id, t) /\ Reply(<<"createdTimer">>, id)
    BY <1>4, <2>1, <2>2 DEF CreateTimer
  <2>4. DOMAIN timerMap' = DOMAIN timerMap \cup {id}
    BY <2>3 DEF With
  <2>5. externalObjects' = externalObjects \cup {<<"timer", id>>}
    BY <2>3, ReplyLemma
  <2> QED
    BY <1>1, <1>3, <2>4, <2>5, ObjectMoved
<1>5. CASE \E id \in DOMAIN timerMap : DeleteTimer(id)
  <2>1. PICK id : timerMap' = Without(timerMap, id) /\ Reply(<<"deletedTimer">>, id)
    BY <1>5 DEF DeleteTimer
  <2>2. DOMAIN timerMap' = DOMAIN timerMap \ {id}
    BY <2>1 DEF Without
  <2>3. externalObjects' = externalObjects \ {<<"timer", id>>}
    BY <2>1, ReplyLemma
  <2> QED
    BY <1>1, <1>3, <2>2, <2>3, ObjectMoved
<1>6. CASE \E id \in DOMAIN timerMap : StopTimer(id)
  <2>1. PICK id : timerMap' = [timerMap EXCEPT ![id].at = Stopped] /\ Reply(<<"stoppedTimer">>, id)
    BY <1>6 DEF StopTimer
  <2>2. DOMAIN timerMap' = DOMAIN timerMap
    BY <2>1
  <2> QED
    BY <1>2, <2>1, <2>2
<1>7. CASE \E id \in DOMAIN timerMap, p \in BOOLEAN, n \in Periods : StartTimer(id, p, n)
  <2>1. PICK id, p, n : StartTimer(id, p, n)
    BY <1>7
  <2>2. PICK t : t = [at |-> time + n, period |-> IF p THEN n ELSE 0, context |-> context]
    OBVIOUS
  <2>3. timerMap' = [timerMap EXCEPT ![id] = t] /\ Reply(<<"startedTimer">>, id)
    BY <2>1, <2>2 DEF StartTimer, Started
  <2>4. DOMAIN timerMap' = DOMAIN timerMap
    BY <2>3
  <2> QED
    BY <1>2, <2>3, <2>4
<1>8. CASE TimerCallback
  <2>1. PICK id, map : TimeOut(id, map)
    BY <1>8 DEF TimerCallback
  <2>2. PICK at : timerMap' = [timerMap EXCEPT ![id].at = at]
    BY <2>1 DEF TimeOut
  <2>3. DOMAIN timerMap' = DOMAIN timerMap
    BY <2>2
  <2>4. Reply(<<"timeOut">>, id)
    BY <2>1 DEF TimeOut
  <2> QED
    BY <1>2, <2>3, <2>4
<1>9. CASE TimerMessage
  <2>1. \/ CreateTimer
        \/ \E id \in DOMAIN timerMap : StopTimer(id)
        \/ \E id \in DOMAIN timerMap : DeleteTimer(id)
        \/ \E id \in DOMAIN timerMap, p \in BOOLEAN, n \in Periods : StartTimer(id, p, n)
    <3>1. \/ CreateTimer
          \/ \E id \in DOMAIN timerMap : StopTimer(id)
          \/ \E id \in DOMAIN timerMap : DeleteTimer(id)
          \/ \E id \in DOMAIN timerMap, n \in Periods : StartTimer(id, FALSE, n) \/ StartTimer(id, TRUE, n)
      BY <1>9 DEF TimerMessage, OfTimer
    <3> QED
      BY <3>1
  <2> QED
    BY <1>4, <1>5, <1>6, <1>7, <2>1
<1> QED
  BY <1>8, <1>9

LEMMA ProcessObjects ==
  ASSUME ObjectsOK, ChildrenOK, SignalMessage \/ WaitChecked \/ ChildCallback
  PROVE  ObjectsOK'
<1>1. UNCHANGED <<timerMap, activeSockets>>
  BY DEF SignalMessage, WaitChecked, ChildCallback, managerVars, socketVars
<1>2. Visible(activeSockets') = Visible(activeSockets)
  BY <1>1
<1>3. ASSUME NEW pid, ExitedReply(pid) PROVE ObjectsOK'
  <2>1. DOMAIN childProcesses' = DOMAIN childProcesses \ {pid} /\ Reply(<<"exited">>, pid)
    BY <1>3 DEF ExitedReply
  <2>2. externalObjects' = externalObjects \ {<<"process", pid>>}
    BY <2>1, ReplyLemma
  <2> QED
    BY <1>1, <1>2, <2>1, <2>2, ObjectMoved
<1>4. CASE SignalMessage
  <2>1. UNCHANGED childProcesses /\ \E pid : Reply(<<"signaledProcess">>, pid)
    BY <1>4 DEF SignalMessage, SignalProcess, managerVars, processVars
  <2>2. externalObjects' = externalObjects
    BY <2>1, ReplyLemma DEF Quiet
  <2> QED
    BY <1>1, <2>1, <2>2, ObjectsKept
<1>5. CASE WaitChecked
  <2>1. PICK pid : LookForExit(pid)
    BY <1>5 DEF WaitChecked
  <2>2. CASE Exited(pid)
    BY <1>3, <2>1, <2>2 DEF LookForExit
  <2>3. CASE ~Exited(pid)
    <3>1. childProcesses' = [childProcesses EXCEPT ![pid].waitContext = context] /\ Reply(<<>>, pid)
      BY <2>1, <2>3 DEF LookForExit
    <3>2. externalObjects' = externalObjects
      BY <3>1, ReplyLemma
    <3>3. DOMAIN childProcesses' = DOMAIN childProcesses
      BY <3>1
    <3> QED
      BY <1>1, <3>2, <3>3, ObjectsKept
  <2> QED
    BY <2>2, <2>3
<1>6. CASE ChildCallback
  <2>1. PICK pid : pid = NextChild
    OBVIOUS
  <2>2. ExitedReply(pid) \/ UNCHANGED <<childProcesses, externalObjects>>
    BY <1>6, <2>1 DEF ChildCallback, DoChildExit, processVars
  <2> QED
    BY <1>1, <1>3, <2>2, ObjectsKept
<1> QED
  BY <1>4, <1>5, <1>6

LEMMA ObjectsTouched ==
  ASSUME [Next]_vars
  PROVE  \/ TimerMessage \/ TimerCallback \/ SocketMessage \/ FileCallback \/ CreateProcessMessage
         \/ SignalMessage \/ WaitChecked \/ ChildCallback \/ NewContext
         \/ UNCHANGED <<externalObjects, timerMap, childProcesses, activeSockets>>
<1>1. CASE WaitMessage
  BY <1>1 DEF WaitMessage, managerVars, processVars, socketVars
<1>2. CASE TraversalEnds \/ HandleInterrupt \/ WaitForEvents \/ EventLoopReturns
  BY <1>2 DEF TraversalEnds, HandleInterrupt, WaitForEvents, EventLoopReturns, Elsewhere, managerVars,
              processVars, socketVars
<1>3. CASE PollStep
  BY <1>3 DEF PollStep, managerVars, processVars, socketVars
<1>4. CASE LimitReached \/ Continue
  BY <1>4 DEF LimitReached, Continue, Elsewhere, managerVars, processVars, socketVars
<1>5. CASE Tick \/ ChildEvent \/ NetworkEvent \/ UserInterrupt \/ UNCHANGED vars
  BY <1>5 DEF Tick, ChildEvent, NetworkEvent, UserInterrupt, vars, managerVars, contextVars, processVars,
              socketVars
<1> QED
  BY <1>1, <1>2, <1>3, <1>4, <1>5 DEF Next, Program, SendMessage

LEMMA ObjectsStep ==
  ASSUME AllSockets, TimersOK, ChildrenOK, ThreadOK, [Next]_vars
  PROVE  ObjectsOK'
<1>1. CASE TimerMessage \/ TimerCallback
  BY <1>1, TimerObjects DEF AllSockets
<1>2. CASE SocketMessage \/ FileCallback \/ CreateProcessMessage
  BY <1>2, SocketMessageStep, FileCallbackStep, ProcessOpened DEF AllSockets
<1>3. CASE SignalMessage \/ WaitChecked \/ ChildCallback
  BY <1>3, ProcessObjects DEF AllSockets
<1>4. CASE NewContext
  <2>1. Visible(activeSockets') = {}
    BY <1>4, SocketsCleanedUp DEF AllSockets
  <2>2. DOMAIN timerMap' = {}
    BY <1>4, TimersCleanedUp DEF AllSockets
  <2>3. DOMAIN childProcesses' = {}
    BY <1>4, ChildrenCleanedUp DEF AllSockets
  <2>4. externalObjects' = {}
    BY <1>4 DEF NewContext
  <2>5. ObjectsAre({}, {}, {}, {})
    BY DEF ObjectsAre
  <2> QED
    BY <2>1, <2>2, <2>3, <2>4, <2>5, ObjectsAreThose
<1>5. CASE UNCHANGED <<externalObjects, timerMap, childProcesses, activeSockets>>
  BY <1>5, ObjectsKept DEF AllSockets
<1> QED
  BY <1>1, <1>2, <1>3, <1>4, <1>5, ObjectsTouched

----------------------------------------------------------------------------
(* The invariant, and what it says of the event loop and of its clients.   *)
LEMMA InvInitial == Init => Inv
BY ThreadInitial, TimersInitial, ChildrenInitial, ExitsInitial, SocketsInitial, ObjectsInitial DEF Inv

LEMMA InvStep == Inv /\ [Next]_vars => Inv'
<1> SUFFICES ASSUME Inv, [Next]_vars PROVE Inv'
  OBVIOUS
<1>1. /\ ThreadOK /\ TimersOK /\ ChildrenOK /\ ExitsOK /\ SocketsOK /\ FilesOK /\ ObjectsOK
      /\ AllSockets /\ active \in Seq(Fds)
  BY DEF Inv, AllSockets, FilesOK
<1>2. ThreadOK'
  BY <1>1, ThreadStep
<1>3. TimersOK'
  BY <1>1, TimersStep
<1>4. ChildrenOK'
  BY <1>1, ChildrenStep
<1>5. ExitsOK'
  BY <1>1, ExitsStep
<1>6. SocketsOK' /\ FilesOK'
  BY <1>1, SocketsStep
<1>7. ObjectsOK'
  BY <1>1, ObjectsStep
<1> QED
  BY <1>2, <1>3, <1>4, <1>5, <1>6, <1>7 DEF Inv

LEMMA InvAlways == Spec => []Inv
<1>1. Init => Inv
  BY InvInitial
<1>2. Inv /\ [Next]_vars => Inv'
  BY InvStep
<1> QED
  BY <1>1, <1>2, PTL DEF Spec

LEMMA TimersSay == TimersOK => ToSet(callbackMap) = Callbacks(DOMAIN timerMap)
BY DEF TimersOK, Agree, CallbacksOf, Callbacks, Armed

(* The callbacks asked of the event loop are exactly those of the timers   *)
(* that run, once each and in the order of their times, and the exits      *)
(* asked for exactly those of the children waited for, once each: a timer  *)
(* or a child that is forgotten leaves no request behind.                  *)
THEOREM RequestsAreExact == Spec => []RequestsExact
<1>1. Inv => RequestsExact
  <2> SUFFICES ASSUME Inv PROVE RequestsExact
    OBVIOUS
  <2>1. ToSet(callbackMap) = Callbacks(DOMAIN timerMap)
    BY TimersSay DEF Inv
  <2>2. \A i, j \in DOMAIN callbackMap : i < j =>
          callbackMap[i].id # callbackMap[j].id /\ callbackMap[i].at <= callbackMap[j].at
    BY DEF Inv, TimersOK, Agree, Ordered
  <2>3. /\ IsInjective(childRequests)
        /\ ToSet(childRequests) = Waiting \cup (IF pc = "waitpid" THEN {waiter} ELSE {})
    BY DEF Inv, ChildrenOK
  <2> QED
    BY <2>1, <2>2, <2>3 DEF RequestsExact
<1> QED
  BY <1>1, InvAlways, PTL

(* A timer that runs, a child that is waited for and a socket that waits   *)
(* belong to the context there is, so that their events are not delivered  *)
(* to one that is gone; a client that is still connecting is the exception.*)
THEOREM ContextsAreAlive == Spec => []NoStaleContext
<1>1. Inv => NoStaleContext
  <2> SUFFICES ASSUME Inv PROVE NoStaleContext
    OBVIOUS
  <2>1. \A id \in DOMAIN timerMap : Armed(id) => timerMap[id].context = context
    BY DEF Inv, TimersOK, TimersTyped, Armed
  <2>2. \A pid \in Waiting : childProcesses[pid].waitContext = context
    BY DEF Inv, ChildrenOK
  <2>3. ASSUME NEW fd \in DOMAIN activeSockets, ToRead(fd) \/ Awaiting(fd, "WAITING_TO_WRITE")
        PROVE  activeSockets[fd].context = context
    <3>1. SocketGood(activeSockets[fd], context)
      BY SocketKnown DEF Inv
    <3> QED
      BY <2>3, <3>1 DEF SocketGood, ToRead, Awaiting
  <2> QED
    BY <2>1, <2>2, <2>3 DEF NoStaleContext
<1> QED
  BY <1>1, InvAlways, PTL

(* The exit of a child that is waited for is never overlooked, whenever    *)
(* SIGCHLD arrives: before the list of children is walked, while it is, or *)
(* between the request and the first look of waitForExit.                  *)
THEOREM ExitsAreNotLost == Spec => []ExitNotLost
<1>1. Inv => ExitNotLost
  BY DEF Inv, ExitsOK
<1> QED
  BY <1>1, InvAlways, PTL

(* A file is polled for reading or writing exactly when a socket that is   *)
(* open waits for that, and the list of files holds each of them once.     *)
THEOREM FilesAreWatched == Spec => []WatchedExact
<1>1. Inv => WatchedExact
  <2> SUFFICES ASSUME Inv PROVE WatchedExact
    OBVIOUS
  <2>1. \A fd \in Fds : SocketAt(fd, activeSockets, chan, flags, context)
    BY DEF Inv, SocketsOK
  <2>2. ASSUME NEW fd \in Fds
        PROVE  /\ "READ" \in flags[fd] <=> fd \in DOMAIN activeSockets /\ ToRead(fd)
               /\ "WRITE" \in flags[fd] <=> fd \in DOMAIN activeSockets /\ ToWrite(fd)
    <3>1. CASE fd \in DOMAIN activeSockets
      <4>1. flags[fd] = Wishes(activeSockets[fd].state)
        BY <2>1, <3>1 DEF SocketAt
      <4> QED
        BY <3>1, <4>1 DEF Wishes, Want, ToRead, ToWrite
    <3>2. CASE fd \notin DOMAIN activeSockets
      BY <2>1, <3>2 DEF SocketAt
    <3> QED
      BY <3>1, <3>2
  <2>3. IsInjective(active) /\ ToSet(active) = {fd \in Fds : flags[fd] # {}}
    BY DEF Inv, FilesOK
  <2> QED
    BY <2>2, <2>3 DEF WatchedExact
<1> QED
  BY <1>1, InvAlways, PTL

LEMMA InvTyped == Inv => TypeOK
<1> SUFFICES ASSUME Inv PROVE TypeOK
  OBVIOUS
<1>1. /\ pc \in Places
      /\ loop \in [block : BOOLEAN, normal : BOOLEAN, status : SUBSET Statuses, now : 0 .. MaxTime,
                   later : BOOLEAN, ufds : Seq([fd : Fds, revents : SUBSET Events]), child : Nat]
      /\ exitedFlag \in BOOLEAN
      /\ sigchld \in [installed : BOOLEAN, blocked : BOOLEAN, pending : BOOLEAN]
      /\ interrupts \in [pending : BOOLEAN, left : Nat] /\ time \in 1 .. MaxTime
  BY DEF Inv, ThreadOK, LoopType
<1>2. /\ flags \in [Fds -> SUBSET Want] /\ active \in Seq(Fds)
      /\ callbackMap \in Seq([at : Nat, id : Nat]) /\ childRequests \in Seq(Pids)
  BY DEF Inv, SocketsOK, FilesOK, TimersOK, Agree, Entries, ChildrenOK
<1>3. /\ DOMAIN timerMap \subseteq 0 .. MaxTimers - 1
      /\ \A id \in DOMAIN timerMap :
           timerMap[id] \in [at : Nat, period : Periods \cup {0}, context : 0 .. MaxContexts]
  BY DEF Inv, TimersOK, TimersTyped, TimerType
<1>4. /\ DOMAIN activeSockets \subseteq Fds
      /\ chan \in [Fds -> [kind : Kinds, data : BOOLEAN, peer : {"open", "eof", "gone"},
                           broken : BOOLEAN, room : 0 .. MaxRoom]]
  BY DEF Inv, SocketsOK, ChannelType
<1>5. \A fd \in DOMAIN activeSockets :
        activeSockets[fd] \in [state : SUBSET Bits, readOnly : BOOLEAN, seenEOF : BOOLEAN,
                               context : 0 .. MaxContexts, unsent : 0 .. MaxRoom + 1]
  <2> TAKE fd \in DOMAIN activeSockets
  <2>1. SocketGood(activeSockets[fd], context)
    BY SocketKnown DEF Inv
  <2> QED
    BY <2>1 DEF SocketGood, SocketType
<1>6. /\ DOMAIN childProcesses \subseteq Pids
      /\ \A pid \in DOMAIN childProcesses :
           childProcesses[pid] \in [ioSocket : Fds, errSocket : Fds, waitContext : 0 .. MaxContexts]
      /\ proc \in [Pids -> {"none", "running", "zombie"}]
  BY DEF Inv, ChildrenOK, ChildType
<1> QED
  BY <1>1, <1>2, <1>3, <1>4, <1>5, <1>6 DEF TypeOK

(* The external objects a context counts are exactly the timers, the       *)
(* processes and the sockets its objects know, and a descriptor of the     *)
(* kernel is open exactly as long as a socket has it; every variable has   *)
(* its type.                                                               *)
THEOREM ObjectsAreExact == Spec => []ObjectsExact
<1>1. Inv => ObjectsExact
  <2> SUFFICES ASSUME Inv PROVE ObjectsExact
    OBVIOUS
  <2>1. {fd \in Fds : chan[fd].kind # "free"} = DOMAIN activeSockets
    <3>1. /\ DOMAIN activeSockets \subseteq Fds
          /\ \A fd \in Fds : SocketAt(fd, activeSockets, chan, flags, context)
      BY DEF Inv, SocketsOK
    <3>2. \A fd \in Fds : chan[fd].kind # "free" <=> fd \in DOMAIN activeSockets
      BY <3>1 DEF SocketAt
    <3> QED
      BY <3>1, <3>2
  <2> QED
    BY <2>1, InvTyped DEF Inv, ObjectsOK, ObjectsExact
<1> QED
  BY <1>1, InvAlways, PTL
=============================================================================
