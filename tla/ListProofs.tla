----------------------------- MODULE ListProofs -----------------------------
(***************************************************************************)
(* Lemmas about the lists of the code, for all lists: what dropping,       *)
(* inserting, appending and joining keep of their elements, their order    *)
(* and their being there once.                                             *)
(***************************************************************************)
EXTENDS Lists, SequenceTheorems, FiniteSetTheorems, WellFoundedInduction, TLAPS

(* What holds of 0 and of the next number of each holds up to n.           *)
LEMMA StepByStep ==
  ASSUME NEW n \in Nat, NEW T, 0 \in T, \A j \in 0 .. n - 1 : j \in T => j + 1 \in T
  PROVE  \A j \in 0 .. n : j \in T
<1> DEFINE Bad == {j \in 0 .. n : j \notin T}
           R == OpToRel(<, Nat)
<1> SUFFICES ASSUME Bad # {} PROVE FALSE
  OBVIOUS
<1>1. PICK m \in Bad : \A y \in Bad : <<y, m>> \notin R
  <2>1. Bad \subseteq Nat
    OBVIOUS
  <2> HIDE DEF Bad, R
  <2> QED
    BY <2>1, NatLessThanWellFounded, WFMin DEF R
<1>2. m # 0 /\ m - 1 \in 0 .. n - 1 /\ (m - 1) + 1 = m /\ m - 1 \in 0 .. n
  OBVIOUS
<1>3. m - 1 \notin T
  BY <1>2
<1>4. m - 1 \in Bad /\ <<m - 1, m>> \in R
  BY <1>2, <1>3 DEF OpToRel
<1> QED
  BY <1>1, <1>4

(* The recursive function of Dropped.                                      *)
Keeps(list, drop, kept, n) ==
  kept = [k \in 0 .. n |-> IF k = 0 THEN <<>>
                           ELSE IF list[k] \in drop THEN kept[k - 1]
                           ELSE Append(kept[k - 1], list[k])]

LEMMA KeptExists ==
  ASSUME NEW list, NEW drop, NEW n \in Nat
  PROVE  \E kept : Keeps(list, drop, kept, n)
<1> DEFINE T == {k \in 0 .. n : \E kept : Keeps(list, drop, kept, k)}
<1>1. 0 \in T
  <2> DEFINE kept == [k \in {0} |-> <<>>]
  <2>1. Keeps(list, drop, kept, 0)
    BY DEF Keeps
  <2> QED
    BY <2>1
<1>2. ASSUME NEW j \in 0 .. n - 1, j \in T PROVE j + 1 \in T
  <2>1. PICK kept : Keeps(list, drop, kept, j)
    BY <1>2
  <2> DEFINE more == [k \in 0 .. j + 1 |-> IF k \in 0 .. j THEN kept[k]
                                         ELSE IF list[k] \in drop THEN kept[k - 1]
                                         ELSE Append(kept[k - 1], list[k])]
  <2>2. \A k \in 0 .. j : more[k] = kept[k]
    OBVIOUS
  <2>3. \A k \in 0 .. j : kept[k] = IF k = 0 THEN <<>>
                                   ELSE IF list[k] \in drop THEN kept[k - 1]
                                   ELSE Append(kept[k - 1], list[k])
    BY <2>1 DEF Keeps
  <2>4. \A k \in 0 .. j + 1 : more[k] = IF k = 0 THEN <<>>
                                       ELSE IF list[k] \in drop THEN more[k - 1]
                                       ELSE Append(more[k - 1], list[k])
    <3> TAKE k \in 0 .. j + 1
    <3>1. CASE k \in 0 .. j
      <4>1. k # 0 => k - 1 \in 0 .. j
        BY <3>1
      <4>2. k # 0 => more[k - 1] = kept[k - 1]
        BY <2>2, <4>1
      <4> QED
        BY <2>2, <2>3, <3>1, <4>2
    <3>2. CASE k = j + 1
      <4>1. k # 0 /\ k - 1 = j /\ k \notin 0 .. j /\ j \in 0 .. j
        BY <3>2
      <4>2. more[j] = kept[j]
        BY <2>2, <4>1
      <4>3. more[k] = IF list[k] \in drop THEN kept[k - 1] ELSE Append(kept[k - 1], list[k])
        BY <4>1
      <4> QED
        BY <4>1, <4>2, <4>3
    <3> QED
      BY <3>1, <3>2
  <2>5. more = [k \in 0 .. j + 1 |-> more[k]]
    OBVIOUS
  <2> HIDE DEF more
  <2>6. Keeps(list, drop, more, j + 1)
    BY <2>4, <2>5 DEF Keeps
  <2> QED
    BY <1>2, <2>6
<1> HIDE DEF T
<1>3. n \in T
  BY <1>1, <1>2, StepByStep
<1> QED
  BY <1>3 DEF T

(* s is what is kept of the first n elements.                              *)
Sifted(list, drop, s, n) ==
  /\ \A a \in 1 .. Len(s) : s[a] \notin drop /\ \E i \in 1 .. n : s[a] = list[i]
  /\ \A i \in 1 .. n : list[i] \notin drop => \E a \in 1 .. Len(s) : s[a] = list[i]
  /\ \A a, b \in 1 .. Len(s) : a < b =>
       \E i, j \in 1 .. n : i < j /\ s[a] = list[i] /\ s[b] = list[j]

LEMMA SiftedAppend ==
  ASSUME NEW E, NEW list, NEW drop, NEW n \in Nat, NEW s \in Seq(E), Sifted(list, drop, s, n),
         NEW e \in E, e = list[n + 1], e \notin drop
  PROVE  Append(s, e) \in Seq(E) /\ Sifted(list, drop, Append(s, e), n + 1)
<1>1. PICK t : t = Append(s, e)
  OBVIOUS
<1>2. /\ t \in Seq(E) /\ Len(t) = Len(s) + 1 /\ Len(s) \in Nat
      /\ \A a \in 1 .. Len(s) : t[a] = s[a]
      /\ t[Len(s) + 1] = e
  BY <1>1, AppendProperties, LenProperties
<1>3. \A a \in 1 .. Len(t) : a \in 1 .. Len(s) \/ a = Len(s) + 1
  BY <1>2
<1>4. /\ \A a \in 1 .. Len(s) : a \in 1 .. Len(t)
      /\ Len(s) + 1 \in 1 .. Len(t)
      /\ \A i \in 1 .. n : i \in 1 .. n + 1 /\ i < n + 1
      /\ \A i \in 1 .. n + 1 : i \in 1 .. n \/ i = n + 1
      /\ n + 1 \in 1 .. n + 1
  BY <1>2
<1>5. \A a \in 1 .. Len(t) : t[a] \notin drop /\ \E i \in 1 .. n + 1 : t[a] = list[i]
  <2> TAKE a \in 1 .. Len(t)
  <2>1. CASE a \in 1 .. Len(s)
    <3>1. s[a] \notin drop /\ \E i \in 1 .. n : s[a] = list[i]
      BY <2>1 DEF Sifted
    <3> QED
      BY <1>2, <1>4, <2>1, <3>1
  <2>2. CASE a = Len(s) + 1
    BY <1>2, <1>4, <2>2
  <2> QED
    BY <1>3, <2>1, <2>2
<1>6. \A i \in 1 .. n + 1 : list[i] \notin drop => \E a \in 1 .. Len(t) : t[a] = list[i]
  <2> TAKE i \in 1 .. n + 1
  <2> HAVE list[i] \notin drop
  <2>1. CASE i \in 1 .. n
    <3>1. PICK a \in 1 .. Len(s) : s[a] = list[i]
      BY <2>1 DEF Sifted
    <3> QED
      BY <1>2, <1>4, <3>1
  <2>2. CASE i = n + 1
    BY <1>2, <1>4, <2>2
  <2> QED
    BY <1>4, <2>1, <2>2
<1>7. \A a, b \in 1 .. Len(t) : a < b =>
        \E i, j \in 1 .. n + 1 : i < j /\ t[a] = list[i] /\ t[b] = list[j]
  <2> TAKE a, b \in 1 .. Len(t)
  <2> HAVE a < b
  <2>1. a \in 1 .. Len(s)
    BY <1>2
  <2>2. CASE b \in 1 .. Len(s)
    <3>1. PICK i, j \in 1 .. n : i < j /\ s[a] = list[i] /\ s[b] = list[j]
      BY <2>1, <2>2 DEF Sifted
    <3> QED
      BY <1>2, <1>4, <2>1, <2>2, <3>1
  <2>3. CASE b = Len(s) + 1
    <3>1. PICK i \in 1 .. n : s[a] = list[i]
      BY <2>1 DEF Sifted
    <3> QED
      BY <1>2, <1>4, <2>1, <2>3, <3>1
  <2> QED
    BY <1>3, <2>2, <2>3
<1>8. Sifted(list, drop, t, n + 1)
  BY <1>5, <1>6, <1>7 DEF Sifted
<1> QED
  BY <1>1, <1>2, <1>8

(* What is dropped is gone, the rest keeps its order.                      *)
LEMMA DroppedLemma ==
  ASSUME NEW E, NEW list \in Seq(E), NEW drop
  PROVE  /\ Dropped(list, drop) \in Seq(E)
         /\ Sifted(list, drop, Dropped(list, drop), Len(list))
         /\ ToSet(Dropped(list, drop)) = ToSet(list) \ drop
<1>1. PICK N \in Nat : N = Len(list)
  BY LenProperties
<1>2. DOMAIN list = 1 .. N /\ \A i \in 1 .. N : list[i] \in E
  BY <1>1, LenProperties
<1>3. PICK kept : kept = CHOOSE g : Keeps(list, drop, g, N)
  OBVIOUS
<1>4. Keeps(list, drop, kept, N)
  BY <1>3, KeptExists
<1>5. Dropped(list, drop) = kept[N]
  BY <1>1, <1>3 DEF Dropped, Keeps
<1>6. \A k \in 0 .. N : kept[k] = IF k = 0 THEN <<>>
                                 ELSE IF list[k] \in drop THEN kept[k - 1]
                                 ELSE Append(kept[k - 1], list[k])
  BY <1>4 DEF Keeps
<1> DEFINE T == {n \in 0 .. N : kept[n] \in Seq(E) /\ Sifted(list, drop, kept[n], n)}
<1>7. 0 \in T
  <2>1. PICK s : s = kept[0]
    OBVIOUS
  <2>2. s \in Seq(E) /\ Len(s) = 0
    <3>1. s = <<>>
      BY <1>6, <2>1
    <3> QED
      BY <3>1, EmptySeq
  <2>3. Sifted(list, drop, s, 0)
    BY <2>2 DEF Sifted
  <2> QED
    BY <2>1, <2>2, <2>3
<1>8. ASSUME NEW n \in 0 .. N - 1, n \in T PROVE n + 1 \in T
  <2>1. PICK s : s = kept[n]
    OBVIOUS
  <2>2. s \in Seq(E) /\ Sifted(list, drop, s, n) /\ n + 1 \in 1 .. N /\ n \in Nat /\ n + 1 \in 0 .. N
    BY <1>8, <2>1
  <2>3. PICK e : e = list[n + 1]
    OBVIOUS
  <2>4. e \in E
    BY <1>2, <2>2, <2>3
  <2>5. kept[n + 1] = IF e \in drop THEN s ELSE Append(s, e)
    <3>1. n + 1 # 0 /\ (n + 1) - 1 = n
      BY <2>2
    <3> QED
      BY <1>6, <2>1, <2>2, <2>3, <3>1
  <2>6. CASE e \in drop
    <3>1. /\ \A i \in 1 .. n + 1 : i \in 1 .. n \/ i = n + 1
          /\ \A i \in 1 .. n : i \in 1 .. n + 1
      BY <2>2
    <3>2. \A a \in 1 .. Len(s) : s[a] \notin drop /\ \E i \in 1 .. n + 1 : s[a] = list[i]
      BY <2>2, <3>1, Zenon DEF Sifted
    <3>3. \A i \in 1 .. n + 1 : list[i] \notin drop => \E a \in 1 .. Len(s) : s[a] = list[i]
      BY <2>2, <2>3, <2>6, <3>1, Zenon DEF Sifted
    <3>4. \A a, b \in 1 .. Len(s) : a < b =>
            \E i, j \in 1 .. n + 1 : i < j /\ s[a] = list[i] /\ s[b] = list[j]
      <4> TAKE a, b \in 1 .. Len(s)
      <4> HAVE a < b
      <4>1. PICK i, j \in 1 .. n : i < j /\ s[a] = list[i] /\ s[b] = list[j]
        BY <2>2 DEF Sifted
      <4> QED
        BY <3>1, <4>1
    <3>5. Sifted(list, drop, s, n + 1)
      BY <3>2, <3>3, <3>4, Zenon DEF Sifted
    <3> QED
      BY <2>2, <2>5, <2>6, <3>5
  <2>7. CASE e \notin drop
    <3>1. Append(s, e) \in Seq(E) /\ Sifted(list, drop, Append(s, e), n + 1)
      BY <2>2, <2>3, <2>4, <2>7, SiftedAppend
    <3> QED
      BY <2>2, <2>5, <2>7, <3>1
  <2> QED
    BY <2>6, <2>7
<1> HIDE DEF T
<1>9. N \in T
  BY <1>1, <1>7, <1>8, StepByStep
<1>10. PICK rest : rest = kept[N]
  OBVIOUS
<1>11. rest \in Seq(E) /\ Sifted(list, drop, rest, N)
  BY <1>9, <1>10 DEF T
<1>12. DOMAIN rest = 1 .. Len(rest)
  BY <1>11, LenProperties
<1>13. ToSet(rest) = ToSet(list) \ drop
  <2>1. ToSet(rest) = {rest[a] : a \in 1 .. Len(rest)} /\ ToSet(list) = {list[i] : i \in 1 .. N}
    BY <1>2, <1>12 DEF ToSet
  <2>2. /\ \A a \in 1 .. Len(rest) : rest[a] \notin drop /\ \E i \in 1 .. N : rest[a] = list[i]
        /\ \A i \in 1 .. N : list[i] \notin drop => \E a \in 1 .. Len(rest) : rest[a] = list[i]
    BY <1>11 DEF Sifted
  <2>3. \A x \in ToSet(rest) : x \in ToSet(list) \ drop
    BY <2>1, <2>2
  <2>4. \A x \in ToSet(list) \ drop : x \in ToSet(rest)
    BY <2>1, <2>2
  <2> QED
    BY <2>3, <2>4
<1> QED
  BY <1>1, <1>5, <1>10, <1>11, <1>13

LEMMA DroppedInjective ==
  ASSUME NEW E, NEW list \in Seq(E), NEW drop, IsInjective(list)
  PROVE  IsInjective(Dropped(list, drop))
<1>1. PICK rest : rest = Dropped(list, drop)
  OBVIOUS
<1>2. /\ rest \in Seq(E) /\ Sifted(list, drop, rest, Len(list))
      /\ Len(rest) \in Nat /\ DOMAIN rest = 1 .. Len(rest) /\ DOMAIN list = 1 .. Len(list)
      /\ Len(list) \in Nat
  BY <1>1, DroppedLemma, LenProperties
<1>3. \A a, b \in 1 .. Len(rest) : a < b => rest[a] # rest[b]
  <2> TAKE a, b \in 1 .. Len(rest)
  <2> HAVE a < b
  <2>1. PICK i, j \in 1 .. Len(list) : i < j /\ rest[a] = list[i] /\ rest[b] = list[j]
    BY <1>2 DEF Sifted
  <2>2. list[i] # list[j]
    BY <1>2, <2>1 DEF IsInjective
  <2> QED
    BY <2>1, <2>2
<1>4. \A a, b \in 1 .. Len(rest) : a < b \/ a = b \/ b < a
  BY <1>2
<1>5. IsInjective(rest)
  BY <1>2, <1>3, <1>4 DEF IsInjective
<1> QED
  BY <1>1, <1>5

(* The least number of a set of numbers.                                   *)
LEMMA LeastExists ==
  ASSUME NEW I \in SUBSET Nat, I # {}
  PROVE  \E m \in I : \A k \in I : m <= k
<1> DEFINE R == OpToRel(<, Nat)
<1>1. PICK m \in I : \A y \in I : <<y, m>> \notin R
  <2> HIDE DEF R
  <2> QED
    BY NatLessThanWellFounded, WFMin DEF R
<1>2. \A k \in I : m <= k
  <2> TAKE k \in I
  <2>1. k \in Nat /\ m \in Nat
    OBVIOUS
  <2>2. ~(k < m)
    BY <1>1, <2>1 DEF OpToRel
  <2> QED
    BY <2>1, <2>2
<1> QED
  BY <1>1, <1>2

LEMMA MinLemma ==
  ASSUME NEW I \in SUBSET Nat, I # {}
  PROVE  Min(I) \in I /\ \A k \in I : Min(I) <= k
BY LeastExists DEF Min

LEMMA InsertAtLemma ==
  ASSUME NEW E, NEW s \in Seq(E), NEW e \in E, NEW i \in 1 .. Len(s) + 1
  PROVE  /\ InsertAt(s, i, e) \in Seq(E)
         /\ Len(InsertAt(s, i, e)) = Len(s) + 1
         /\ \A j \in 1 .. Len(s) + 1 :
              InsertAt(s, i, e)[j] = IF j < i THEN s[j] ELSE IF j = i THEN e ELSE s[j - 1]
<1>1. PICK n \in Nat : n = Len(s)
  BY LenProperties
<1>2. \A j \in 1 .. n : s[j] \in E
  BY <1>1, LenProperties
<1>3. PICK left, one, right :
        left = SubSeq(s, 1, i - 1) /\ one = <<e>> /\ right = SubSeq(s, i, n)
  OBVIOUS
<1>4. /\ left \in Seq(E) /\ Len(left) = i - 1
      /\ \A j \in 1 .. i - 1 : left[j] = s[j]
  <2>1. \A j \in 1 .. i - 1 : s[j] \in E
    BY <1>1, <1>2
  <2>2. /\ left \in Seq(E) /\ Len(left) = IF 1 <= i - 1 THEN (i - 1) - 1 + 1 ELSE 0
        /\ \A j \in 1 .. (i - 1) - 1 + 1 : left[j] = s[1 + j - 1]
    <3>1. i - 1 \in Int /\ 1 \in Int
      BY <1>1
    <3> QED
      BY <1>3, <2>1, <3>1, SubSeqProperties
  <2> QED
    BY <1>1, <2>2
<1>5. /\ right \in Seq(E) /\ Len(right) = n - i + 1
      /\ \A j \in 1 .. n - i + 1 : right[j] = s[i + j - 1]
  <2>1. \A j \in i .. n : s[j] \in E
    BY <1>1, <1>2
  <2>2. /\ right \in Seq(E) /\ Len(right) = IF i <= n THEN n - i + 1 ELSE 0
        /\ \A j \in 1 .. n - i + 1 : right[j] = s[i + j - 1]
    <3>1. i \in Int /\ n \in Int
      BY <1>1
    <3> QED
      BY <1>3, <2>1, <3>1, SubSeqProperties
  <2> QED
    BY <1>1, <2>2
<1>6. one \in Seq(E) /\ Len(one) = 1 /\ one[1] = e
  BY <1>3
<1>7. PICK start : start = left \o one
  OBVIOUS
<1>8. /\ start \in Seq(E) /\ Len(start) = i
      /\ \A j \in 1 .. i : start[j] = IF j < i THEN s[j] ELSE e
  <2>1. /\ start \in Seq(E) /\ Len(start) = Len(left) + Len(one)
        /\ \A j \in 1 .. Len(left) + Len(one) :
             start[j] = IF j <= Len(left) THEN left[j] ELSE one[j - Len(left)]
    BY <1>4, <1>6, <1>7, ConcatProperties
  <2>2. Len(left) + Len(one) = i /\ i \in Nat
    BY <1>1, <1>4, <1>6
  <2>3. \A j \in 1 .. i : start[j] = IF j <= i - 1 THEN left[j] ELSE one[j - (i - 1)]
    BY <1>4, <2>1, <2>2
  <2> QED
    BY <1>4, <1>6, <2>1, <2>2, <2>3
<1>9. PICK all : all = start \o right
  OBVIOUS
<1>10. /\ all \in Seq(E) /\ Len(all) = n + 1
       /\ \A j \in 1 .. n + 1 : all[j] = IF j < i THEN s[j] ELSE IF j = i THEN e ELSE s[j - 1]
  <2>1. /\ all \in Seq(E) /\ Len(all) = Len(start) + Len(right)
        /\ \A j \in 1 .. Len(start) + Len(right) :
             all[j] = IF j <= Len(start) THEN start[j] ELSE right[j - Len(start)]
    BY <1>5, <1>8, <1>9, ConcatProperties
  <2>2. Len(start) + Len(right) = n + 1 /\ i \in Nat
    BY <1>1, <1>5, <1>8
  <2>3. \A j \in 1 .. n + 1 : all[j] = IF j <= i THEN start[j] ELSE right[j - i]
    BY <1>8, <2>1, <2>2
  <2>4. \A j \in 1 .. n + 1 : j > i => all[j] = s[j - 1]
    <3> TAKE j \in 1 .. n + 1
    <3> HAVE j > i
    <3>1. j - i \in 1 .. n - i + 1 /\ i + (j - i) - 1 = j - 1 /\ ~(j <= i)
      BY <1>1, <2>2
    <3> QED
      BY <1>5, <2>3, <3>1
  <2>5. \A j \in 1 .. n + 1 : j <= i => all[j] = IF j < i THEN s[j] ELSE e
    BY <1>1, <1>8, <2>2, <2>3
  <2>6. \A j \in 1 .. n + 1 : j > i \/ (j <= i /\ j < i) \/ (j <= i /\ j = i)
    BY <1>1, <2>2
  <2> QED
    BY <1>1, <1>5, <1>8, <2>1, <2>2, <2>4, <2>5, <2>6
<1>11. InsertAt(s, i, e) = all
  BY <1>1, <1>3, <1>7, <1>9 DEF InsertAt
<1> QED
  BY <1>1, <1>10, <1>11

LEMMA RemoveAtLemma ==
  ASSUME NEW E, NEW s \in Seq(E), NEW i \in 1 .. Len(s)
  PROVE  /\ RemoveAt(s, i) \in Seq(E)
         /\ Len(RemoveAt(s, i)) = Len(s) - 1
         /\ \A j \in 1 .. Len(s) - 1 : RemoveAt(s, i)[j] = IF j < i THEN s[j] ELSE s[j + 1]
<1>1. PICK n \in Nat : n = Len(s)
  BY LenProperties
<1>2. \A j \in 1 .. n : s[j] \in E
  BY <1>1, LenProperties
<1>3. PICK left, right : left = SubSeq(s, 1, i - 1) /\ right = SubSeq(s, i + 1, n)
  OBVIOUS
<1>4. /\ left \in Seq(E) /\ Len(left) = i - 1
      /\ \A j \in 1 .. i - 1 : left[j] = s[j]
  <2>1. \A j \in 1 .. i - 1 : s[j] \in E
    BY <1>1, <1>2
  <2>2. /\ left \in Seq(E) /\ Len(left) = IF 1 <= i - 1 THEN (i - 1) - 1 + 1 ELSE 0
        /\ \A j \in 1 .. (i - 1) - 1 + 1 : left[j] = s[1 + j - 1]
    <3>1. i - 1 \in Int /\ 1 \in Int
      BY <1>1
    <3> QED
      BY <1>3, <2>1, <3>1, SubSeqProperties
  <2> QED
    BY <1>1, <2>2
<1>5. /\ right \in Seq(E) /\ Len(right) = n - i
      /\ \A j \in 1 .. n - i : right[j] = s[i + j]
  <2>1. \A j \in i + 1 .. n : s[j] \in E
    BY <1>1, <1>2
  <2>2. /\ right \in Seq(E) /\ Len(right) = IF i + 1 <= n THEN n - (i + 1) + 1 ELSE 0
        /\ \A j \in 1 .. n - (i + 1) + 1 : right[j] = s[(i + 1) + j - 1]
    <3>1. i + 1 \in Int /\ n \in Int
      BY <1>1
    <3> QED
      BY <1>3, <2>1, <3>1, SubSeqProperties
  <2> QED
    BY <1>1, <2>2
<1>6. PICK all : all = left \o right
  OBVIOUS
<1>7. /\ all \in Seq(E) /\ Len(all) = n - 1
      /\ \A j \in 1 .. n - 1 : all[j] = IF j < i THEN s[j] ELSE s[j + 1]
  <2>1. /\ all \in Seq(E) /\ Len(all) = Len(left) + Len(right)
        /\ \A j \in 1 .. Len(left) + Len(right) :
             all[j] = IF j <= Len(left) THEN left[j] ELSE right[j - Len(left)]
    BY <1>4, <1>5, <1>6, ConcatProperties
  <2>2. Len(left) + Len(right) = n - 1 /\ i \in Nat
    BY <1>1, <1>4, <1>5
  <2>3. \A j \in 1 .. n - 1 : all[j] = IF j <= i - 1 THEN left[j] ELSE right[j - (i - 1)]
    BY <1>4, <2>1, <2>2
  <2> QED
    BY <1>1, <1>4, <1>5, <2>1, <2>2, <2>3
<1>8. RemoveAt(s, i) = all
  BY <1>1, <1>3, <1>6 DEF RemoveAt
<1> QED
  BY <1>1, <1>7, <1>8

----------------------------------------------------------------------------
(* Elements, which may be in a list once.                                  *)
LEMMA ToSetLemma ==
  ASSUME NEW E, NEW s \in Seq(E)
  PROVE  /\ Len(s) \in Nat /\ DOMAIN s = 1 .. Len(s)
         /\ ToSet(s) = {s[i] : i \in 1 .. Len(s)} /\ ToSet(s) \subseteq E
         /\ \A i \in 1 .. Len(s) : s[i] \in E
BY LenProperties DEF ToSet

LEMMA InjectiveLemma ==
  ASSUME NEW E, NEW s \in Seq(E)
  PROVE  IsInjective(s) <=> \A i, j \in 1 .. Len(s) : s[i] = s[j] => i = j
BY LenProperties DEF IsInjective

LEMMA EmptyList ==
  ASSUME NEW E
  PROVE  <<>> \in Seq(E) /\ IsInjective(<<>>) /\ ToSet(<<>>) = {} /\ Len(<<>>) = 0
<1>1. <<>> \in Seq(E) /\ Len(<<>>) = 0
  BY EmptySeq
<1>2. DOMAIN <<>> = {}
  <2>1. DOMAIN <<>> = 1 .. 0
    BY <1>1, LenProperties
  <2> QED
    BY <2>1
<1> QED
  BY <1>1, <1>2 DEF IsInjective, ToSet

LEMMA NonEmptyList ==
  ASSUME NEW E, NEW s \in Seq(E)
  PROVE  s = <<>> <=> ToSet(s) = {}
<1>1. CASE s = <<>>
  BY <1>1, EmptyList
<1>2. CASE s # <<>>
  <2>1. 1 \in 1 .. Len(s)
    BY <1>2, EmptySeq, LenProperties
  <2> QED
    BY <1>2, <2>1, ToSetLemma
<1> QED
  BY <1>1, <1>2

LEMMA AppendedLemma ==
  ASSUME NEW E, NEW s \in Seq(E), IsInjective(s), NEW e \in E, e \notin ToSet(s)
  PROVE  /\ Append(s, e) \in Seq(E) /\ IsInjective(Append(s, e))
         /\ ToSet(Append(s, e)) = ToSet(s) \cup {e}
<1>1. PICK n \in Nat : n = Len(s)
  BY LenProperties
<1>2. PICK t : t = Append(s, e)
  OBVIOUS
<1>3. /\ t \in Seq(E) /\ Len(t) = n + 1
      /\ \A i \in 1 .. n : t[i] = s[i]
      /\ t[n + 1] = e
  BY <1>1, <1>2, AppendProperties
<1>4. ToSet(s) = {s[i] : i \in 1 .. n} /\ ToSet(t) = {t[i] : i \in 1 .. n + 1}
  BY <1>1, <1>3, ToSetLemma
<1>5. /\ \A i \in 1 .. n + 1 : i \in 1 .. n \/ i = n + 1
      /\ \A i \in 1 .. n : i \in 1 .. n + 1
      /\ n + 1 \in 1 .. n + 1
  BY <1>1
<1>6. \A i, j \in 1 .. n : s[i] = s[j] => i = j
  BY <1>1, InjectiveLemma
<1>7. \A i \in 1 .. n : s[i] # e
  BY <1>4
<1>8. \A i, j \in 1 .. n + 1 : t[i] = t[j] => i = j
  BY <1>3, <1>5, <1>6, <1>7
<1>9. IsInjective(t)
  BY <1>3, <1>8, InjectiveLemma
<1>10. ToSet(t) = ToSet(s) \cup {e}
  <2>1. \A x \in ToSet(t) : x \in ToSet(s) \cup {e}
    BY <1>3, <1>4, <1>5
  <2>2. \A x \in ToSet(s) \cup {e} : x \in ToSet(t)
    BY <1>3, <1>4, <1>5
  <2> QED
    BY <2>1, <2>2
<1> QED
  BY <1>2, <1>3, <1>9, <1>10

LEMMA LinkedLemma ==
  ASSUME NEW E, NEW s \in Seq(E), IsInjective(s), NEW e \in E, e \notin ToSet(s)
  PROVE  /\ <<e>> \o s \in Seq(E) /\ IsInjective(<<e>> \o s)
         /\ ToSet(<<e>> \o s) = ToSet(s) \cup {e}
<1>1. PICK n \in Nat : n = Len(s)
  BY LenProperties
<1>2. PICK one : one = <<e>>
  OBVIOUS
<1>3. one \in Seq(E) /\ Len(one) = 1 /\ one[1] = e
  BY <1>2
<1>4. PICK t : t = one \o s
  OBVIOUS
<1>5. /\ t \in Seq(E) /\ Len(t) = n + 1 /\ t[1] = e
      /\ \A i \in 2 .. n + 1 : t[i] = s[i - 1]
  <2>1. /\ t \in Seq(E) /\ Len(t) = Len(one) + Len(s)
        /\ \A i \in 1 .. Len(one) + Len(s) : t[i] = IF i <= Len(one) THEN one[i] ELSE s[i - Len(one)]
    BY <1>3, <1>4, ConcatProperties
  <2>2. Len(one) + Len(s) = n + 1
    BY <1>1, <1>3
  <2>3. \A i \in 1 .. n + 1 : t[i] = IF i <= 1 THEN one[i] ELSE s[i - 1]
    BY <1>3, <2>1, <2>2
  <2> QED
    BY <1>1, <1>3, <2>1, <2>2, <2>3
<1>6. ToSet(s) = {s[i] : i \in 1 .. n} /\ ToSet(t) = {t[i] : i \in 1 .. n + 1}
  BY <1>1, <1>5, ToSetLemma
<1>7. /\ \A i \in 1 .. n + 1 : i = 1 \/ i \in 2 .. n + 1
      /\ \A i \in 2 .. n + 1 : i - 1 \in 1 .. n
      /\ \A i \in 1 .. n : i + 1 \in 1 .. n + 1 /\ i + 1 \in 2 .. n + 1 /\ (i + 1) - 1 = i
      /\ 1 \in 1 .. n + 1
  BY <1>1
<1>8. \A i, j \in 1 .. n : s[i] = s[j] => i = j
  BY <1>1, InjectiveLemma
<1>9. \A i, j \in 2 .. n + 1 : t[i] = t[j] => i = j
  <2> TAKE i, j \in 2 .. n + 1
  <2> HAVE t[i] = t[j]
  <2>1. i - 1 = j - 1
    BY <1>5, <1>7, <1>8
  <2> QED
    BY <1>1, <2>1
<1>10. \A i \in 2 .. n + 1 : t[i] # e /\ t[i] \in ToSet(s)
  BY <1>5, <1>6, <1>7
<1>11. \A i, j \in 1 .. n + 1 : t[i] = t[j] => i = j
  BY <1>5, <1>7, <1>9, <1>10
<1>12. IsInjective(t)
  BY <1>5, <1>11, InjectiveLemma
<1>13. ToSet(t) = ToSet(s) \cup {e}
  <2>1. \A x \in ToSet(t) : x \in ToSet(s) \cup {e}
    BY <1>5, <1>6, <1>7, <1>10
  <2>2. \A i \in 1 .. n : s[i] \in ToSet(t)
    BY <1>5, <1>6, <1>7
  <2>3. e \in ToSet(t)
    BY <1>5, <1>6, <1>7
  <2>4. \A x \in ToSet(s) : x \in ToSet(t)
    BY <1>6, <2>2
  <2> QED
    BY <2>1, <2>3, <2>4
<1> QED
  BY <1>2, <1>4, <1>5, <1>12, <1>13

LEMMA WithinLemma ==
  ASSUME NEW E, NEW F, NEW s \in Seq(E), ToSet(s) \subseteq F
  PROVE  s \in Seq(F)
<1>1. PICK n \in Nat : n = Len(s)
  BY LenProperties
<1>2. s = [i \in 1 .. n |-> s[i]] /\ \A i \in 1 .. n : s[i] \in F
  BY <1>1, LenProperties, ToSetLemma
<1>3. s \in [1 .. n -> F]
  BY <1>2
<1> QED
  BY <1>3, SeqDef

LEMMA SingleLemma ==
  ASSUME NEW E, NEW e \in E
  PROVE  <<e>> \in Seq(E) /\ IsInjective(<<e>>) /\ ToSet(<<e>>) = {e}
<1>1. PICK s : s = <<e>>
  OBVIOUS
<1>2. s \in Seq(E) /\ Len(s) = 1 /\ s[1] = e
  BY <1>1
<1>3. 1 .. 1 = {1}
  OBVIOUS
<1>4. ToSet(s) = {e}
  BY <1>2, <1>3, ToSetLemma
<1>5. IsInjective(s)
  BY <1>2, <1>3, InjectiveLemma
<1> QED
  BY <1>1, <1>2, <1>4, <1>5

LEMMA InsertedLemma ==
  ASSUME NEW E, NEW s \in Seq(E), IsInjective(s), NEW e \in E, e \notin ToSet(s),
         NEW i \in 1 .. Len(s) + 1
  PROVE  /\ InsertAt(s, i, e) \in Seq(E) /\ IsInjective(InsertAt(s, i, e))
         /\ ToSet(InsertAt(s, i, e)) = ToSet(s) \cup {e}
<1>1. PICK n \in Nat : n = Len(s)
  BY LenProperties
<1>2. PICK t : t = InsertAt(s, i, e)
  OBVIOUS
<1>3. /\ t \in Seq(E) /\ Len(t) = n + 1
      /\ \A j \in 1 .. n + 1 : t[j] = IF j < i THEN s[j] ELSE IF j = i THEN e ELSE s[j - 1]
      /\ i \in 1 .. n + 1
  <2>1. InsertAt(s, i, e) \in Seq(E)
    BY InsertAtLemma
  <2>2. Len(InsertAt(s, i, e)) = Len(s) + 1
    BY InsertAtLemma
  <2>3. \A j \in 1 .. Len(s) + 1 :
          InsertAt(s, i, e)[j] = IF j < i THEN s[j] ELSE IF j = i THEN e ELSE s[j - 1]
    BY InsertAtLemma
  <2>4. \A j \in 1 .. n + 1 : t[j] = IF j < i THEN s[j] ELSE IF j = i THEN e ELSE s[j - 1]
    BY <1>1, <1>2, <2>3
  <2> QED
    BY <1>1, <1>2, <2>1, <2>2, <2>4
<1>4. ToSet(s) = {s[j] : j \in 1 .. n} /\ ToSet(t) = {t[j] : j \in 1 .. n + 1}
  BY <1>1, <1>3, ToSetLemma
<1>5. \A j, k \in 1 .. n : s[j] = s[k] => j = k
  BY <1>1, InjectiveLemma
<1>6. \A j \in 1 .. n : s[j] # e
  BY <1>4
<1>7. t[i] = e
  BY <1>3
<1>8. \A j \in 1 .. n + 1 : j # i =>
        (j < i /\ j \in 1 .. n /\ t[j] = s[j]) \/ (i < j /\ j - 1 \in 1 .. n /\ t[j] = s[j - 1])
  BY <1>3
<1>9. \A j, k \in 1 .. n + 1 : t[j] = t[k] => j = k
  <2> TAKE j, k \in 1 .. n + 1
  <2> HAVE t[j] = t[k]
  <2>1. CASE j = i \/ k = i
    BY <1>6, <1>7, <1>8, <2>1
  <2>2. CASE j # i /\ k # i
    <3>1. CASE j < i /\ k < i
      BY <1>5, <1>8, <2>2, <3>1
    <3>2. CASE i < j /\ i < k
      <4>1. j - 1 = k - 1
        BY <1>3, <1>5, <1>8, <2>2, <3>2
      <4> QED
        BY <4>1
    <3>3. CASE j < i /\ i < k
      <4>1. j = k - 1
        BY <1>3, <1>5, <1>8, <2>2, <3>3
      <4> QED
        BY <1>3, <3>3, <4>1
    <3>4. CASE i < j /\ k < i
      <4>1. j - 1 \in 1 .. n /\ k \in 1 .. n /\ s[j - 1] = s[k]
        BY <1>3, <1>8, <2>2, <3>4
      <4>2. k = j - 1
        BY <1>5, <4>1
      <4> QED
        BY <1>3, <3>4, <4>2
    <3> QED
      BY <1>3, <2>2, <3>1, <3>2, <3>3, <3>4
  <2> QED
    BY <2>1, <2>2
<1>10. IsInjective(t)
  BY <1>3, <1>9, InjectiveLemma
<1>11. \A x \in ToSet(t) : x \in ToSet(s) \cup {e}
  BY <1>4, <1>7, <1>8
<1>12. \A j \in 1 .. n : s[j] \in ToSet(t)
  <2> TAKE j \in 1 .. n
  <2>1. CASE j < i
    <3>1. j \in 1 .. n + 1 /\ t[j] = s[j]
      BY <1>3, <2>1
    <3> QED
      BY <1>4, <3>1
  <2>2. CASE ~(j < i)
    <3>1. j + 1 \in 1 .. n + 1 /\ ~(j + 1 < i) /\ j + 1 # i /\ (j + 1) - 1 = j
      BY <1>3, <2>2
    <3>2. t[j + 1] = s[j]
      BY <1>3, <3>1
    <3> QED
      BY <1>4, <3>1, <3>2
  <2> QED
    BY <2>1, <2>2
<1>13. ToSet(t) = ToSet(s) \cup {e}
  BY <1>3, <1>4, <1>7, <1>11, <1>12
<1> QED
  BY <1>2, <1>3, <1>10, <1>13

LEMMA JoinedLemma ==
  ASSUME NEW E, NEW s \in Seq(E), NEW t \in Seq(E)
  PROVE  /\ s \o t \in Seq(E) /\ ToSet(s \o t) = ToSet(s) \cup ToSet(t)
         /\ IsInjective(s) /\ IsInjective(t) /\ ToSet(s) \cap ToSet(t) = {} => IsInjective(s \o t)
<1>1. PICK m \in Nat, n \in Nat : m = Len(s) /\ n = Len(t)
  BY LenProperties
<1>2. PICK u : u = s \o t
  OBVIOUS
<1>3. /\ u \in Seq(E) /\ Len(u) = m + n
      /\ \A i \in 1 .. m + n : u[i] = IF i <= m THEN s[i] ELSE t[i - m]
  BY <1>1, <1>2, ConcatProperties
<1>4. /\ ToSet(s) = {s[i] : i \in 1 .. m} /\ ToSet(t) = {t[i] : i \in 1 .. n}
      /\ ToSet(u) = {u[i] : i \in 1 .. m + n}
  BY <1>1, <1>3, ToSetLemma
<1>5. /\ \A i \in 1 .. m + n : (i <= m /\ i \in 1 .. m /\ u[i] = s[i])
                               \/ (m < i /\ i - m \in 1 .. n /\ u[i] = t[i - m])
      /\ \A i \in 1 .. m : i \in 1 .. m + n /\ i <= m /\ u[i] = s[i]
      /\ \A i \in 1 .. n : i + m \in 1 .. m + n /\ ~(i + m <= m) /\ (i + m) - m = i
  BY <1>3
<1>6. \A i \in 1 .. m : s[i] \in ToSet(u)
  BY <1>4, <1>5
<1>7. \A i \in 1 .. n : t[i] \in ToSet(u)
  <2> TAKE i \in 1 .. n
  <2>1. u[i + m] = t[i]
    BY <1>3, <1>5
  <2> QED
    BY <1>4, <1>5, <2>1
<1>8. ToSet(u) = ToSet(s) \cup ToSet(t)
  <2>1. \A i \in 1 .. m + n : u[i] \in ToSet(s) \cup ToSet(t)
    <3> TAKE i \in 1 .. m + n
    <3>1. CASE i \in 1 .. m /\ u[i] = s[i]
      BY <1>4, <3>1
    <3>2. CASE i - m \in 1 .. n /\ u[i] = t[i - m]
      BY <1>4, <3>2
    <3> QED
      BY <1>5, <3>1, <3>2
  <2> QED
    BY <1>4, <1>6, <1>7, <2>1
<1>9. ASSUME IsInjective(s), IsInjective(t), ToSet(s) \cap ToSet(t) = {}
      PROVE  IsInjective(u)
  <2>1. /\ \A i, j \in 1 .. m : s[i] = s[j] => i = j
        /\ \A i, j \in 1 .. n : t[i] = t[j] => i = j
    BY <1>1, <1>9, InjectiveLemma
  <2>2. \A i \in 1 .. m, j \in 1 .. n : s[i] # t[j]
    BY <1>4, <1>9
  <2>3. \A i, j \in 1 .. m + n : u[i] = u[j] => i = j
    <3> TAKE i, j \in 1 .. m + n
    <3> HAVE u[i] = u[j]
    <3>1. CASE i <= m /\ j <= m
      BY <1>5, <2>1, <3>1
    <3>2. CASE m < i /\ m < j
      <4>1. i - m = j - m
        BY <1>5, <2>1, <3>2
      <4> QED
        BY <4>1
    <3>3. CASE (i <= m /\ m < j) \/ (j <= m /\ m < i)
      BY <1>5, <2>2, <3>3
    <3> QED
      BY <3>1, <3>2, <3>3
  <2> QED
    BY <1>3, <2>3, InjectiveLemma
<1> QED
  BY <1>2, <1>3, <1>8, <1>9

LEMMA TailedLemma ==
  ASSUME NEW E, NEW s \in Seq(E), s # <<>>
  PROVE  /\ Head(s) \in E /\ Head(s) \in ToSet(s) /\ Tail(s) \in Seq(E)
         /\ ToSet(s) = ToSet(Tail(s)) \cup {Head(s)}
         /\ IsInjective(s) => IsInjective(Tail(s)) /\ Head(s) \notin ToSet(Tail(s))
<1>1. PICK n \in Nat : n = Len(s) /\ n # 0
  BY EmptySeq, LenProperties
<1>2. PICK t : t = Tail(s)
  OBVIOUS
<1>3. /\ Head(s) = s[1] /\ Head(s) \in E /\ t \in Seq(E) /\ Len(t) = n - 1
      /\ \A i \in 1 .. n - 1 : t[i] = s[i + 1] /\ i + 1 \in 1 .. n
  BY <1>1, <1>2, HeadTailProperties
<1>4. ToSet(s) = {s[i] : i \in 1 .. n} /\ ToSet(t) = {t[i] : i \in 1 .. n - 1}
  BY <1>1, <1>3, ToSetLemma
<1>5. 1 \in 1 .. n /\ \A i \in 1 .. n : i # 1 => i - 1 \in 1 .. n - 1 /\ (i - 1) + 1 = i
  BY <1>1
<1>6. ToSet(s) = ToSet(t) \cup {s[1]}
  <2>1. ASSUME NEW i \in 1 .. n, i # 1 PROVE s[i] \in ToSet(t)
    <3>1. i - 1 \in 1 .. n - 1 /\ t[i - 1] = s[i]
      BY <1>3, <1>5, <2>1
    <3> QED
      BY <1>4, <3>1
  <2>2. \A i \in 1 .. n - 1 : t[i] \in ToSet(s)
    BY <1>3, <1>4
  <2> QED
    BY <1>4, <1>5, <2>1, <2>2
<1>7. ASSUME IsInjective(s) PROVE IsInjective(t) /\ s[1] \notin ToSet(t)
  <2>1. \A i, j \in 1 .. n : s[i] = s[j] => i = j
    BY <1>1, <1>7, InjectiveLemma
  <2>2. \A i, j \in 1 .. n - 1 : t[i] = t[j] => i = j
    <3> TAKE i, j \in 1 .. n - 1
    <3> HAVE t[i] = t[j]
    <3>1. i + 1 = j + 1
      BY <1>3, <2>1
    <3> QED
      BY <3>1
  <2>3. \A i \in 1 .. n - 1 : t[i] # s[1]
    <3> TAKE i \in 1 .. n - 1
    <3>1. i + 1 # 1
      OBVIOUS
    <3> QED
      BY <1>3, <1>5, <2>1, <3>1
  <2> QED
    BY <1>3, <1>4, <2>2, <2>3, InjectiveLemma
<1> QED
  BY <1>2, <1>3, <1>4, <1>5, <1>6, <1>7

(* Where an element is.                                                    *)
LEMMA PositionLemma ==
  ASSUME NEW E, NEW s \in Seq(E), NEW e \in ToSet(s)
  PROVE  SelectInSeq(s, LAMBDA x : x = e) \in 1 .. Len(s)
<1> DEFINE I == {i \in 1 .. Len(s) : s[i] = e}
<1>1. I # {} /\ I \in SUBSET Nat
  BY ToSetLemma
<1>2. Min(I) \in I
  <2> HIDE DEF I
  <2> QED
    BY <1>1, MinLemma
<1>3. SelectInSeq(s, LAMBDA x : x = e) = Min(I)
  BY <1>1 DEF SelectInSeq
<1> QED
  BY <1>2, <1>3
LEMMA OnlyLemma ==
  ASSUME NEW E, NEW s \in Seq(E), IsInjective(s), NEW e, ToSet(s) = {e}
  PROVE  s = <<e>>
<1>1. PICK n \in Nat : n = Len(s) /\ DOMAIN s = 1 .. n
  BY ToSetLemma
<1>2. \A i \in 1 .. n : s[i] = e
  BY <1>1, ToSetLemma
<1>3. \A i, j \in 1 .. n : i = j
  BY <1>1, <1>2, InjectiveLemma
<1>4. n # 0
  <2>1. ToSet(s) = {s[i] : i \in 1 .. n}
    BY <1>1, ToSetLemma
  <2>2. e \in ToSet(s)
    OBVIOUS
  <2>3. PICK i \in 1 .. n : e = s[i]
    BY <2>1, <2>2
  <2> QED
    BY <2>3
<1>5. n = 1
  <2>1. 1 \in 1 .. n /\ n \in 1 .. n
    BY <1>4
  <2> QED
    BY <1>3, <2>1
<1> QED
  BY <1>1, <1>2, <1>5
=============================================================================
