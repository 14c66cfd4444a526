------------------------ MODULE TransitionSetsProofs ------------------------
(***************************************************************************)
(* Theorems about TransitionSet::insert: whatever transitions come, and in *)
(* whatever order, a set is left with those that no other one makes        *)
(* useless.  TLC inserts in one order; the code follows the numbers of     *)
(* subformulas and BDDs.                                                   *)
(***************************************************************************)
EXTENDS TransitionSets, TLAPS

(* What is left, ts, of the transitions that came, all.                    *)
Represents(ts, all) ==
  /\ ts \subseteq all
  /\ \A t \in all : t \in ts \/ \E u \in ts : Subsumes(u, t)
  /\ \A t, u \in ts : ~Subsumes(t, u)

(* Subsumption is a strict order (TransitionSet::insert compares two sets  *)
(* by containment).                                                        *)
LEMMA Transitive ==
  ASSUME NEW t, NEW u, NEW v, Subsumes(t, u), Subsumes(u, v)
  PROVE  Subsumes(t, v)
BY DEF Subsumes

(* No two transitions subsume each other.                                  *)
LEMMA Asymmetric ==
  ASSUME NEW t, NEW u, Subsumes(t, u)
  PROVE  ~Subsumes(u, t)
BY DEF Subsumes

(* A transition does not subsume itself.                                   *)
LEMMA Irreflexive == ASSUME NEW t PROVE ~Subsumes(t, t)
BY DEF Subsumes

(* A transition that is dropped on arrival, or drops others, loses nothing *)
(* (TransitionSet::insert).                                                *)
THEOREM InsertRepresents ==
  ASSUME NEW ts, NEW all, NEW t, Represents(ts, all)
  PROVE  Represents(Insert(t, ts), all \cup {t})
<1>1. CASE \E u \in ts : Subsumes(u, t)
  <2>1. Insert(t, ts) = ts
    BY <1>1 DEF Insert
  <2>2. QED
    BY <1>1, <2>1 DEF Represents
<1>2. CASE ~\E u \in ts : Subsumes(u, t)
  <2>1. Insert(t, ts) = {u \in ts : ~Subsumes(t, u)} \cup {t}
    BY <1>2 DEF Insert
  <2>2. Insert(t, ts) \subseteq all \cup {t}
    BY <2>1 DEF Represents
  <2>3. ASSUME NEW u \in all \cup {t}
        PROVE  u \in Insert(t, ts) \/ \E v \in Insert(t, ts) : Subsumes(v, u)
    <3>1. CASE u = t
      BY <2>1, <3>1
    <3>2. CASE u \in ts
      BY <2>1, <3>2
    <3>3. CASE u \in all /\ u \notin ts
      <4>1. PICK v \in ts : Subsumes(v, u)
        BY <3>3 DEF Represents
      <4>2. CASE Subsumes(t, v)
        BY <2>1, <4>1, <4>2, Transitive
      <4>3. CASE ~Subsumes(t, v)
        BY <2>1, <4>1, <4>3
      <4>4. QED
        BY <4>2, <4>3
    <3>4. QED
      BY <3>1, <3>2, <3>3
  <2>4. ASSUME NEW u \in Insert(t, ts), NEW v \in Insert(t, ts)
        PROVE  ~Subsumes(u, v)
    BY <1>2, <2>1, Irreflexive DEF Represents
  <2>5. QED
    BY <2>2, <2>3, <2>4 DEF Represents
<1>3. QED
  BY <1>1, <1>2

(* What is left depends on the transitions that came alone: it is those    *)
(* that none of them subsumes.                                             *)
THEOREM RepresentedOnce ==
  ASSUME NEW ts, NEW all, Represents(ts, all)
  PROVE  ts = {t \in all : \A u \in all : ~Subsumes(u, t)}
<1>1. ASSUME NEW t \in ts, NEW u \in all, Subsumes(u, t)
      PROVE  FALSE
  <2>1. CASE u \in ts
    BY <1>1, <2>1 DEF Represents
  <2>2. CASE u \notin ts
    <3>1. PICK v \in ts : Subsumes(v, u)
      BY <2>2 DEF Represents
    <3>2. Subsumes(v, t)
      BY <1>1, <3>1, Transitive
    <3>3. QED
      BY <3>2 DEF Represents
  <2>3. QED
    BY <2>1, <2>2
<1>2. ASSUME NEW t \in all, \A u \in all : ~Subsumes(u, t)
      PROVE  t \in ts
  BY <1>2 DEF Represents
<1>3. ts \subseteq all
  BY DEF Represents
<1>4. QED
  BY <1>1, <1>2, <1>3

(* Two transitions may be inserted in either order, as the code does that  *)
(* walks through a map (TransitionSet::insert, called by or and product).  *)
THEOREM OrderIrrelevant ==
  ASSUME NEW ts, NEW all, NEW t, NEW u, Represents(ts, all)
  PROVE  Insert(t, Insert(u, ts)) = Insert(u, Insert(t, ts))
<1>1. Represents(Insert(t, Insert(u, ts)), (all \cup {u}) \cup {t})
  BY InsertRepresents
<1>2. Represents(Insert(u, Insert(t, ts)), (all \cup {t}) \cup {u})
  BY InsertRepresents
<1>3. (all \cup {u}) \cup {t} = (all \cup {t}) \cup {u}
  OBVIOUS
<1>4. QED
  BY <1>1, <1>2, <1>3, RepresentedOnce

(* The empty set is left of no transitions, so that the theorems hold of   *)
(* every set that is built by insertions.                                  *)
LEMMA EmptyRepresents == Represents({}, {})
BY DEF Represents
=============================================================================
