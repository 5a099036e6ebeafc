----------------------------- MODULE FoldProofs -----------------------------
(***************************************************************************)
(* Induction over data.  The folds of the community modules are recursive  *)
(* functions on the subsets of a finite set; the theorems here say what    *)
(* such a recursion computes.  The operations are constants, so that a     *)
(* module that folds something instantiates this one with them.            *)
(***************************************************************************)
EXTENDS Integers, FiniteSets, FiniteSetTheorems, WellFoundedInduction, TLAPS

CONSTANTS
  Op(_, _, _),   \* Op(x, v, r): x is folded into v; r is whatever else it depends on
  Pick(_)        \* the element of a set that is folded last

(* MapThenFoldSet of module Folds, with Op and Pick for its operators.      *)
Unfolds(h, base, S, r) ==
  h = [t \in SUBSET S |-> IF t = {} THEN base ELSE Op(Pick(t), h[t \ {Pick(t)}], r)]
Fold(S, base, r) == (CHOOSE h : Unfolds(h, base, S, r))[S]

Picks(S) == \A t \in SUBSET S : t # {} => Pick(t) \in t

(* What the theorems ask of Op: that it makes the same of the elements of S *)
(* whether the rest is r or q; that it stays among the values V; and that   *)
(* the order of two elements does not matter.                               *)
Agree(S, r, q) == \A x \in S : \A v : Op(x, v, r) = Op(x, v, q)
Closed(S, V, r) == \A x \in S : \A v \in V : Op(x, v, r) \in V
Commutes(S, V, r) ==
  \A x, y \in S : \A v \in V : Op(x, Op(y, v, r), r) = Op(y, Op(x, v, r), r)

(* Every element can be taken for the one that is folded last.              *)
AnyLast(S, base, r) == \A x \in S : Fold(S, base, r) = Op(x, Fold(S \ {x}, base, r), r)

-----------------------------------------------------------------------------
(* Induction over an initial segment of the naturals, with a set in the     *)
(* place of the predicate.                                                  *)
LEMMA LeastNat ==
  ASSUME NEW T, T \subseteq Nat, T # {}
  PROVE  \E n \in T : \A m \in T : n <= m
<1> DEFINE Less == OpToRel(<, Nat)
<1>1. \A m, n \in Nat : <<m, n>> \in Less <=> m < n
  BY DEF OpToRel
<1>2. IsWellFoundedOn(Less, Nat)
  BY NatLessThanWellFounded
<1> HIDE DEF Less
<1>3. PICK n \in T : \A m \in T : ~(<<m, n>> \in Less)
  BY <1>2, WFMin
<1>4. \A m \in T : ~(m < n) /\ m \in Nat /\ n \in Nat
  BY <1>1, <1>3
<1> QED
  BY <1>4

LEMMA IntervalInduction ==
  ASSUME NEW n \in Nat, NEW T, 0 \in T, \A i \in 0..(n - 1) : i \in T => i + 1 \in T
  PROVE  \A i \in 0..n : i \in T
<1> SUFFICES ASSUME NEW j \in 0..n, j \notin T PROVE FALSE
  OBVIOUS
<1> DEFINE Bad == (0..n) \ T
<1>1. Bad \subseteq Nat /\ Bad # {}
  OBVIOUS
<1>2. PICK m \in Bad : \A k \in Bad : m <= k
  BY <1>1, LeastNat
<1>3. m \in 0..n /\ m # 0 /\ m \notin T
  BY <1>2
<1>4. m - 1 \in 0..(n - 1) /\ (m - 1) + 1 = m
  BY <1>3
<1>5. m - 1 \in T
  BY <1>2, <1>3, <1>4
<1> QED
  BY <1>3, <1>4, <1>5

(* A set of numbers that is bounded has a highest one.                      *)
LEMMA HighestExists ==
  ASSUME NEW n \in Nat, NEW S, S \subseteq 1..n, S # {}
  PROVE  \E x \in S : \A y \in S : x >= y
<1> DEFINE Above == {m \in Nat : \A y \in S : m >= y}
<1>1. n \in Above
  OBVIOUS
<1>2. PICK x \in Above : \A m \in Above : x <= m
  <2> HIDE DEF Above
  <2>1. Above \subseteq Nat
    BY DEF Above
  <2> QED BY <1>1, <2>1, LeastNat
<1>3. x \in S
  <2> SUFFICES ASSUME x \notin S PROVE FALSE
    OBVIOUS
  <2>0. PICK z \in S : z \in 1..n
    OBVIOUS
  <2>1. x # 0 /\ x \in Nat /\ \A y \in S : x >= y /\ y \in Nat
    BY <1>2, <2>0
  <2>2. x - 1 \in Above
    BY <1>2, <2>1
  <2> QED
    BY <1>2, <2>1, <2>2
<1> QED
  BY <1>2, <1>3

-----------------------------------------------------------------------------
LEMMA UnfoldExists ==
  ASSUME NEW S, IsFiniteSet(S), Picks(S), NEW base, NEW r
  PROVE  \E h : Unfolds(h, base, S, r)
<1> DEFINE Small(m) == {t \in SUBSET S : Cardinality(t) <= m}
           Step(h, t) == IF t = {} THEN base ELSE Op(Pick(t), h[t \ {Pick(t)}], r)
           Done == {m \in Nat : \E h : h = [t \in Small(m) |-> Step(h, t)]}
           n == Cardinality(S)
<1>1. n \in Nat /\ \A t \in SUBSET S : IsFiniteSet(t) /\ Cardinality(t) \in Nat /\ Cardinality(t) <= n
  BY FS_CardinalityType, FS_Subset
<1>2. \A t \in SUBSET S : Cardinality(t) = 0 <=> t = {}
  BY <1>1, FS_EmptySet
<1>3. \A t \in SUBSET S : t # {} => /\ Pick(t) \in t /\ t \ {Pick(t)} \in SUBSET S
                                    /\ Cardinality(t \ {Pick(t)}) = Cardinality(t) - 1
  BY <1>1, FS_RemoveElement DEF Picks
<1>4. 0 \in Done
  <2>1. Small(0) = {{}}
    BY <1>1, <1>2
  <2>2. [t \in {{}} |-> base] = [t \in Small(0) |-> Step([u \in {{}} |-> base], t)]
    BY <2>1
  <2> QED
    BY <2>2
<1>5. \A m \in 0..(n - 1) : m \in Done => m + 1 \in Done
  <2> SUFFICES ASSUME NEW m \in 0..(n - 1), m \in Done PROVE m + 1 \in Done
    OBVIOUS
  <2>1. PICK h : h = [t \in Small(m) |-> Step(h, t)]
    OBVIOUS
  <2> DEFINE g == [t \in Small(m + 1) |-> IF t \in Small(m) THEN h[t] ELSE Step(h, t)]
  <2>2. ASSUME NEW t \in Small(m + 1)
        PROVE  g[t] = Step(g, t)
    <3>1. CASE t = {}
      <4>1. t \in Small(m)
        BY <1>2, <3>1
      <4> QED
        BY <2>1, <3>1, <4>1
    <3>2. CASE t # {}
      <4> DEFINE u == t \ {Pick(t)}
      <4>1. u \in Small(m) /\ u \in Small(m + 1)
        BY <1>1, <1>3, <3>2
      <4> HIDE DEF u
      <4>2. g[u] = h[u]
        BY <4>1
      <4>3. g[t] = Step(h, t)
        <5>1. CASE t \in Small(m)
          <6>1. h[t] = Step(h, t)
            BY <2>1, <5>1
          <6> QED BY <5>1, <6>1
        <5>2. CASE t \notin Small(m)
          BY <5>2
        <5> QED BY <5>1, <5>2
      <4>4. Step(h, t) = Op(Pick(t), h[u], r) /\ Step(g, t) = Op(Pick(t), g[u], r)
        BY <3>2 DEF u
      <4> HIDE DEF g, Step
      <4> QED
        BY <4>2, <4>3, <4>4
    <3> QED
      BY <3>1, <3>2
  <2>3. g = [t \in Small(m + 1) |-> Step(g, t)]
    <3>1. g = [t \in Small(m + 1) |-> g[t]]
      OBVIOUS
    <3> HIDE DEF g, Step, Small
    <3> QED BY <2>2, <3>1
  <2>4. \E k : k = [t \in Small(m + 1) |-> Step(k, t)]
    BY <2>3
  <2>5. m + 1 \in Nat
    BY <1>1
  <2> HIDE DEF g, Small, Step
  <2> QED
    BY <2>4, <2>5
<1>6. n \in Done
  <2> HIDE DEF Done, n
  <2>1. \A i \in 0..n : i \in Done
    BY <1>1, <1>4, <1>5, IntervalInduction
  <2> QED
    BY <1>1, <2>1
<1>7. Small(n) = SUBSET S
  BY <1>1
<1> QED
  BY <1>6, <1>7 DEF Unfolds

(* Two recursions agree on the subsets they share.                          *)
LEMMA UnfoldUnique ==
  ASSUME NEW S, IsFiniteSet(S), Picks(S), NEW base, NEW r, NEW R \in SUBSET S,
         NEW g, Unfolds(g, base, S, r), NEW h, Unfolds(h, base, R, r)
  PROVE  \A t \in SUBSET R : g[t] = h[t]
<1> DEFINE Same == {m \in Nat : \A t \in SUBSET R : Cardinality(t) <= m => g[t] = h[t]}
           n == Cardinality(R)
<1>1. n \in Nat /\ \A t \in SUBSET R : IsFiniteSet(t) /\ Cardinality(t) \in Nat /\ Cardinality(t) <= n
  BY FS_CardinalityType, FS_Subset
<1>2. \A t \in SUBSET R : Cardinality(t) = 0 <=> t = {}
  BY <1>1, FS_EmptySet
<1>3. \A t \in SUBSET R : t # {} => /\ t \ {Pick(t)} \in SUBSET R
                                    /\ Cardinality(t \ {Pick(t)}) = Cardinality(t) - 1
  BY <1>1, FS_RemoveElement DEF Picks
<1>4. g[{}] = h[{}]
  BY DEF Unfolds
<1>5. 0 \in Same
  BY <1>1, <1>2, <1>4
<1>6. \A m \in 0..(n - 1) : m \in Same => m + 1 \in Same
  <2> SUFFICES ASSUME NEW m \in 0..(n - 1), m \in Same,
                      NEW t \in SUBSET R, Cardinality(t) <= m + 1
               PROVE  g[t] = h[t]
    OBVIOUS
  <2>1. CASE t = {}
    BY <1>4, <2>1
  <2>2. CASE t # {}
    <3>1. t \ {Pick(t)} \in SUBSET R /\ Cardinality(t \ {Pick(t)}) <= m
      BY <1>1, <1>3, <2>2
    <3>2. g[t \ {Pick(t)}] = h[t \ {Pick(t)}]
      BY <3>1
    <3>3. g[t] = Op(Pick(t), g[t \ {Pick(t)}], r) /\ h[t] = Op(Pick(t), h[t \ {Pick(t)}], r)
      BY <2>2 DEF Unfolds
    <3> QED
      BY <3>2, <3>3
  <2> QED
    BY <2>1, <2>2
<1>7. n \in Same
  <2> HIDE DEF Same, n
  <2>1. \A i \in 0..n : i \in Same
    BY <1>1, <1>5, <1>6, IntervalInduction
  <2> QED
    BY <1>1, <2>1
<1> QED
  BY <1>1, <1>7

-----------------------------------------------------------------------------
(* What a fold computes: the base for the empty set; otherwise the picked   *)
(* element is folded into what the fold of the others gives.                *)
LEMMA FoldEmpty ==
  ASSUME NEW base, NEW r
  PROVE  Fold({}, base, r) = base
<1> DEFINE h == CHOOSE g : Unfolds(g, base, {}, r)
<1>1. Picks({}) /\ IsFiniteSet({})
  BY FS_EmptySet DEF Picks
<1>2. \E g : Unfolds(g, base, {}, r)
  BY <1>1, UnfoldExists
<1>3. Unfolds(h, base, {}, r)
  BY <1>2
<1> HIDE DEF h
<1>4. h[{}] = base
  BY <1>3 DEF Unfolds
<1> QED
  BY <1>4 DEF Fold, h

LEMMA FoldPick ==
  ASSUME NEW S, IsFiniteSet(S), Picks(S), S # {}, NEW base, NEW r
  PROVE  /\ Pick(S) \in S
         /\ Fold(S, base, r) = Op(Pick(S), Fold(S \ {Pick(S)}, base, r), r)
<1> DEFINE R == S \ {Pick(S)}
           g == CHOOSE h : Unfolds(h, base, S, r)
           h == CHOOSE k : Unfolds(k, base, R, r)
<1>1. Pick(S) \in S /\ R \in SUBSET S
  BY DEF Picks
<1> HIDE DEF R
<1>2. IsFiniteSet(R) /\ Picks(R)
  BY <1>1, FS_Subset DEF Picks
<1>3. Unfolds(g, base, S, r)
  <2>1. \E k : Unfolds(k, base, S, r)
    BY UnfoldExists
  <2> QED BY <2>1
<1>4. Unfolds(h, base, R, r)
  <2>1. \E k : Unfolds(k, base, R, r)
    BY <1>2, UnfoldExists
  <2> QED BY <2>1
<1> HIDE DEF g, h
<1>5. g[R] = h[R]
  BY <1>1, <1>3, <1>4, UnfoldUnique
<1>6. g[S] = Op(Pick(S), g[R], r)
  BY <1>3 DEF Unfolds, R
<1>7. Fold(S, base, r) = g[S] /\ Fold(R, base, r) = h[R]
  BY DEF Fold, g, h
<1> QED
  BY <1>1, <1>5, <1>6, <1>7 DEF R

(* Only what Op makes of the elements of the set matters.                   *)
THEOREM FoldCongruence ==
  ASSUME NEW S, IsFiniteSet(S), Picks(S), NEW base, NEW r, NEW q,
         Agree(S, r, q)
  PROVE  Fold(S, base, r) = Fold(S, base, q)
<1> DEFINE g == CHOOSE k : Unfolds(k, base, S, r)
           h == CHOOSE k : Unfolds(k, base, S, q)
<1>1. Unfolds(g, base, S, r)
  <2>1. \E k : Unfolds(k, base, S, r)
    BY UnfoldExists
  <2> QED BY <2>1
<1>2. Unfolds(h, base, S, q)
  <2>1. \E k : Unfolds(k, base, S, q)
    BY UnfoldExists
  <2> QED BY <2>1
<1> HIDE DEF g, h
<1>3. Unfolds(h, base, S, r)
  <2>1. \A t \in SUBSET S : t # {} =>
          Op(Pick(t), h[t \ {Pick(t)}], r) = Op(Pick(t), h[t \ {Pick(t)}], q)
    BY DEF Picks, Agree
  <2> QED
    BY <1>2, <2>1 DEF Unfolds
<1>4. g[S] = h[S]
  BY <1>1, <1>3, UnfoldUnique
<1> QED
  BY <1>4 DEF Fold, g, h

(* Folding a sequence: the highest index is folded last.                    *)
THEOREM FoldInterval ==
  ASSUME NEW base, NEW r, NEW n \in Nat,
         \A S : S # {} /\ S \subseteq 1..n => Pick(S) \in S /\ \A x \in S : x <= Pick(S)
  PROVE  /\ Fold(1..0, base, r) = base
         /\ \A i \in 0..(n - 1) : Fold(1..(i + 1), base, r) = Op(i + 1, Fold(1..i, base, r), r)
<1>1. 1..0 = {}
  OBVIOUS
<1>2. ASSUME NEW i \in 0..(n - 1)
      PROVE  Fold(1..(i + 1), base, r) = Op(i + 1, Fold(1..i, base, r), r)
  <2> DEFINE S == 1..(i + 1)
  <2>0. i \in Nat /\ S \subseteq 1..n /\ i + 1 \in S
    OBVIOUS
  <2>1. IsFiniteSet(S) /\ Picks(S)
    <3>1. IsFiniteSet(S)
      BY <2>0, FS_Interval
    <3> HIDE DEF S
    <3> QED BY <2>0, <3>1 DEF Picks
  <2>2. Pick(S) = i + 1
    <3>1. Pick(S) \in S /\ \A x \in S : x <= Pick(S)
      <4> HIDE DEF S
      <4> QED BY <2>0
    <3> QED BY <2>0, <3>1
  <2>3. S \ {i + 1} = 1..i
    OBVIOUS
  <2> HIDE DEF S
  <2>4. Fold(S, base, r) = Op(Pick(S), Fold(S \ {Pick(S)}, base, r), r)
    BY <2>0, <2>1, FoldPick
  <2> QED
    BY <2>2, <2>3, <2>4 DEF S
<1> QED
  BY <1>1, <1>2, FoldEmpty

(* A fold stays among the values that its operation does not leave.         *)
THEOREM FoldClosed ==
  ASSUME NEW S, IsFiniteSet(S), Picks(S), NEW V, NEW base \in V, NEW r, Closed(S, V, r)
  PROVE  Fold(S, base, r) \in V
<1> DEFINE F(t) == Fold(t, base, r)
           Done == {m \in Nat : \A t \in SUBSET S : Cardinality(t) <= m => F(t) \in V}
           n == Cardinality(S)
<1>1. n \in Nat /\ \A t \in SUBSET S : /\ IsFiniteSet(t) /\ Picks(t)
                                       /\ Cardinality(t) \in Nat /\ Cardinality(t) <= n
  BY FS_CardinalityType, FS_Subset DEF Picks
<1>2. \A t \in SUBSET S : Cardinality(t) = 0 <=> t = {}
  BY <1>1, FS_EmptySet
<1>3. \A t \in SUBSET S : \A x \in t : Cardinality(t \ {x}) = Cardinality(t) - 1
  BY <1>1, FS_RemoveElement
<1>4. F({}) \in V
  BY FoldEmpty
<1>5. 0 \in Done
  BY <1>1, <1>2, <1>4
<1>6. \A m \in 0..(n - 1) : m \in Done => m + 1 \in Done
  <2> SUFFICES ASSUME NEW m \in 0..(n - 1), m \in Done,
                      NEW t \in SUBSET S, Cardinality(t) <= m + 1, t # {}
               PROVE  F(t) \in V
    BY <1>4
  <2> HIDE DEF F
  <2> DEFINE p == Pick(t)
  <2>1. p \in t /\ F(t) = Op(p, F(t \ {p}), r)
    BY <1>1, FoldPick DEF F
  <2> HIDE DEF p
  <2>2. t \ {p} \in SUBSET S /\ Cardinality(t \ {p}) <= m
    BY <1>1, <1>3, <2>1
  <2>3. F(t \ {p}) \in V
    BY <2>2
  <2> QED
    BY <2>1, <2>3 DEF Closed
<1>7. n \in Done
  <2> HIDE DEF Done, n
  <2>1. \A i \in 0..n : i \in Done
    BY <1>1, <1>5, <1>6, IntervalInduction
  <2> QED
    BY <1>1, <2>1
<1> QED
  BY <1>1, <1>7

(* If the elements can be folded in any order, every one of them can be     *)
(* taken for the last.                                                      *)
THEOREM FoldAnyOrder ==
  ASSUME NEW S, IsFiniteSet(S), Picks(S), NEW V, NEW base \in V, NEW r,
         Closed(S, V, r), Commutes(S, V, r)
  PROVE  Fold(S, base, r) \in V /\ AnyLast(S, base, r)
<1> DEFINE F(t) == Fold(t, base, r)
           Good(t) == F(t) \in V /\ \A x \in t : F(t) = Op(x, F(t \ {x}), r)
           Done == {m \in Nat : \A t \in SUBSET S : Cardinality(t) <= m => Good(t)}
           n == Cardinality(S)
<1>1. n \in Nat /\ \A t \in SUBSET S : /\ IsFiniteSet(t) /\ Picks(t)
                                       /\ Cardinality(t) \in Nat /\ Cardinality(t) <= n
  BY FS_CardinalityType, FS_Subset DEF Picks
<1>2. \A t \in SUBSET S : Cardinality(t) = 0 <=> t = {}
  BY <1>1, FS_EmptySet
<1>3. \A t \in SUBSET S : \A x \in t : Cardinality(t \ {x}) = Cardinality(t) - 1
  BY <1>1, FS_RemoveElement
<1>4. Good({})
  BY FoldEmpty
<1>5. 0 \in Done
  BY <1>1, <1>2, <1>4
<1>6. \A m \in 0..(n - 1) : m \in Done => m + 1 \in Done
  <2> SUFFICES ASSUME NEW m \in 0..(n - 1), m \in Done,
                      NEW t \in SUBSET S, Cardinality(t) <= m + 1
               PROVE  Good(t)
    OBVIOUS
  <2> HIDE DEF F
  <2>1. CASE t = {}
    BY <1>4, <2>1
  <2>2. CASE t # {}
    <3> DEFINE p == Pick(t)
    <3>1. p \in t /\ F(t) = Op(p, F(t \ {p}), r)
      BY <1>1, <2>2, FoldPick DEF F
    <3> HIDE DEF p
    <3>2. \A x \in t : t \ {x} \in SUBSET S /\ Cardinality(t \ {x}) <= m
      BY <1>1, <1>3
    <3>3. \A x \in t : Good(t \ {x})
      BY <3>2
    <3>4. F(t) \in V
      BY <3>1, <3>3 DEF Closed
    <3>5. ASSUME NEW x \in t, x # p
          PROVE  F(t) = Op(x, F(t \ {x}), r)
      <4> DEFINE u == (t \ {p}) \ {x}
      <4>1. u = (t \ {x}) \ {p} /\ x \in t \ {p} /\ p \in t \ {x}
        BY <3>1, <3>5
      <4> HIDE DEF u
      <4>2. F(t \ {p}) = Op(x, F(u), r)
        BY <3>1, <3>3, <4>1 DEF u
      <4>3. F(t \ {x}) = Op(p, F(u), r)
        BY <3>3, <4>1
      <4>4. F(u) \in V
        <5>1. u \in SUBSET S /\ Cardinality(u) <= m
          <6>1. Cardinality(u) = Cardinality(t \ {p}) - 1
            BY <1>3, <3>1, <4>1 DEF u
          <6> QED
            BY <1>1, <3>1, <3>2, <6>1 DEF u
        <5> QED BY <5>1
      <4>5. Op(p, Op(x, F(u), r), r) = Op(x, Op(p, F(u), r), r)
        BY <3>1, <4>4 DEF Commutes
      <4> QED
        BY <3>1, <4>2, <4>3, <4>5
    <3> QED
      BY <3>1, <3>4, <3>5
  <2> QED
    BY <2>1, <2>2
<1>7. n \in Done
  <2> HIDE DEF Done, n
  <2>1. \A i \in 0..n : i \in Done
    BY <1>1, <1>5, <1>6, IntervalInduction
  <2> QED
    BY <1>1, <2>1
<1>8. Good(S)
  BY <1>1, <1>7
<1> QED
  BY <1>8 DEF AnyLast
=============================================================================
