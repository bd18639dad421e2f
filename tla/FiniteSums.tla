----------------------------- MODULE FiniteSums -----------------------------
(***************************************************************************)
(* What SumFunctionOnSet of the community module Functions computes over a *)
(* finite set.  It folds in an unspecified order through a recursive       *)
(* function, so that even the existence of that function needs an          *)
(* induction; the induction is carried out over sets of naturals, which is *)
(* what the provers can instantiate.                                       *)
(***************************************************************************)
EXTENDS Integers, FiniteSets, Functions, FiniteSetTheorems, WellFoundedInduction, TLAPS

\* Induction over the naturals, for a set instead of a predicate.
LEMMA NatSetInduction ==
    ASSUME NEW T, T \subseteq Nat, 0 \in T, \A n \in T : n + 1 \in T
    PROVE  T = Nat
<1> SUFFICES ASSUME Nat \ T # {} PROVE FALSE
  OBVIOUS
<1>1. \E x \in Nat \ T : \A y \in Nat \ T : ~(y < x)
  <2>1. PICK x \in Nat \ T : \A y \in Nat \ T : ~ (<<y, x>> \in OpToRel(<, Nat))
    BY NatLessThanWellFounded, WFMin
  <2>2. ASSUME NEW y \in Nat \ T, y < x PROVE <<y, x>> \in OpToRel(<, Nat)
    <3>1. <<y, x>> \in Nat \X Nat /\ <<y, x>>[1] < <<y, x>>[2]
      BY <2>2
    <3> QED
      BY <3>1 DEF OpToRel
  <2> QED
    BY <2>1, <2>2
<1>2. PICK x \in Nat \ T : \A y \in Nat \ T : ~(y < x)
  BY <1>1
<1>3. x # 0 /\ x - 1 \in Nat /\ x - 1 < x /\ (x - 1) + 1 = x
  OBVIOUS
<1>4. x - 1 \in T
  BY <1>2, <1>3
<1> QED
  BY <1>3, <1>4

-----------------------------------------------------------------------------
(* The recursive function behind the fold. *)

Pick(s) == CHOOSE x \in s : TRUE

IsIter(g, f, D) == g = [s \in D |-> IF s = {} THEN 0 ELSE f[Pick(s)] + g[s \ {Pick(s)}]]

Iter(f, S) == CHOOSE g : IsIter(g, f, SUBSET S)

\* The subsets of S with at most n elements.
Small(S, n) == {s \in SUBSET S : Cardinality(s) <= n}

\* The fold is the recursive function at its whole index set.
LEMMA SumIsIter ==
    ASSUME NEW f, NEW S
    PROVE  SumFunctionOnSet(f, S) = Iter(f, S)[S]
  BY DEF SumFunctionOnSet, FoldFunctionOnSet, MapThenFoldSet, Iter, IsIter, Pick

\* Taking the picked element out of a finite set.
LEMMA PickOut ==
    ASSUME NEW S, IsFiniteSet(S), NEW s \in SUBSET S, s # {}
    PROVE  /\ Pick(s) \in s /\ s \ {Pick(s)} \in SUBSET S /\ IsFiniteSet(s)
           /\ Cardinality(s) \in Nat /\ Cardinality(s \ {Pick(s)}) \in Nat
           /\ Cardinality(s) = Cardinality(s \ {Pick(s)}) + 1
<1>1. Pick(s) \in s
  BY DEF Pick
<1>2. IsFiniteSet(s)
  BY FS_Subset
<1>3. Cardinality(s \ {Pick(s)}) = Cardinality(s) - 1 /\ IsFiniteSet(s \ {Pick(s)})
  BY <1>1, <1>2, FS_RemoveElement
<1>4. Cardinality(s) \in Nat /\ Cardinality(s \ {Pick(s)}) \in Nat
  BY <1>2, <1>3, FS_CardinalityType
<1> QED
  BY <1>1, <1>2, <1>3, <1>4

\* The recursion has a solution over a finite set.
LEMMA IterExists ==
    ASSUME NEW f, NEW S, IsFiniteSet(S)
    PROVE  \E g : IsIter(g, f, SUBSET S)
<1> DEFINE T == {n \in Nat : \E g : IsIter(g, f, Small(S, n))}
<1>1. 0 \in T
  <2>1. \A s \in Small(S, 0) : s = {}
    <3> SUFFICES ASSUME NEW s \in Small(S, 0), s # {} PROVE FALSE
      OBVIOUS
    <3>1. s \in SUBSET S /\ Cardinality(s) <= 0
      BY DEF Small
    <3>2. Cardinality(s) \in Nat /\ Cardinality(s \ {Pick(s)}) \in Nat
          /\ Cardinality(s) = Cardinality(s \ {Pick(s)}) + 1
      BY <3>1, PickOut
    <3> QED
      BY <3>1, <3>2
  <2> DEFINE g == [s \in Small(S, 0) |-> 0]
  <2>2. IsIter(g, f, Small(S, 0))
    BY <2>1 DEF IsIter
  <2> QED
    BY <2>2
<1>2. ASSUME NEW n \in T PROVE n + 1 \in T
  <2>1. PICK g : IsIter(g, f, Small(S, n))
    BY <1>2
  <2> DEFINE h == [s \in Small(S, n + 1) |-> IF s = {} THEN 0 ELSE f[Pick(s)] + g[s \ {Pick(s)}]]
  <2>2. ASSUME NEW s \in Small(S, n + 1), s # {}
        PROVE  g[s \ {Pick(s)}] = h[s \ {Pick(s)}]
    <3> DEFINE t == s \ {Pick(s)}
    <3>0. s \in SUBSET S /\ Cardinality(s) <= n + 1 /\ n \in Nat
      BY <2>2 DEF Small
    <3>1. t \in SUBSET S /\ Cardinality(t) \in Nat /\ Cardinality(s) = Cardinality(t) + 1
      BY <2>2, <3>0, PickOut
    <3> HIDE DEF t
    <3>2. Cardinality(t) <= n /\ Cardinality(t) <= n + 1
      BY <3>0, <3>1
    <3>3. t \in Small(S, n) /\ t \in Small(S, n + 1)
      BY <3>1, <3>2 DEF Small
    <3>4. g[t] = IF t = {} THEN 0 ELSE f[Pick(t)] + g[t \ {Pick(t)}]
      BY <2>1, <3>3 DEF IsIter
    <3>5. h[t] = IF t = {} THEN 0 ELSE f[Pick(t)] + g[t \ {Pick(t)}]
      BY <3>3
    <3> QED
      BY <3>4, <3>5 DEF t
  <2>3. h = [s \in Small(S, n + 1) |-> IF s = {} THEN 0 ELSE f[Pick(s)] + h[s \ {Pick(s)}]]
    <3> DEFINE hh == [s \in Small(S, n + 1) |-> IF s = {} THEN 0 ELSE f[Pick(s)] + h[s \ {Pick(s)}]]
    <3>1. \A s \in Small(S, n + 1) : h[s] = IF s = {} THEN 0 ELSE f[Pick(s)] + g[s \ {Pick(s)}]
      OBVIOUS
    <3>3. DOMAIN h = Small(S, n + 1) /\ h = [s \in Small(S, n + 1) |-> h[s]]
      OBVIOUS
    <3> HIDE DEF h
    <3>2. \A s \in Small(S, n + 1) : hh[s] = IF s = {} THEN 0 ELSE f[Pick(s)] + h[s \ {Pick(s)}]
      OBVIOUS
    <3>4. \A s \in Small(S, n + 1) : h[s] = hh[s]
      BY <2>2, <3>1, <3>2
    <3> QED
      BY <3>3, <3>4
  <2> HIDE DEF h
  <2>4. IsIter(h, f, Small(S, n + 1))
    BY <2>3 DEF IsIter
  <2> QED
    BY <2>4
<1> HIDE DEF T
<1>3. T = Nat
  <2>1. T \subseteq Nat
    BY DEF T
  <2> QED
    BY <1>1, <1>2, <2>1, NatSetInduction
<1>4. Cardinality(S) \in Nat /\ Small(S, Cardinality(S)) = SUBSET S
  BY FS_CardinalityType, FS_Subset DEF Small
<1> QED
  BY <1>3, <1>4 DEF T

\* So it can be unfolded.
LEMMA IterUnfolds ==
    ASSUME NEW f, NEW S, IsFiniteSet(S), NEW s \in SUBSET S
    PROVE  Iter(f, S)[s] = IF s = {} THEN 0 ELSE f[Pick(s)] + Iter(f, S)[s \ {Pick(s)}]
<1>1. IsIter(Iter(f, S), f, SUBSET S)
  BY IterExists DEF Iter
<1> QED
  BY <1>1 DEF IsIter

\* Its value at a subset does not depend on the set it was started for.
LEMMA IterRestricts ==
    ASSUME NEW f, NEW S, IsFiniteSet(S), NEW s \in SUBSET S
    PROVE  Iter(f, S)[s] = Iter(f, s)[s]
<1> DEFINE T == {n \in Nat : \A A \in SUBSET S : \A a \in SUBSET A :
                     Cardinality(a) <= n => Iter(f, A)[a] = Iter(f, a)[a]}
<1>0. ASSUME NEW A \in SUBSET S PROVE IsFiniteSet(A)
  BY FS_Subset
<1>1. ASSUME NEW A \in SUBSET S PROVE Iter(f, A)[{}] = 0 /\ Iter(f, {})[{}] = 0
  BY <1>0, IterUnfolds
<1>2. 0 \in T
  <2> SUFFICES ASSUME NEW A \in SUBSET S, NEW a \in SUBSET A, Cardinality(a) <= 0
               PROVE  Iter(f, A)[a] = Iter(f, a)[a]
    OBVIOUS
  <2>1. a = {}
    <3> SUFFICES ASSUME a # {} PROVE FALSE
      OBVIOUS
    <3>1. Cardinality(a) \in Nat /\ Cardinality(a \ {Pick(a)}) \in Nat /\ Cardinality(a) = Cardinality(a \ {Pick(a)}) + 1
      BY PickOut
    <3> QED
      BY <3>1
  <2> QED
    BY <1>1, <2>1
<1>3. ASSUME NEW n \in T PROVE n + 1 \in T
  <2> SUFFICES ASSUME NEW A \in SUBSET S, NEW a \in SUBSET A, Cardinality(a) <= n + 1
               PROVE  Iter(f, A)[a] = Iter(f, a)[a]
    BY <1>3
  <2>1. CASE a = {}
    BY <1>1, <2>1
  <2>2. CASE a # {}
    <3> DEFINE p == Pick(a)
               b == a \ {p}
    <3>1. a \in SUBSET S /\ b \in SUBSET A /\ b \in SUBSET a /\ b \in SUBSET S /\ IsFiniteSet(A) /\ IsFiniteSet(a)
      BY <1>0
    <3>2. Cardinality(b) \in Nat /\ Cardinality(a) = Cardinality(b) + 1 /\ n \in Nat
      BY <1>3, <2>2, <3>1, PickOut
    <3>3. Iter(f, A)[a] = f[p] + Iter(f, A)[b]
      BY <2>2, <3>1, IterUnfolds
    <3>4. Iter(f, a)[a] = f[p] + Iter(f, a)[b]
      BY <2>2, <3>1, IterUnfolds
    <3> HIDE DEF b
    <3>5. Cardinality(b) <= n
      BY <3>2
    <3>6. Iter(f, A)[b] = Iter(f, b)[b] /\ Iter(f, a)[b] = Iter(f, b)[b]
      BY <1>3, <3>1, <3>5
    <3> QED
      BY <3>3, <3>4, <3>6
  <2> QED
    BY <2>1, <2>2
<1> HIDE DEF T
<1>4. T = Nat
  <2>1. T \subseteq Nat
    BY DEF T
  <2> QED
    BY <1>2, <1>3, <2>1, NatSetInduction
<1>5. IsFiniteSet(s) /\ Cardinality(s) \in Nat
  BY FS_Subset, FS_CardinalityType
<1>6. Cardinality(s) <= Cardinality(s)
  BY <1>5
<1> QED
  BY <1>4, <1>5, <1>6 DEF T

-----------------------------------------------------------------------------
(* The sum. *)

\* The empty sum, and a sum without the picked element.
LEMMA SumUnfolds ==
    ASSUME NEW f, NEW S, IsFiniteSet(S)
    PROVE  SumFunctionOnSet(f, S) =
               IF S = {} THEN 0 ELSE f[Pick(S)] + SumFunctionOnSet(f, S \ {Pick(S)})
<1>1. SumFunctionOnSet(f, S) = IF S = {} THEN 0 ELSE f[Pick(S)] + Iter(f, S)[S \ {Pick(S)}]
  BY SumIsIter, IterUnfolds
<1>2. Iter(f, S)[S \ {Pick(S)}] = SumFunctionOnSet(f, S \ {Pick(S)})
  BY SumIsIter, IterRestricts
<1> QED
  BY <1>1, <1>2

\* A sum of naturals is a natural.
LEMMA SumType ==
    ASSUME NEW S, IsFiniteSet(S), NEW f, \A x \in S : f[x] \in Nat
    PROVE  SumFunctionOnSet(f, S) \in Nat
<1> DEFINE T == {n \in Nat : \A s \in SUBSET S : Cardinality(s) <= n => SumFunctionOnSet(f, s) \in Nat}
<1>0. SumFunctionOnSet(f, {}) = 0
  BY FS_EmptySet, SumUnfolds
<1>1. ASSUME NEW s \in SUBSET S PROVE IsFiniteSet(s) /\ Cardinality(s) \in Nat
  BY FS_Subset, FS_CardinalityType
<1>2. 0 \in T
  <2> SUFFICES ASSUME NEW s \in SUBSET S, Cardinality(s) <= 0 PROVE SumFunctionOnSet(f, s) \in Nat
    OBVIOUS
  <2>1. s = {}
    <3>1. Cardinality(s) = 0
      BY <1>1
    <3> QED
      BY <1>1, <3>1, FS_EmptySet
  <2> QED
    BY <1>0, <2>1
<1>3. ASSUME NEW n \in T PROVE n + 1 \in T
  <2> SUFFICES ASSUME NEW s \in SUBSET S, Cardinality(s) <= n + 1 PROVE SumFunctionOnSet(f, s) \in Nat
    BY <1>3
  <2>1. CASE s = {}
    BY <1>0, <2>1
  <2>2. CASE s # {}
    <3> DEFINE t == s \ {Pick(s)}
    <3>1. /\ t \in SUBSET S /\ Cardinality(t) \in Nat /\ Cardinality(s) = Cardinality(t) + 1
          /\ Pick(s) \in S /\ n \in Nat
      BY <1>3, <2>2, PickOut
    <3>2. SumFunctionOnSet(f, s) = f[Pick(s)] + SumFunctionOnSet(f, t)
      BY <1>1, <2>2, SumUnfolds
    <3> HIDE DEF t
    <3>3. Cardinality(t) <= n
      BY <3>1
    <3>4. SumFunctionOnSet(f, t) \in Nat /\ f[Pick(s)] \in Nat
      BY <1>3, <3>1, <3>3
    <3> QED
      BY <3>2, <3>4
  <2> QED
    BY <2>1, <2>2
<1> HIDE DEF T
<1>4. T = Nat
  <2>1. T \subseteq Nat
    BY DEF T
  <2> QED
    BY <1>2, <1>3, <2>1, NatSetInduction
<1>5. Cardinality(S) \in Nat /\ Cardinality(S) <= Cardinality(S)
  BY <1>1
<1> QED
  BY <1>4, <1>5 DEF T

\* Any element can be taken out first.
LEMMA SumRemove ==
    ASSUME NEW S, IsFiniteSet(S), NEW f, \A x \in S : f[x] \in Nat, NEW a \in S
    PROVE  SumFunctionOnSet(f, S) = f[a] + SumFunctionOnSet(f, S \ {a})
<1> DEFINE T == {n \in Nat : \A s \in SUBSET S : Cardinality(s) <= n =>
                     \A b \in s : SumFunctionOnSet(f, s) = f[b] + SumFunctionOnSet(f, s \ {b})}
<1>1. ASSUME NEW s \in SUBSET S
      PROVE  IsFiniteSet(s) /\ Cardinality(s) \in Nat /\ SumFunctionOnSet(f, s) \in Nat
  <2>1. IsFiniteSet(s) /\ \A x \in s : f[x] \in Nat
    BY FS_Subset
  <2> QED
    BY <2>1, FS_CardinalityType, SumType
<1>2. 0 \in T
  <2> SUFFICES ASSUME NEW s \in SUBSET S, Cardinality(s) <= 0 PROVE s = {}
    OBVIOUS
  <2>1. Cardinality(s) = 0
    BY <1>1
  <2> QED
    BY <1>1, <2>1, FS_EmptySet
<1>3. ASSUME NEW n \in T PROVE n + 1 \in T
  <2> SUFFICES ASSUME NEW s \in SUBSET S, Cardinality(s) <= n + 1, NEW b \in s
               PROVE  SumFunctionOnSet(f, s) = f[b] + SumFunctionOnSet(f, s \ {b})
    BY <1>3
  <2> DEFINE p == Pick(s)
             t == s \ {p}
             u == s \ {b}
             v == t \ {b}
  <2>1. /\ p \in s /\ t \in SUBSET S /\ u \in SUBSET S /\ v \in SUBSET S
        /\ SumFunctionOnSet(f, s) = f[p] + SumFunctionOnSet(f, t)
    <3>1. s # {}
      OBVIOUS
    <3> QED
      BY <1>1, <3>1, PickOut, SumUnfolds
  <2>2. CASE b = p
    BY <2>1, <2>2
  <2>3. CASE b # p
    <3>1. b \in t /\ p \in u /\ v = u \ {p}
      BY <2>1, <2>3
    <3>2. Cardinality(t) = Cardinality(s) - 1 /\ Cardinality(u) = Cardinality(s) - 1
      BY <1>1, <2>1, FS_RemoveElement
    <3>3. Cardinality(t) <= n /\ Cardinality(u) <= n
      <4>1. Cardinality(s) \in Nat /\ n \in Nat
        BY <1>1, <1>3
      <4> HIDE DEF t, u
      <4> QED
        BY <3>2, <4>1
    <3> HIDE DEF t, u, v
    <3>4. SumFunctionOnSet(f, t) = f[b] + SumFunctionOnSet(f, t \ {b})
      BY <1>3, <2>1, <3>1, <3>3
    <3>5. SumFunctionOnSet(f, u) = f[p] + SumFunctionOnSet(f, u \ {p})
      BY <1>3, <2>1, <3>1, <3>3
    <3>6. t \ {b} = v /\ u \ {p} = v /\ SumFunctionOnSet(f, v) \in Nat /\ f[b] \in Nat /\ f[p] \in Nat
      BY <1>1, <2>1, <3>1 DEF v
    <3>7. SumFunctionOnSet(f, s) = f[b] + SumFunctionOnSet(f, u)
      BY <2>1, <3>4, <3>5, <3>6
    <3> QED
      BY <3>7 DEF u
  <2> QED
    BY <2>2, <2>3
<1> HIDE DEF T
<1>4. T = Nat
  <2>1. T \subseteq Nat
    BY DEF T
  <2> QED
    BY <1>2, <1>3, <2>1, NatSetInduction
<1>5. Cardinality(S) \in Nat /\ Cardinality(S) <= Cardinality(S) /\ S \in SUBSET S
  BY <1>1
<1> QED
  BY <1>4, <1>5 DEF T

\* Only the values on the index set count.
LEMMA SumCongruence ==
    ASSUME NEW S, IsFiniteSet(S), NEW f, NEW g, \A x \in S : f[x] = g[x]
    PROVE  SumFunctionOnSet(f, S) = SumFunctionOnSet(g, S)
<1> DEFINE T == {n \in Nat : \A s \in SUBSET S : Cardinality(s) <= n =>
                     SumFunctionOnSet(f, s) = SumFunctionOnSet(g, s)}
<1>1. ASSUME NEW s \in SUBSET S PROVE IsFiniteSet(s) /\ Cardinality(s) \in Nat
  BY FS_Subset, FS_CardinalityType
<1>2. ASSUME NEW s \in SUBSET S, s = {} PROVE SumFunctionOnSet(f, s) = SumFunctionOnSet(g, s)
  BY <1>1, <1>2, SumUnfolds
<1>3. 0 \in T
  <2> SUFFICES ASSUME NEW s \in SUBSET S, Cardinality(s) <= 0 PROVE s = {}
    BY <1>2
  <2>1. Cardinality(s) = 0
    BY <1>1
  <2> QED
    BY <1>1, <2>1, FS_EmptySet
<1>4. ASSUME NEW n \in T PROVE n + 1 \in T
  <2> SUFFICES ASSUME NEW s \in SUBSET S, Cardinality(s) <= n + 1, s # {}
               PROVE  SumFunctionOnSet(f, s) = SumFunctionOnSet(g, s)
    BY <1>2, <1>4
  <2> DEFINE p == Pick(s)
             t == s \ {p}
  <2>1. /\ p \in S /\ t \in SUBSET S /\ Cardinality(t) \in Nat /\ Cardinality(s) = Cardinality(t) + 1 /\ n \in Nat
    BY <1>4, PickOut
  <2>2. /\ SumFunctionOnSet(f, s) = f[p] + SumFunctionOnSet(f, t)
        /\ SumFunctionOnSet(g, s) = g[p] + SumFunctionOnSet(g, t)
    BY <1>1, SumUnfolds
  <2> HIDE DEF t, p
  <2>3. Cardinality(t) <= n
    BY <2>1
  <2>4. SumFunctionOnSet(f, t) = SumFunctionOnSet(g, t) /\ f[p] = g[p]
    BY <1>4, <2>1, <2>3
  <2> QED
    BY <2>2, <2>4
<1> HIDE DEF T
<1>5. T = Nat
  <2>1. T \subseteq Nat
    BY DEF T
  <2> QED
    BY <1>3, <1>4, <2>1, NatSetInduction
<1>6. Cardinality(S) \in Nat /\ Cardinality(S) <= Cardinality(S) /\ S \in SUBSET S
  BY <1>1
<1> QED
  BY <1>5, <1>6 DEF T

\* A sum over zeros is zero.
LEMMA SumOfZeros ==
    ASSUME NEW S, IsFiniteSet(S), NEW f, \A x \in S : f[x] = 0
    PROVE  SumFunctionOnSet(f, S) = 0
<1> DEFINE T == {n \in Nat : \A s \in SUBSET S : Cardinality(s) <= n => SumFunctionOnSet(f, s) = 0}
<1>1. ASSUME NEW s \in SUBSET S PROVE IsFiniteSet(s) /\ Cardinality(s) \in Nat
  BY FS_Subset, FS_CardinalityType
<1>2. ASSUME NEW s \in SUBSET S, s = {} PROVE SumFunctionOnSet(f, s) = 0
  BY <1>1, <1>2, SumUnfolds
<1>3. 0 \in T
  <2> SUFFICES ASSUME NEW s \in SUBSET S, Cardinality(s) <= 0 PROVE s = {}
    BY <1>2
  <2>1. Cardinality(s) = 0
    BY <1>1
  <2> QED
    BY <1>1, <2>1, FS_EmptySet
<1>4. ASSUME NEW n \in T PROVE n + 1 \in T
  <2> SUFFICES ASSUME NEW s \in SUBSET S, Cardinality(s) <= n + 1, s # {} PROVE SumFunctionOnSet(f, s) = 0
    BY <1>2, <1>4
  <2> DEFINE p == Pick(s)
             t == s \ {p}
  <2>1. /\ p \in S /\ t \in SUBSET S /\ Cardinality(t) \in Nat /\ Cardinality(s) = Cardinality(t) + 1 /\ n \in Nat
    BY <1>4, PickOut
  <2>2. SumFunctionOnSet(f, s) = f[p] + SumFunctionOnSet(f, t)
    BY <1>1, SumUnfolds
  <2> HIDE DEF t, p
  <2>3. Cardinality(t) <= n
    BY <2>1
  <2>4. SumFunctionOnSet(f, t) = 0 /\ f[p] = 0
    BY <1>4, <2>1, <2>3
  <2> QED
    BY <2>2, <2>4
<1> HIDE DEF T
<1>5. T = Nat
  <2>1. T \subseteq Nat
    BY DEF T
  <2> QED
    BY <1>3, <1>4, <2>1, NatSetInduction
<1>6. Cardinality(S) \in Nat /\ Cardinality(S) <= Cardinality(S) /\ S \in SUBSET S
  BY <1>1
<1> QED
  BY <1>5, <1>6 DEF T

\* A sum of smaller numbers is no larger.
LEMMA SumPointwise ==
    ASSUME NEW S, IsFiniteSet(S), NEW f, NEW g,
           \A x \in S : f[x] \in Nat /\ g[x] \in Nat /\ f[x] <= g[x]
    PROVE  SumFunctionOnSet(f, S) <= SumFunctionOnSet(g, S)
<1> DEFINE T == {n \in Nat : \A s \in SUBSET S : Cardinality(s) <= n => SumFunctionOnSet(f, s) <= SumFunctionOnSet(g, s)}
<1>1. ASSUME NEW s \in SUBSET S PROVE IsFiniteSet(s) /\ Cardinality(s) \in Nat
  BY FS_Subset, FS_CardinalityType
<1>2. ASSUME NEW s \in SUBSET S, s = {} PROVE SumFunctionOnSet(f, s) <= SumFunctionOnSet(g, s)
  <2>1. SumFunctionOnSet(f, s) = 0 /\ SumFunctionOnSet(g, s) = 0
    BY <1>1, <1>2, SumUnfolds
  <2> QED
    BY <2>1
<1>3. 0 \in T
  <2> SUFFICES ASSUME NEW s \in SUBSET S, Cardinality(s) <= 0 PROVE s = {}
    BY <1>2
  <2>1. Cardinality(s) = 0
    BY <1>1
  <2> QED
    BY <1>1, <2>1, FS_EmptySet
<1>4. ASSUME NEW n \in T PROVE n + 1 \in T
  <2> SUFFICES ASSUME NEW s \in SUBSET S, Cardinality(s) <= n + 1, s # {} PROVE SumFunctionOnSet(f, s) <= SumFunctionOnSet(g, s)
    BY <1>2, <1>4
  <2> DEFINE p == Pick(s)
             t == s \ {p}
  <2>1. /\ p \in S /\ t \in SUBSET S /\ Cardinality(t) \in Nat /\ Cardinality(s) = Cardinality(t) + 1 /\ n \in Nat
    BY <1>4, PickOut
  <2>2. /\ SumFunctionOnSet(f, s) = f[p] + SumFunctionOnSet(f, t)
        /\ SumFunctionOnSet(g, s) = g[p] + SumFunctionOnSet(g, t)
    BY <1>1, SumUnfolds
  <2> HIDE DEF t, p
  <2>3. Cardinality(t) <= n
    BY <2>1
  <2>4. SumFunctionOnSet(f, t) <= SumFunctionOnSet(g, t) /\ f[p] \in Nat /\ g[p] \in Nat /\ f[p] <= g[p]
    BY <1>4, <2>1, <2>3
  <2>5. SumFunctionOnSet(f, t) \in Nat /\ SumFunctionOnSet(g, t) \in Nat
    <3>1. IsFiniteSet(t) /\ \A x \in t : f[x] \in Nat /\ g[x] \in Nat
      BY <1>1, <2>1
    <3> QED
      BY <3>1, SumType
  <2> QED
    BY <2>2, <2>4, <2>5
<1> HIDE DEF T
<1>5. T = Nat
  <2>1. T \subseteq Nat
    BY DEF T
  <2> QED
    BY <1>3, <1>4, <2>1, NatSetInduction
<1>6. Cardinality(S) \in Nat /\ Cardinality(S) <= Cardinality(S) /\ S \in SUBSET S
  BY <1>1
<1> QED
  BY <1>5, <1>6 DEF T

\* No summand exceeds the sum.
LEMMA SummandBound ==
    ASSUME NEW S, IsFiniteSet(S), NEW f, \A x \in S : f[x] \in Nat, NEW a \in S
    PROVE  f[a] <= SumFunctionOnSet(f, S)
<1>1. SumFunctionOnSet(f, S) = f[a] + SumFunctionOnSet(f, S \ {a})
  BY SumRemove
<1>2. IsFiniteSet(S \ {a}) /\ \A x \in S \ {a} : f[x] \in Nat
  BY FS_RemoveElement
<1>3. SumFunctionOnSet(f, S \ {a}) \in Nat /\ f[a] \in Nat
  BY <1>2, SumType
<1> QED
  BY <1>1, <1>3

\* Changing one summand by d changes the sum by d.
LEMMA SumOfUpdate ==
    ASSUME NEW S, IsFiniteSet(S), NEW f \in [S -> Nat], NEW a \in S, NEW d \in Int, f[a] + d \in Nat
    PROVE  SumFunctionOnSet([f EXCEPT ![a] = @ + d], S) = SumFunctionOnSet(f, S) + d
<1> DEFINE g == [f EXCEPT ![a] = @ + d]
           R == S \ {a}
<1>1. g \in [S -> Nat] /\ g[a] = f[a] + d /\ \A x \in R : f[x] = g[x]
  OBVIOUS
<1>2. IsFiniteSet(R) /\ \A x \in R : f[x] \in Nat
  BY FS_RemoveElement
<1> HIDE DEF g
<1>3. SumFunctionOnSet(f, S) = f[a] + SumFunctionOnSet(f, R) /\ SumFunctionOnSet(g, S) = g[a] + SumFunctionOnSet(g, R)
  BY <1>1, SumRemove
<1> HIDE DEF R
<1>4. SumFunctionOnSet(f, R) = SumFunctionOnSet(g, R) /\ SumFunctionOnSet(f, R) \in Nat /\ f[a] \in Nat
  BY <1>1, <1>2, SumCongruence, SumType
<1>5. SumFunctionOnSet(g, S) = SumFunctionOnSet(f, S) + d
  BY <1>1, <1>3, <1>4
<1> QED
  BY <1>5 DEF g

\* One more index adds its summand.
LEMMA SumOfAdded ==
    ASSUME NEW S, IsFiniteSet(S), NEW f, NEW a, a \notin S, f[a] \in Nat, \A x \in S : f[x] \in Nat
    PROVE  SumFunctionOnSet(f, S \cup {a}) = f[a] + SumFunctionOnSet(f, S)
<1>1. IsFiniteSet(S \cup {a}) /\ (S \cup {a}) \ {a} = S /\ \A x \in S \cup {a} : f[x] \in Nat
  BY FS_AddElement
<1> QED
  BY <1>1, SumRemove

\* A sum over fewer indices is no larger.
LEMMA SumMonotone ==
    ASSUME NEW S, IsFiniteSet(S), NEW f, \A x \in S : f[x] \in Nat, NEW R \in SUBSET S
    PROVE  SumFunctionOnSet(f, R) <= SumFunctionOnSet(f, S)
<1> DEFINE T == {n \in Nat : \A s \in SUBSET S : Cardinality(s) <= n =>
                     \A r \in SUBSET s : SumFunctionOnSet(f, r) <= SumFunctionOnSet(f, s)}
<1>1. ASSUME NEW s \in SUBSET S
      PROVE  IsFiniteSet(s) /\ Cardinality(s) \in Nat /\ SumFunctionOnSet(f, s) \in Nat
  <2>1. IsFiniteSet(s) /\ \A x \in s : f[x] \in Nat
    BY FS_Subset
  <2> QED
    BY <2>1, FS_CardinalityType, SumType
<1>2. 0 \in T
  <2> SUFFICES ASSUME NEW s \in SUBSET S, Cardinality(s) <= 0, NEW r \in SUBSET s
               PROVE  SumFunctionOnSet(f, r) <= SumFunctionOnSet(f, s)
    OBVIOUS
  <2>1. Cardinality(s) = 0
    BY <1>1
  <2>2. s = {} /\ r = s
    BY <1>1, <2>1, FS_EmptySet
  <2> QED
    BY <1>1, <2>2
<1>3. ASSUME NEW n \in T PROVE n + 1 \in T
  <2> SUFFICES ASSUME NEW s \in SUBSET S, Cardinality(s) <= n + 1, NEW r \in SUBSET s
               PROVE  SumFunctionOnSet(f, r) <= SumFunctionOnSet(f, s)
    BY <1>3
  <2>1. CASE r = s
    BY <1>1, <2>1
  <2>2. CASE r # s
    <3>1. PICK b \in s : b \notin r
      BY <2>2
    <3> DEFINE t == s \ {b}
    <3>2. t \in SUBSET S /\ r \in SUBSET t /\ Cardinality(t) = Cardinality(s) - 1
      BY <1>1, <3>1, FS_RemoveElement
    <3>3. SumFunctionOnSet(f, s) = f[b] + SumFunctionOnSet(f, t)
      <4>1. IsFiniteSet(s) /\ \A x \in s : f[x] \in Nat
        BY <1>1
      <4> QED
        BY <3>1, <4>1, SumRemove
    <3> HIDE DEF t
    <3>4. Cardinality(t) <= n
      <4>1. Cardinality(s) \in Nat /\ n \in Nat
        BY <1>1, <1>3
      <4> QED
        BY <3>2, <4>1
    <3>5. SumFunctionOnSet(f, r) <= SumFunctionOnSet(f, t)
      BY <1>3, <3>2, <3>4
    <3>6. /\ SumFunctionOnSet(f, r) \in Nat /\ SumFunctionOnSet(f, t) \in Nat
          /\ f[b] \in Nat
      BY <1>1, <3>1, <3>2
    <3> QED
      BY <3>3, <3>5, <3>6
  <2> QED
    BY <2>1, <2>2
<1> HIDE DEF T
<1>4. T = Nat
  <2>1. T \subseteq Nat
    BY DEF T
  <2> QED
    BY <1>2, <1>3, <2>1, NatSetInduction
<1>5. Cardinality(S) \in Nat /\ Cardinality(S) <= Cardinality(S) /\ S \in SUBSET S
  BY <1>1
<1> QED
  BY <1>4, <1>5 DEF T

\* A sum falls into the sum over a part and the sum over the rest.
LEMMA SumSplit ==
    ASSUME NEW S, IsFiniteSet(S), NEW f, \A x \in S : f[x] \in Nat, NEW R \in SUBSET S
    PROVE  SumFunctionOnSet(f, S) = SumFunctionOnSet(f, R) + SumFunctionOnSet(f, S \ R)
<1> DEFINE T == {n \in Nat : \A r \in SUBSET S : Cardinality(r) <= n =>
                     SumFunctionOnSet(f, S) = SumFunctionOnSet(f, r) + SumFunctionOnSet(f, S \ r)}
<1>1. ASSUME NEW s \in SUBSET S
      PROVE  /\ IsFiniteSet(s) /\ Cardinality(s) \in Nat /\ SumFunctionOnSet(f, s) \in Nat
             /\ \A x \in s : f[x] \in Nat
  <2>1. IsFiniteSet(s) /\ \A x \in s : f[x] \in Nat
    BY FS_Subset
  <2> QED
    BY <2>1, FS_CardinalityType, SumType
<1>2. 0 \in T
  <2> SUFFICES ASSUME NEW r \in SUBSET S, Cardinality(r) <= 0
               PROVE  SumFunctionOnSet(f, S) = SumFunctionOnSet(f, r) + SumFunctionOnSet(f, S \ r)
    OBVIOUS
  <2>1. Cardinality(r) = 0
    BY <1>1
  <2>2. r = {} /\ S \ r = S
    BY <1>1, <2>1, FS_EmptySet
  <2>3. SumFunctionOnSet(f, r) = 0
    BY <1>1, <2>2, SumUnfolds
  <2>4. SumFunctionOnSet(f, S) \in Nat
    BY <1>1
  <2> QED
    BY <2>2, <2>3, <2>4
<1>3. ASSUME NEW n \in T PROVE n + 1 \in T
  <2> SUFFICES ASSUME NEW r \in SUBSET S, Cardinality(r) <= n + 1
               PROVE  SumFunctionOnSet(f, S) = SumFunctionOnSet(f, r) + SumFunctionOnSet(f, S \ r)
    BY <1>3
  <2>1. CASE r = {}
    <3>1. Cardinality(r) <= 0
      BY <2>1, FS_EmptySet
    <3> QED
      BY <1>2, <3>1
  <2>2. CASE r # {}
    <3>1. PICK a : a \in r
      BY <2>2
    <3> DEFINE t == r \ {a}
               u == S \ r
    <3>2. /\ t \in SUBSET S /\ u \in SUBSET S /\ a \notin t /\ a \notin u
          /\ t \cup {a} = r /\ S \ t = u \cup {a} /\ Cardinality(t) = Cardinality(r) - 1
      BY <1>1, <3>1, FS_RemoveElement
    <3> HIDE DEF t, u
    <3>3. Cardinality(t) <= n
      <4>1. Cardinality(r) \in Nat /\ n \in Nat
        BY <1>1, <1>3
      <4> QED
        BY <3>2, <4>1
    <3>4. SumFunctionOnSet(f, S) = SumFunctionOnSet(f, t) + SumFunctionOnSet(f, S \ t)
      BY <1>3, <3>2, <3>3
    <3>5. f[a] \in Nat
      BY <3>1
    <3>6. SumFunctionOnSet(f, t \cup {a}) = f[a] + SumFunctionOnSet(f, t)
      <4>1. IsFiniteSet(t) /\ \A x \in t : f[x] \in Nat
        BY <1>1, <3>2
      <4> QED
        BY <3>2, <3>5, <4>1, SumOfAdded
    <3>7. SumFunctionOnSet(f, u \cup {a}) = f[a] + SumFunctionOnSet(f, u)
      <4>1. IsFiniteSet(u) /\ \A x \in u : f[x] \in Nat
        BY <1>1, <3>2
      <4> QED
        BY <3>2, <3>5, <4>1, SumOfAdded
    <3>8. SumFunctionOnSet(f, t) \in Nat /\ SumFunctionOnSet(f, u) \in Nat
      BY <1>1, <3>2
    <3> DEFINE x == SumFunctionOnSet(f, t)
               y == SumFunctionOnSet(f, u)
    <3>9. SumFunctionOnSet(f, S) = x + (f[a] + y) /\ SumFunctionOnSet(f, r) = f[a] + x
      BY <3>2, <3>4, <3>6, <3>7
    <3>10. x \in Nat /\ y \in Nat
      BY <3>8
    <3>11. y = SumFunctionOnSet(f, S \ r)
      BY DEF u
    <3> HIDE DEF x, y
    <3> QED
      BY <3>5, <3>9, <3>10, <3>11
  <2> QED
    BY <2>1, <2>2
<1> HIDE DEF T
<1>4. T = Nat
  <2>1. T \subseteq Nat
    BY DEF T
  <2> QED
    BY <1>2, <1>3, <2>1, NatSetInduction
<1>5. Cardinality(R) \in Nat /\ Cardinality(R) <= Cardinality(R) /\ R \in SUBSET S
  BY <1>1
<1> QED
  BY <1>4, <1>5 DEF T
=============================================================================
