------------------------------ MODULE SumProofs ------------------------------
(***************************************************************************)
(* What SumFunctionOnSet of the community modules computes on a finite set *)
(* of integers: it does not depend on the order in which elements are      *)
(* chosen, so an element can be taken out, a value changed, two sums added *)
(* or a set split.  The balances of accounts, the rows of balanceactivity  *)
(* and the stock are related by such sums.                                 *)
(*                                                                         *)
(* Induction is on the finite subsets of a set, with the set of those that *)
(* have the property as a parameter in place of an operator: a smallest    *)
(* subset that has not exists because strict inclusion is well-founded.    *)
(***************************************************************************)
EXTENDS Integers, FiniteSets, Functions, FiniteSetTheorems, WellFoundedInduction, TLAPS

Pick(s) == CHOOSE x \in s : TRUE

\* The function the fold is read off: sums of f over the subsets of S.
Sums(f, S, g) ==
    g = [s \in SUBSET S |-> IF s = {} THEN 0 ELSE f[Pick(s)] + g[s \ {Pick(s)}]]

\* A set of subsets of a finite set holds them all when it holds each whose strict
\* subsets it holds.
LEMMA SubsetInduction ==
    ASSUME NEW S, IsFiniteSet(S), NEW B,
           \A s \in SUBSET S : (\A t \in SUBSET s : t # s => t \in B) => s \in B
    PROVE  SUBSET S \subseteq B
<1>1. SUFFICES ASSUME (SUBSET S) \ B # {} PROVE FALSE
  OBVIOUS
<1>2. IsWellFoundedOn(StrictSubsetOrdering(S), SUBSET S)
  BY FS_StrictSubsetOrderingWellFounded, FS_FiniteSubsetsOfFinite
<1>3. PICK s \in (SUBSET S) \ B :
         \A t \in (SUBSET S) \ B : ~ (<<t, s>> \in StrictSubsetOrdering(S))
  <2> DEFINE T == (SUBSET S) \ B
  <2>1. T \subseteq SUBSET S /\ T # {}
    BY <1>1
  <2> HIDE DEF T
  <2>2. \E s \in T : \A t \in T : ~ (<<t, s>> \in StrictSubsetOrdering(S))
    BY <2>1, <1>2, WFMin
  <2> QED
    BY <2>2 DEF T
<1>4. \A t \in SUBSET s : t # s => t \in B
  BY <1>3 DEF StrictSubsetOrdering
<1> QED
  BY <1>3, <1>4

LEMMA PickIn == ASSUME NEW s, s # {} PROVE Pick(s) \in s
  BY DEF Pick

\* The functions of two subsets agree where both are defined.
LEMMA SumsAgree ==
    ASSUME NEW S, IsFiniteSet(S), NEW T \in SUBSET S, NEW U \in SUBSET S, NEW f,
           NEW g, Sums(f, T, g), NEW h, Sums(f, U, h)
    PROVE  \A s \in SUBSET (T \cap U) : g[s] = h[s]
<1> DEFINE B == {s \in SUBSET S : s \subseteq T \cap U => g[s] = h[s]}
<1>1. ASSUME NEW s \in SUBSET S, \A t \in SUBSET s : t # s => t \in B
      PROVE  s \in B
  <2> SUFFICES ASSUME s \subseteq T \cap U PROVE g[s] = h[s]
    OBVIOUS
  <2>1. CASE s = {}
    BY <2>1 DEF Sums
  <2>2. CASE s # {}
    <3> DEFINE r == s \ {Pick(s)}
    <3>1. r \in SUBSET s /\ r # s
      BY <2>2, PickIn
    <3>2. g[r] = h[r]
      BY <3>1, <1>1
    <3>3. g[s] = f[Pick(s)] + g[r] /\ h[s] = f[Pick(s)] + h[r]
      BY <2>2 DEF Sums
    <3> QED
      BY <3>2, <3>3
  <2> QED
    BY <2>1, <2>2
<1>2. SUBSET S \subseteq B
  <2> HIDE DEF B
  <2> QED
    BY <1>1, SubsetInduction
<1> QED
  BY <1>2

\* There is such a function.
LEMMA SumsExist ==
    ASSUME NEW S, IsFiniteSet(S), NEW f
    PROVE  \E g : Sums(f, S, g)
<1> DEFINE B == {s \in SUBSET S : \E g : Sums(f, s, g)}
<1>1. ASSUME NEW s \in SUBSET S, \A t \in SUBSET s : t # s => t \in B
      PROVE  s \in B
  <2> DEFINE G(t) == CHOOSE g : Sums(f, t, g)
             v == IF s = {} THEN 0 ELSE f[Pick(s)] + G(s \ {Pick(s)})[s \ {Pick(s)}]
             h == [t \in SUBSET s |-> IF t = s THEN v ELSE G(t)[t]]
  <2>1. \A t \in SUBSET s : t # s => Sums(f, t, G(t))
    BY <1>1
  <2>2. ASSUME NEW t \in SUBSET s
        PROVE  h[t] = IF t = {} THEN 0 ELSE f[Pick(t)] + h[t \ {Pick(t)}]
    <3>1. CASE t = {}
      <4>1. CASE s = {}
        BY <3>1, <4>1
      <4>2. CASE s # {}
        <5>1. Sums(f, t, G(t)) /\ t # s
          BY <3>1, <4>2, <2>1
        <5>2. G(t)[t] = 0
          <6> HIDE DEF G
          <6> QED
            BY <5>1, <3>1 DEF Sums
        <5> QED
          BY <5>1, <5>2, <3>1
      <4> QED
        BY <4>1, <4>2
    <3>2. CASE t # {}
      <4> DEFINE r == t \ {Pick(t)}
      <4>1. r \in SUBSET t /\ r # t /\ r # s /\ r \in SUBSET s
        BY <3>2, PickIn
      <4>2. h[r] = G(r)[r]
        BY <4>1
      <4>3. CASE t = s
        BY <4>3, <4>2, <3>2
      <4>4. CASE t # s
        <5>1. Sums(f, t, G(t)) /\ Sums(f, r, G(r))
          BY <4>1, <4>4, <2>1
        <5>2. G(t)[t] = f[Pick(t)] + G(t)[r]
          BY <5>1, <3>2 DEF Sums
        <5>3. G(t)[r] = G(r)[r]
          <6> HIDE DEF G, r
          <6> QED
            BY <5>1, <4>1, SumsAgree
        <5> QED
          BY <5>2, <5>3, <4>2, <4>4, <3>2
      <4> QED
        BY <4>3, <4>4
    <3> QED
      BY <3>1, <3>2
  <2>3. Sums(f, s, h)
    <3> HIDE DEF v, G
    <3>1. h = [t \in SUBSET s |-> h[t]]
      OBVIOUS
    <3>2. [t \in SUBSET s |-> h[t]] = [t \in SUBSET s |-> IF t = {} THEN 0 ELSE f[Pick(t)] + h[t \ {Pick(t)}]]
      <4> HIDE DEF h
      <4> QED
        BY <2>2
    <3> QED
      BY <3>1, <3>2 DEF Sums
  <2> QED
    BY <2>3
<1>2. SUBSET S \subseteq B
  <2> HIDE DEF B
  <2> QED
    BY <1>1, SubsetInduction
<1> QED
  BY <1>2

\* The fold reads it off at the whole set.
LEMMA SumIsSums ==
    ASSUME NEW S, IsFiniteSet(S), NEW f
    PROVE  \E g : Sums(f, S, g) /\ SumFunctionOnSet(f, S) = g[S]
<1> DEFINE g == CHOOSE h : h = [s \in SUBSET S |-> IF s = {} THEN 0 ELSE f[Pick(s)] + h[s \ {Pick(s)}]]
<1>1. Sums(f, S, g)
  <2>1. \E h : h = [s \in SUBSET S |-> IF s = {} THEN 0 ELSE f[Pick(s)] + h[s \ {Pick(s)}]]
    <3>1. PICK h : Sums(f, S, h)
      BY SumsExist
    <3> QED
      BY <3>1, Zenon DEF Sums
  <2>2. g = [s \in SUBSET S |-> IF s = {} THEN 0 ELSE f[Pick(s)] + g[s \ {Pick(s)}]]
    BY <2>1, Zenon
  <2> QED
    BY <2>2 DEF Sums
<1>2. SumFunctionOnSet(f, S) = g[S]
  BY DEF SumFunctionOnSet, FoldFunctionOnSet, MapThenFoldSet, Pick
<1> QED
  BY <1>1, <1>2

\* ... and so the sum over any subset.
LEMMA SumOfSubset ==
    ASSUME NEW S, IsFiniteSet(S), NEW f, NEW g, Sums(f, S, g), NEW T \in SUBSET S
    PROVE  SumFunctionOnSet(f, T) = g[T]
<1>1. IsFiniteSet(T)
  BY FS_Subset
<1>2. PICK h : Sums(f, T, h) /\ SumFunctionOnSet(f, T) = h[T]
  BY <1>1, SumIsSums
<1> QED
  BY <1>2, SumsAgree

LEMMA SumEmpty == ASSUME NEW f PROVE SumFunctionOnSet(f, {}) = 0
<1>1. IsFiniteSet({})
  BY FS_EmptySet
<1>2. PICK g : Sums(f, {}, g) /\ SumFunctionOnSet(f, {}) = g[{}]
  BY <1>1, SumIsSums
<1> QED
  BY <1>2 DEF Sums

LEMMA SumPick ==
    ASSUME NEW S, IsFiniteSet(S), S # {}, NEW f
    PROVE  SumFunctionOnSet(f, S) = f[Pick(S)] + SumFunctionOnSet(f, S \ {Pick(S)})
<1>1. PICK g : Sums(f, S, g)
  BY SumsExist
<1>2. SumFunctionOnSet(f, S) = g[S] /\ SumFunctionOnSet(f, S \ {Pick(S)}) = g[S \ {Pick(S)}]
  BY <1>1, SumOfSubset
<1> QED
  BY <1>1, <1>2 DEF Sums

LEMMA SumInt ==
    ASSUME NEW S, IsFiniteSet(S), NEW f, \A x \in S : f[x] \in Int
    PROVE  SumFunctionOnSet(f, S) \in Int
<1> DEFINE B == {s \in SUBSET S : SumFunctionOnSet(f, s) \in Int}
<1>1. ASSUME NEW s \in SUBSET S, \A t \in SUBSET s : t # s => t \in B
      PROVE  s \in B
  <2>1. CASE s = {}
    BY <2>1, SumEmpty
  <2>2. CASE s # {}
    <3>1. Pick(s) \in s /\ IsFiniteSet(s)
      BY <2>2, PickIn, FS_Subset
    <3>2. SumFunctionOnSet(f, s) = f[Pick(s)] + SumFunctionOnSet(f, s \ {Pick(s)})
      BY <2>2, <3>1, SumPick
    <3>3. SumFunctionOnSet(f, s \ {Pick(s)}) \in Int
      BY <3>1, <1>1
    <3> QED
      BY <3>1, <3>2, <3>3
  <2> QED
    BY <2>1, <2>2
<1>2. SUBSET S \subseteq B
  <2> HIDE DEF B
  <2> QED
    BY <1>1, SubsetInduction
<1> QED
  BY <1>2

\* Any element can be taken out first.
LEMMA SumRemove ==
    ASSUME NEW S, IsFiniteSet(S), NEW f, \A x \in S : f[x] \in Int, NEW e \in S
    PROVE  SumFunctionOnSet(f, S) = f[e] + SumFunctionOnSet(f, S \ {e})
<1> DEFINE Sm(s) == SumFunctionOnSet(f, s)
           B == {s \in SUBSET S : \A x \in s : Sm(s) = f[x] + Sm(s \ {x})}
<1>0. \A s \in SUBSET S : IsFiniteSet(s) /\ Sm(s) \in Int
  BY FS_Subset, SumInt
<1>1. ASSUME NEW s \in SUBSET S, \A t \in SUBSET s : t # s => t \in B
      PROVE  s \in B
  <2> SUFFICES ASSUME NEW x \in s PROVE Sm(s) = f[x] + Sm(s \ {x})
    OBVIOUS
  <2> DEFINE p == Pick(s)
  <2>1. p \in s
    BY PickIn
  <2>2. Sm(s) = f[p] + Sm(s \ {p})
    BY <1>0, SumPick
  <2>3. CASE x = p
    BY <2>2, <2>3
  <2>4. CASE x # p
    <3> HIDE DEF p
    <3>1. s \ {p} \in B /\ s \ {x} \in B
      BY <2>1, <1>1
    <3>2. Sm(s \ {p}) = f[x] + Sm((s \ {p}) \ {x}) /\ Sm(s \ {x}) = f[p] + Sm((s \ {x}) \ {p})
      BY <2>1, <2>4, <3>1
    <3>3. (s \ {p}) \ {x} = (s \ {x}) \ {p}
      OBVIOUS
    <3>4. /\ f[x] \in Int /\ f[p] \in Int
          /\ Sm((s \ {x}) \ {p}) \in Int
      BY <1>0, <2>1
    <3>5. Sm(s \ {p}) = f[x] + Sm((s \ {x}) \ {p})
      BY <3>2, <3>3
    <3> HIDE DEF Sm
    <3> QED
      BY <2>2, <3>2, <3>4, <3>5
  <2> QED
    BY <2>3, <2>4
<1>2. SUBSET S \subseteq B
  <2> HIDE DEF B
  <2> QED
    BY <1>1, SubsetInduction
<1> QED
  BY <1>2

\* Only the values on the set count.
LEMMA SumSame ==
    ASSUME NEW S, IsFiniteSet(S), NEW f, NEW g,
           \A x \in S : f[x] \in Int /\ g[x] = f[x]
    PROVE  SumFunctionOnSet(g, S) = SumFunctionOnSet(f, S)
<1> DEFINE B == {s \in SUBSET S : SumFunctionOnSet(g, s) = SumFunctionOnSet(f, s)}
<1>1. ASSUME NEW s \in SUBSET S, \A t \in SUBSET s : t # s => t \in B
      PROVE  s \in B
  <2>1. CASE s = {}
    BY <2>1, SumEmpty
  <2>2. CASE s # {}
    <3>1. Pick(s) \in s /\ IsFiniteSet(s)
      BY <2>2, PickIn, FS_Subset
    <3>2. /\ SumFunctionOnSet(f, s) = f[Pick(s)] + SumFunctionOnSet(f, s \ {Pick(s)})
          /\ SumFunctionOnSet(g, s) = g[Pick(s)] + SumFunctionOnSet(g, s \ {Pick(s)})
      BY <2>2, <3>1, SumPick
    <3>3. SumFunctionOnSet(g, s \ {Pick(s)}) = SumFunctionOnSet(f, s \ {Pick(s)})
      BY <3>1, <1>1
    <3> QED
      BY <3>1, <3>2, <3>3
  <2> QED
    BY <2>1, <2>2
<1>2. SUBSET S \subseteq B
  <2> HIDE DEF B
  <2> QED
    BY <1>1, SubsetInduction
<1> QED
  BY <1>2

\* A sum changes by what one of its terms changes by.
LEMMA SumChange ==
    ASSUME NEW S, IsFiniteSet(S), NEW f, NEW g, NEW e \in S,
           \A x \in S : f[x] \in Int /\ g[x] \in Int,
           \A x \in S \ {e} : g[x] = f[x]
    PROVE  SumFunctionOnSet(g, S) = SumFunctionOnSet(f, S) + (g[e] - f[e])
<1> DEFINE R == S \ {e}
<1>1. IsFiniteSet(R)
  BY FS_Subset
<1>2. SumFunctionOnSet(g, R) = SumFunctionOnSet(f, R)
  BY <1>1, SumSame
<1>3. SumFunctionOnSet(f, R) \in Int
  BY <1>1, SumInt
<1>4. /\ SumFunctionOnSet(f, S) = f[e] + SumFunctionOnSet(f, R)
      /\ SumFunctionOnSet(g, S) = g[e] + SumFunctionOnSet(g, R)
  BY SumRemove
<1> QED
  BY <1>2, <1>3, <1>4

\* The sum of terms that are all zero, and of terms that are none of them negative.
LEMMA SumZero ==
    ASSUME NEW S, IsFiniteSet(S), NEW f, \A x \in S : f[x] = 0
    PROVE  SumFunctionOnSet(f, S) = 0
<1> DEFINE B == {s \in SUBSET S : SumFunctionOnSet(f, s) = 0}
<1>1. ASSUME NEW s \in SUBSET S, \A t \in SUBSET s : t # s => t \in B
      PROVE  s \in B
  <2>1. CASE s = {}
    BY <2>1, SumEmpty
  <2>2. CASE s # {}
    <3>1. Pick(s) \in s /\ IsFiniteSet(s)
      BY <2>2, PickIn, FS_Subset
    <3>2. SumFunctionOnSet(f, s) = f[Pick(s)] + SumFunctionOnSet(f, s \ {Pick(s)})
      BY <2>2, <3>1, SumPick
    <3>3. SumFunctionOnSet(f, s \ {Pick(s)}) = 0
      BY <3>1, <1>1
    <3> QED
      BY <3>1, <3>2, <3>3
  <2> QED
    BY <2>1, <2>2
<1>2. SUBSET S \subseteq B
  <2> HIDE DEF B
  <2> QED
    BY <1>1, SubsetInduction
<1> QED
  BY <1>2

LEMMA SumNat ==
    ASSUME NEW S, IsFiniteSet(S), NEW f, \A x \in S : f[x] \in Nat
    PROVE  SumFunctionOnSet(f, S) \in Nat
<1> DEFINE B == {s \in SUBSET S : SumFunctionOnSet(f, s) \in Nat}
<1>1. ASSUME NEW s \in SUBSET S, \A t \in SUBSET s : t # s => t \in B
      PROVE  s \in B
  <2>1. CASE s = {}
    BY <2>1, SumEmpty
  <2>2. CASE s # {}
    <3>1. Pick(s) \in s /\ IsFiniteSet(s)
      BY <2>2, PickIn, FS_Subset
    <3>2. SumFunctionOnSet(f, s) = f[Pick(s)] + SumFunctionOnSet(f, s \ {Pick(s)})
      BY <2>2, <3>1, SumPick
    <3>3. SumFunctionOnSet(f, s \ {Pick(s)}) \in Nat
      BY <3>1, <1>1
    <3> QED
      BY <3>1, <3>2, <3>3
  <2> QED
    BY <2>1, <2>2
<1>2. SUBSET S \subseteq B
  <2> HIDE DEF B
  <2> QED
    BY <1>1, SubsetInduction
<1> QED
  BY <1>2

\* Two sums over one set are added term by term.
LEMMA SumAdd ==
    ASSUME NEW S, IsFiniteSet(S), NEW f, NEW g, NEW h,
           \A x \in S : f[x] \in Int /\ g[x] \in Int /\ h[x] = f[x] + g[x]
    PROVE  SumFunctionOnSet(h, S) = SumFunctionOnSet(f, S) + SumFunctionOnSet(g, S)
<1> DEFINE Sm(k, s) == SumFunctionOnSet(k, s)
           B == {s \in SUBSET S : Sm(h, s) = Sm(f, s) + Sm(g, s)}
<1>1. ASSUME NEW s \in SUBSET S, \A t \in SUBSET s : t # s => t \in B
      PROVE  s \in B
  <2>1. CASE s = {}
    <3>1. Sm(h, s) = 0 /\ Sm(f, s) = 0 /\ Sm(g, s) = 0
      BY <2>1, SumEmpty
    <3> QED
      BY <3>1
  <2>2. CASE s # {}
    <3> DEFINE p == Pick(s)
    <3>1. p \in s /\ IsFiniteSet(s) /\ IsFiniteSet(s \ {p})
      BY <2>2, PickIn, FS_Subset
    <3>2. /\ Sm(f, s) = f[p] + Sm(f, s \ {p})
          /\ Sm(g, s) = g[p] + Sm(g, s \ {p})
          /\ Sm(h, s) = h[p] + Sm(h, s \ {p})
      BY <2>2, <3>1, SumPick
    <3>3. Sm(h, s \ {p}) = Sm(f, s \ {p}) + Sm(g, s \ {p})
      BY <3>1, <1>1
    <3>4. Sm(f, s \ {p}) \in Int /\ Sm(g, s \ {p}) \in Int
      BY <3>1, SumInt
    <3> HIDE DEF p, Sm
    <3> QED
      BY <3>1, <3>2, <3>3, <3>4
  <2> QED
    BY <2>1, <2>2
<1>2. SUBSET S \subseteq B
  <2> HIDE DEF B
  <2> QED
    BY <1>1, SubsetInduction
<1> QED
  BY <1>2

\* A set can be split, and an element that is not in it added.
LEMMA SumSplit ==
    ASSUME NEW S, IsFiniteSet(S), NEW f, \A x \in S : f[x] \in Int, NEW T \in SUBSET S
    PROVE  SumFunctionOnSet(f, S) = SumFunctionOnSet(f, T) + SumFunctionOnSet(f, S \ T)
<1> DEFINE Sm(s) == SumFunctionOnSet(f, s)
           B == {s \in SUBSET T : Sm(s \cup (S \ T)) = Sm(s) + Sm(S \ T)}
<1>0. IsFiniteSet(T) /\ \A s \in SUBSET S : IsFiniteSet(s) /\ Sm(s) \in Int
  BY FS_Subset, SumInt
<1>1. ASSUME NEW s \in SUBSET T, \A t \in SUBSET s : t # s => t \in B
      PROVE  s \in B
  <2>1. CASE s = {}
    <3>1. Sm(s) = 0 /\ s \cup (S \ T) = S \ T /\ Sm(S \ T) \in Int
      BY <2>1, <1>0, SumEmpty
    <3> QED
      BY <3>1
  <2>2. CASE s # {}
    <3> DEFINE p == Pick(s)
               u == s \cup (S \ T)
    <3>1. p \in s /\ p \in u /\ s \in SUBSET S /\ u \in SUBSET S /\ f[p] \in Int
      BY <2>2, PickIn
    <3>2. /\ Sm(s) = f[p] + Sm(s \ {p})
          /\ Sm(u) = f[p] + Sm(u \ {p})
      <4> HIDE DEF u, p
      <4>1. IsFiniteSet(s) /\ IsFiniteSet(u) /\ (\A x \in s \cup u : f[x] \in Int)
        BY <3>1, <1>0
      <4> QED
        BY <3>1, <4>1, SumRemove
    <3>3. u \ {p} = (s \ {p}) \cup (S \ T)
      BY <3>1
    <3>4. Sm(u \ {p}) = Sm(s \ {p}) + Sm(S \ T)
      BY <3>1, <3>3, <1>1
    <3>5. Sm(s \ {p}) \in Int /\ Sm(S \ T) \in Int
      BY <3>1, <1>0
    <3> HIDE DEF p, u, Sm
    <3>6. Sm(u) = Sm(s) + Sm(S \ T)
      BY <3>1, <3>2, <3>4, <3>5
    <3> QED
      BY <3>6 DEF u
  <2> QED
    BY <2>1, <2>2
<1>2. SUBSET T \subseteq B
  <2> HIDE DEF B
  <2> QED
    BY <1>0, <1>1, SubsetInduction
<1>3. T \in B /\ T \cup (S \ T) = S
  BY <1>2
<1> QED
  BY <1>3

LEMMA SumInsert ==
    ASSUME NEW S, IsFiniteSet(S), NEW f, \A x \in S : f[x] \in Int,
           NEW e, e \notin S, f[e] \in Int
    PROVE  SumFunctionOnSet(f, S \cup {e}) = f[e] + SumFunctionOnSet(f, S)
<1>1. IsFiniteSet(S \cup {e}) /\ (S \cup {e}) \ {e} = S
  BY FS_AddElement
<1> QED
  BY <1>1, SumRemove

\* A sum does not depend on how its elements are called.
LEMMA SumImage ==
    ASSUME NEW S, IsFiniteSet(S), NEW f, NEW g, NEW m,
           \A x \in S : f[x] \in Int /\ g[m[x]] = f[x],
           \A x, y \in S : m[x] = m[y] => x = y
    PROVE  SumFunctionOnSet(g, {m[x] : x \in S}) = SumFunctionOnSet(f, S)
<1> DEFINE Im(s) == {m[x] : x \in s}
           B == {s \in SUBSET S : IsFiniteSet(Im(s)) /\ SumFunctionOnSet(g, Im(s)) = SumFunctionOnSet(f, s)}
<1>1. ASSUME NEW s \in SUBSET S, \A t \in SUBSET s : t # s => t \in B
      PROVE  s \in B
  <2>1. CASE s = {}
    <3>1. Im({}) = {}
      OBVIOUS
    <3> HIDE DEF Im
    <3> QED
      BY <2>1, <3>1, SumEmpty, FS_EmptySet
  <2>2. CASE s # {}
    <3>1. PICK e : e \in s
      BY <2>2
    <3> DEFINE r == s \ {e}
    <3>2. r \in B /\ IsFiniteSet(s) /\ e \in S /\ r \subseteq S
      BY <1>1, <3>1, FS_Subset
    <3>3. Im(s) = Im(r) \cup {m[e]} /\ m[e] \notin Im(r)
      BY <3>1
    <3>4. \A y \in Im(r) : g[y] \in Int
      OBVIOUS
    <3>5. g[m[e]] = f[e] /\ f[e] \in Int /\ \A x \in s : f[x] \in Int
      BY <3>1
    <3>6. IsFiniteSet(Im(r)) /\ SumFunctionOnSet(g, Im(r)) = SumFunctionOnSet(f, r)
      BY <3>2
    <3> HIDE DEF r, Im
    <3>7. IsFiniteSet(Im(s))
      BY <3>3, <3>6, FS_AddElement
    <3>8. SumFunctionOnSet(g, Im(s)) = g[m[e]] + SumFunctionOnSet(g, Im(r))
      BY <3>3, <3>4, <3>5, <3>6, SumInsert
    <3>9. SumFunctionOnSet(f, s) = f[e] + SumFunctionOnSet(f, r)
      BY <3>1, <3>2, <3>5, SumRemove DEF r
    <3> QED
      BY <3>5, <3>6, <3>7, <3>8, <3>9
  <2> QED
    BY <2>1, <2>2
<1> HIDE DEF B
<1>2. SUBSET S \subseteq B
  BY <1>1, SubsetInduction
<1>3. S \in B
  BY <1>2
<1> QED
  BY <1>3 DEF B

\* The image of a finite set is finite.
LEMMA ImageFinite ==
    ASSUME NEW S, IsFiniteSet(S), NEW m
    PROVE  IsFiniteSet({m[x] : x \in S})
<1> DEFINE T == {m[x] : x \in S}
           f == [x \in S |-> m[x]]
<1>1. f \in [S -> T] /\ \A t \in T : \E x \in S : f[x] = t
  OBVIOUS
<1> HIDE DEF f, T
<1>2. f \in Surjection(S, T)
  BY <1>1 DEF Surjection
<1>3. IsFiniteSet(T)
  BY <1>2, FS_Surjection
<1> QED
  BY <1>3 DEF T
=============================================================================
