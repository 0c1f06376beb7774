---------------------------- MODULE SumTheorems ----------------------------
(***************************************************************************)
(* Sums over finite sets.  The models charge and reserve bytes one upload  *)
(* at a time; their invariants speak of the sum over all of them.          *)
(*                                                                         *)
(* A sum is a fold, which is a recursive function.  Induction is by the    *)
(* least number that would be a counterexample.                            *)
(***************************************************************************)
EXTENDS Integers, FiniteSets, FiniteSetsExt, FiniteSetTheorems, WellFoundedInduction, TLAPS

Total(f, S) == MapThenSumSet(LAMBDA x : f[x], S)

\* The recursive function that the fold is.
Picked(s) == CHOOSE x \in s : TRUE
Rest(s) == s \ {Picked(s)}
Summed(f, s, h) == IF s = {} THEN 0 ELSE f[Picked(s)] + h[Rest(s)]
Sums(f, S) == CHOOSE h : h = [s \in SUBSET S |-> Summed(f, s, h)]

\* The fold of the community modules is that function.
LEMMA TotalIsSums == ASSUME NEW f, NEW S PROVE Total(f, S) = Sums(f, S)[S]
BY DEF Total, MapThenSumSet, MapThenFoldSet, Sums, Summed, Picked, Rest

-----------------------------------------------------------------------------
(* Induction *)

\* A set of numbers that is not empty has a least one.
LEMMA LeastNumber ==
  ASSUME NEW T, T \subseteq Nat, T # {}
  PROVE  \E n \in T : \A m \in T : n <= m
<1> DEFINE Less == OpToRel(<, Nat)
<1>1. IsWellFoundedOn(Less, Nat) BY NatLessThanWellFounded
<1>2. \A m, n \in Nat : m < n => <<m, n>> \in Less BY DEF OpToRel
<1> HIDE DEF Less
<1>3. PICK n \in T : \A m \in T : ~(<<m, n>> \in Less) BY <1>1, WFMin
<1>4. ASSUME NEW m \in T PROVE n <= m
  <2>1. m \in Nat /\ n \in Nat OBVIOUS
  <2>2. ~(m < n) BY <1>2, <1>3, <2>1, Zenon
  <2> QED BY <2>1, <2>2
<1> QED BY <1>4

\* What holds of a finite set whenever it holds of every smaller one holds of
\* every set: Good are the subsets of S that it holds of.
LEMMA SmallerFirst ==
  ASSUME NEW S, IsFiniteSet(S), NEW Good,
         \A s \in SUBSET S :
           (\A t \in SUBSET S : Cardinality(t) < Cardinality(s) => t \in Good) => s \in Good
  PROVE  \A s \in SUBSET S : s \in Good
<1> DEFINE Bad == {s \in SUBSET S : s \notin Good}
           sizes == {Cardinality(s) : s \in Bad}
<1>0. \A s \in SUBSET S : Cardinality(s) \in Nat BY FS_Subset, FS_CardinalityType
<1>1. SUFFICES ASSUME Bad # {} PROVE FALSE OBVIOUS
<1>2. sizes \subseteq Nat /\ sizes # {} BY <1>0, <1>1
<1>3. PICK n \in sizes : \A m \in sizes : n <= m BY <1>2, LeastNumber
<1>4. PICK s \in Bad : Cardinality(s) = n BY <1>3
<1>5. \A t \in SUBSET S : Cardinality(t) < Cardinality(s) => t \in Good
  <2> SUFFICES ASSUME NEW t \in SUBSET S, Cardinality(t) < Cardinality(s), t \notin Good
               PROVE  FALSE
    OBVIOUS
  <2>1. Cardinality(t) \in sizes OBVIOUS
  <2>2. n <= Cardinality(t) BY <2>1, <1>3
  <2>3. Cardinality(t) \in Nat /\ Cardinality(s) \in Nat BY <1>0
  <2> QED BY <2>2, <2>3, <1>4
<1> QED BY <1>4, <1>5

\* Without the element picked, a set is smaller.
LEMMA RestIsSmaller ==
  ASSUME NEW s, IsFiniteSet(s), s # {}
  PROVE  /\ Picked(s) \in s /\ Rest(s) \subseteq s /\ IsFiniteSet(Rest(s))
         /\ Cardinality(Rest(s)) \in Nat /\ Cardinality(s) = Cardinality(Rest(s)) + 1
<1>1. Picked(s) \in s BY DEF Picked
<1>2. /\ IsFiniteSet(s \ {Picked(s)})
      /\ Cardinality(s \ {Picked(s)}) = Cardinality(s) - 1
  BY <1>1, FS_RemoveElement
<1>3. Cardinality(s) \in Nat /\ Cardinality(s \ {Picked(s)}) \in Nat BY <1>2, FS_CardinalityType
<1> QED BY <1>1, <1>2, <1>3 DEF Rest

-----------------------------------------------------------------------------
(* The sum of a set is that of one element and the sum of the others *)

\* The recursion has a solution: one that is right for the sets of up to n elements
\* makes one that is right for those of up to n + 1.
LEMMA SumsEquation ==
  ASSUME NEW f, NEW S, IsFiniteSet(S)
  PROVE  \A s \in SUBSET S : Sums(f, S)[s] = Summed(f, s, Sums(f, S))
<1> DEFINE Right(h, n) ==
             /\ h = [s \in SUBSET S |-> h[s]]
             /\ \A s \in SUBSET S : Cardinality(s) <= n => h[s] = Summed(f, s, h)
           Missing == {n \in Nat : \A h : ~Right(h, n)}
<1>0. \A s \in SUBSET S : IsFiniteSet(s) /\ Cardinality(s) \in Nat
  BY FS_Subset, FS_CardinalityType
<1>1. Missing = {}
  <2>1. SUFFICES ASSUME Missing # {} PROVE FALSE OBVIOUS
  <2>2. PICK n \in Missing : \A m \in Missing : n <= m BY <2>1, LeastNumber
  <2>3. CASE n = 0
    <3> DEFINE zero == [s \in SUBSET S |-> 0]
    <3>1. \A s \in SUBSET S : Cardinality(s) <= 0 => s = {} BY <1>0, FS_EmptySet
    <3>2. Right(zero, 0) BY <3>1 DEF Summed
    <3> QED BY <2>2, <2>3, <3>2
  <2>4. CASE n # 0
    <3> DEFINE m == n - 1
    <3>0. n \in Nat BY <2>2
    <3>1. m \in Nat /\ ~(n <= m) BY <3>0, <2>4
    <3> HIDE DEF m
    <3>2. PICK h : Right(h, m) BY <3>1, <2>2
    <3> DEFINE g == [s \in SUBSET S |-> Summed(f, s, h)]
    <3>3. ASSUME NEW s \in SUBSET S, Cardinality(s) <= n, s # {} PROVE g[s] = Summed(f, s, g)
      <4>1. Rest(s) \in SUBSET S /\ Cardinality(Rest(s)) <= m BY <3>0, <3>3, <1>0, RestIsSmaller DEF m
      <4>2. g[Rest(s)] = h[Rest(s)] BY <4>1, <3>2
      <4> QED BY <3>3, <4>2 DEF Summed
    <3>4. g[{}] = Summed(f, {}, g) BY DEF Summed
    <3>5. Right(g, n) BY <3>3, <3>4
    <3> QED BY <3>5, <2>2
  <2> QED BY <2>3, <2>4
<1>2. Cardinality(S) \in Nat BY <1>0
<1>3. PICK h : Right(h, Cardinality(S)) BY <1>1, <1>2
<1>4. \A s \in SUBSET S : Cardinality(s) <= Cardinality(S) BY FS_Subset
<1>5. h = [s \in SUBSET S |-> h[s]] /\ \A s \in SUBSET S : h[s] = Summed(f, s, h)
  BY <1>3, <1>4
<1> HIDE DEF Right
<1>6. h = [s \in SUBSET S |-> Summed(f, s, h)] BY <1>5
<1>7. Sums(f, S) = [s \in SUBSET S |-> Summed(f, s, Sums(f, S))] BY <1>6 DEF Sums
<1> QED BY <1>7

\* The sums over the subsets of a part are those over its subsets in the whole.
LEMMA SumsOfPart ==
  ASSUME NEW f, NEW S, IsFiniteSet(S), NEW T, T \subseteq S
  PROVE  Sums(f, T)[T] = Sums(f, S)[T]
<1> DEFINE Good == {t \in SUBSET T : Sums(f, T)[t] = Sums(f, S)[t]}
<1>1. IsFiniteSet(T) BY FS_Subset
<1>2. ASSUME NEW s \in SUBSET T,
             \A t \in SUBSET T : Cardinality(t) < Cardinality(s) => t \in Good
      PROVE  s \in Good
  <2>1. Sums(f, T)[s] = Summed(f, s, Sums(f, T)) BY <1>1, SumsEquation
  <2>2. Sums(f, S)[s] = Summed(f, s, Sums(f, S)) BY SumsEquation
  <2>3. CASE s = {} BY <2>1, <2>2, <2>3 DEF Summed
  <2>4. CASE s # {}
    <3>1. IsFiniteSet(s) BY <1>1, FS_Subset
    <3>2. Rest(s) \in SUBSET T /\ Cardinality(Rest(s)) < Cardinality(s) BY <2>4, <3>1, RestIsSmaller
    <3> QED BY <1>2, <3>2, <2>1, <2>2, <2>4 DEF Summed
  <2> QED BY <2>3, <2>4
<1> HIDE DEF Good
<1>3. T \in Good BY <1>1, <1>2, SmallerFirst
<1> QED BY <1>3 DEF Good

\* The sum over no element is 0, and over others that of the element picked and of
\* the rest.
LEMMA TotalEmpty == ASSUME NEW f PROVE Total(f, {}) = 0
BY TotalIsSums, SumsEquation, FS_EmptySet DEF Summed

LEMMA TotalOfPicked ==
  ASSUME NEW f, NEW S, IsFiniteSet(S), S # {}
  PROVE  Total(f, S) = f[Picked(S)] + Total(f, Rest(S))
<1>1. Total(f, S) = f[Picked(S)] + Sums(f, S)[Rest(S)] BY TotalIsSums, SumsEquation DEF Summed
<1>2. Sums(f, Rest(S))[Rest(S)] = Sums(f, S)[Rest(S)] BY RestIsSmaller, SumsOfPart
<1> QED BY <1>1, <1>2, TotalIsSums

-----------------------------------------------------------------------------
(* What the models' proofs use *)

\* The sum of sizes is a size.
LEMMA TotalType ==
  ASSUME NEW S, IsFiniteSet(S), NEW f, \A x \in S : f[x] \in Nat
  PROVE  Total(f, S) \in Nat
<1> DEFINE Good == {s \in SUBSET S : Total(f, s) \in Nat}
<1>1. ASSUME NEW s \in SUBSET S,
             \A t \in SUBSET S : Cardinality(t) < Cardinality(s) => t \in Good
      PROVE  s \in Good
  <2>1. CASE s = {} BY <2>1, TotalEmpty
  <2>2. CASE s # {}
    <3>1. IsFiniteSet(s) BY FS_Subset
    <3>2. /\ Rest(s) \in SUBSET S /\ Cardinality(Rest(s)) < Cardinality(s)
          /\ Picked(s) \in S
      BY <2>2, <3>1, RestIsSmaller
    <3>3. Total(f, Rest(s)) \in Nat BY <1>1, <3>2
    <3>4. Total(f, s) = f[Picked(s)] + Total(f, Rest(s)) BY <2>2, <3>1, TotalOfPicked
    <3> QED BY <3>2, <3>3, <3>4
  <2> QED BY <2>1, <2>2
<1> HIDE DEF Good
<1>2. S \in Good BY <1>1, SmallerFirst
<1> QED BY <1>2 DEF Good

\* Any element can be taken out of a sum.
LEMMA TotalRemove ==
  ASSUME NEW S, IsFiniteSet(S), NEW f, \A x \in S : f[x] \in Nat, NEW y \in S
  PROVE  Total(f, S) = Total(f, S \ {y}) + f[y]
<1> DEFINE Good == {s \in SUBSET S : \A x \in s : Total(f, s) = Total(f, s \ {x}) + f[x]}
<1>1. ASSUME NEW s \in SUBSET S, NEW x \in s,
             \A t \in SUBSET S : Cardinality(t) < Cardinality(s) => t \in Good
      PROVE  Total(f, s) = Total(f, s \ {x}) + f[x]
  <2> DEFINE p == Picked(s)
  <2>0. IsFiniteSet(s) BY FS_Subset
  <2>1. /\ p \in s /\ Rest(s) \in SUBSET S /\ Cardinality(Rest(s)) < Cardinality(s)
    BY <2>0, RestIsSmaller
  <2>6. Rest(s) = s \ {p} BY DEF Rest
  <2>2. Total(f, s) = f[p] + Total(f, s \ {p}) BY <2>0, <2>6, TotalOfPicked
  <2>3. \A t \in SUBSET S : Total(f, t) \in Nat
    BY FS_Subset, TotalType
  <2> HIDE DEF p
  <2>4. CASE x = p BY <2>1, <2>2, <2>3, <2>4
  <2>5. CASE x # p
    <3>1. Total(f, s \ {p}) = Total(f, (s \ {p}) \ {x}) + f[x] BY <1>1, <2>1, <2>6, <2>5
    <3>2. s \ {x} \in SUBSET S /\ p \in s \ {x} BY <2>1, <2>5
    <3>3. Cardinality(s \ {x}) < Cardinality(s)
      <4>1. Cardinality(s \ {x}) = Cardinality(s) - 1 /\ Cardinality(s) \in Nat
        BY <2>0, FS_RemoveElement, FS_CardinalityType
      <4> QED BY <4>1
    <3>4. Total(f, s \ {x}) = Total(f, (s \ {x}) \ {p}) + f[p] BY <1>1, <3>2, <3>3
    <3>5. (s \ {x}) \ {p} = (s \ {p}) \ {x} OBVIOUS
    <3>6. /\ Total(f, (s \ {p}) \ {x}) \in Nat /\ Total(f, s) \in Nat /\ Total(f, s \ {x}) \in Nat
          /\ f[p] \in Nat /\ f[x] \in Nat
      BY <2>1, <2>3
    <3> QED BY <2>2, <3>1, <3>4, <3>5, <3>6
  <2> QED BY <2>4, <2>5
<1>2. \A s \in SUBSET S :
        (\A t \in SUBSET S : Cardinality(t) < Cardinality(s) => t \in Good) => s \in Good
  BY <1>1
<1> HIDE DEF Good
<1>3. S \in Good BY <1>2, SmallerFirst
<1> QED BY <1>3 DEF Good

\* A sum grows by the size of what is added.
LEMMA TotalAdd ==
  ASSUME NEW S, IsFiniteSet(S), NEW f, \A x \in S : f[x] \in Nat,
         NEW y, y \notin S, f[y] \in Nat
  PROVE  Total(f, S \cup {y}) = Total(f, S) + f[y]
<1>1. IsFiniteSet(S \cup {y}) BY FS_AddElement
<1>2. (S \cup {y}) \ {y} = S OBVIOUS
<1> QED BY <1>1, <1>2, TotalRemove

\* A part has at most the sum of the whole.
LEMMA TotalMonotone ==
  ASSUME NEW S, IsFiniteSet(S), NEW f, \A x \in S : f[x] \in Nat, NEW T, T \subseteq S
  PROVE  Total(f, T) <= Total(f, S)
<1> DEFINE Good == {s \in SUBSET S : \A t \in SUBSET s : Total(f, t) <= Total(f, s)}
<1>0. \A s \in SUBSET S : IsFiniteSet(s) /\ Total(f, s) \in Nat BY FS_Subset, TotalType
<1>1. ASSUME NEW s \in SUBSET S, NEW t \in SUBSET s,
             \A r \in SUBSET S : Cardinality(r) < Cardinality(s) => r \in Good
      PROVE  Total(f, t) <= Total(f, s)
  <2>1. CASE t = s BY <1>0, <2>1
  <2>2. CASE t # s
    <3>1. PICK x \in s : x \notin t BY <2>2
    <3>2. Cardinality(s \ {x}) < Cardinality(s)
      <4>1. Cardinality(s \ {x}) = Cardinality(s) - 1 /\ Cardinality(s) \in Nat
        BY <1>0, FS_RemoveElement, FS_CardinalityType
      <4> QED BY <4>1
    <3>3. Total(f, t) <= Total(f, s \ {x}) BY <1>1, <3>1, <3>2
    <3>4. Total(f, s) = Total(f, s \ {x}) + f[x] BY <1>0, TotalRemove
    <3>5. Total(f, t) \in Nat /\ Total(f, s \ {x}) \in Nat /\ f[x] \in Nat BY <1>0
    <3> QED BY <3>3, <3>4, <3>5
  <2> QED BY <2>1, <2>2
<1>2. \A s \in SUBSET S :
        (\A t \in SUBSET S : Cardinality(t) < Cardinality(s) => t \in Good) => s \in Good
  BY <1>1
<1> HIDE DEF Good
<1>3. S \in Good BY <1>2, SmallerFirst
<1> QED BY <1>3 DEF Good

\* The facts about a sum of sizes that counters need.
LEMMA TotalFacts ==
  ASSUME NEW U, IsFiniteSet(U), NEW f \in [U -> Nat], NEW S \in SUBSET U
  PROVE  /\ Total(f, S) \in Nat
         /\ \A u \in U : f[u] \in Nat
         /\ \A u \in U : u \notin S => Total(f, S \cup {u}) = Total(f, S) + f[u]
         /\ \A u \in S : Total(f, S) = Total(f, S \ {u}) + f[u]
         /\ \A T \in SUBSET S : Total(f, T) <= Total(f, S)
<1>1. IsFiniteSet(S) BY FS_Subset
<1>2. \A u \in U : f[u] \in Nat OBVIOUS
<1>3. Total(f, S) \in Nat BY <1>1, <1>2, TotalType
<1>4. ASSUME NEW u \in U, u \notin S PROVE Total(f, S \cup {u}) = Total(f, S) + f[u]
  BY <1>1, <1>2, <1>4, TotalAdd
<1>5. ASSUME NEW u \in S PROVE Total(f, S) = Total(f, S \ {u}) + f[u]
  BY <1>1, <1>2, TotalRemove
<1>6. ASSUME NEW T \in SUBSET S PROVE Total(f, T) <= Total(f, S)
  BY <1>1, <1>2, TotalMonotone
<1> QED BY <1>2, <1>3, <1>4, <1>5, <1>6

=============================================================================
