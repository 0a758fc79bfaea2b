----------------------------- MODULE DataLemmas -----------------------------
(***************************************************************************)
(* Facts about numbers, finite sets, sums, loops and sequences that the    *)
(* proofs of this project need.                                            *)
(*                                                                         *)
(* The induction theorems of the library take an operator as a parameter.  *)
(* Here a property of numbers or of subsets is a set, and induction is the *)
(* existence of a least, or minimal, element of its complement.            *)
(***************************************************************************)
EXTENDS FiniteSetTheorems, SequencesExt, TLAPS

------------------------------------------------------------------------------
(* Induction. *)

\* The order of the numbers as the library has it, as a relation.
LEMMA LessThanOnNat == OpToRel(<, Nat) = {ss \in Nat \X Nat : ss[1] < ss[2]}
BY DEF OpToRel

\* Every nonempty set of natural numbers has a least element.
LEMMA LeastNumber ==
  ASSUME NEW T, T \subseteq Nat, T # {}
  PROVE  \E x \in T : \A y \in T : x <= y
<1> DEFINE R == {ss \in Nat \X Nat : ss[1] < ss[2]}
<1>1. IsWellFoundedOn(R, Nat)
  BY LessThanOnNat, NatLessThanWellFounded
<1> HIDE DEF R
<1>2. PICK x \in T : \A y \in T : ~ (<<y, x>> \in R)
  BY <1>1, WFMin
<1>3. ASSUME NEW y \in T
      PROVE  x <= y
  <2>1. x \in Nat /\ y \in Nat /\ <<y, x>> \notin R
    BY <1>2
  <2> QED
    BY <2>1 DEF R
<1> QED
  BY <1>2, <1>3

\* Mathematical induction, for a property given as a set.
LEMMA NatInductive ==
  ASSUME NEW T, 0 \in T, \A n \in Nat : n \in T => n + 1 \in T
  PROVE  Nat \subseteq T
<1>1. SUFFICES ASSUME Nat \ T # {} PROVE FALSE
  OBVIOUS
<1>2. PICK x \in Nat \ T : \A y \in Nat \ T : x <= y
  BY <1>1, LeastNumber
<1>3. x # 0
  BY <1>2
<1>4. x - 1 \in Nat /\ x - 1 \in T
  BY <1>2, <1>3
<1> QED
  BY <1>4, <1>2

\* Every nonempty set of subsets of a finite set has a minimal element.
LEMMA MinimalSubset ==
  ASSUME NEW S, IsFiniteSet(S), NEW T, T \subseteq SUBSET S, T # {}
  PROVE  \E s \in T : \A u \in T : u \subseteq s => u = s
<1>1. IsWellFoundedOn(StrictSubsetOrdering(S), SUBSET S)
  BY FS_StrictSubsetOrderingWellFounded, FS_FiniteSubsetsOfFinite
<1>2. PICK s \in T : \A u \in T : ~ (<<u, s>> \in StrictSubsetOrdering(S))
  BY <1>1, WFMin
<1>3. ASSUME NEW u \in T, u \subseteq s
      PROVE  u = s
  <2>1. SUFFICES ASSUME u # s PROVE FALSE
    OBVIOUS
  <2>2. <<u, s>> \in StrictSubsetOrdering(S)
    BY <1>3, <2>1 DEF StrictSubsetOrdering
  <2> QED
    BY <1>2, <2>2
<1> QED
  BY <1>3

\* The first m of n numbers.
LEMMA FirstNumbers ==
  ASSUME NEW m \in Int, NEW n \in Int, m <= n
  PROVE  IsFiniteSet(1 .. m) /\ 1 .. m \subseteq 1 .. n
<1>1. 1 .. m \subseteq 1 .. n
  OBVIOUS
<1>2. IsFiniteSet(1 .. m)
  BY FS_Interval
<1> QED
  BY <1>1, <1>2

\* How many numbers there are from 1 to n.
LEMMA FirstCount ==
  ASSUME NEW n \in Nat
  PROVE  IsFiniteSet(1 .. n) /\ Cardinality(1 .. n) = n
<1>1. IsFiniteSet(1 .. n) /\ Cardinality(1 .. n) = IF 1 > n THEN 0 ELSE n - 1 + 1
  BY FS_Interval
<1> QED
  BY <1>1

\* A finite set of numbers has a largest and a smallest.
LEMMA HasExtremes ==
  ASSUME NEW S, IsFiniteSet(S), \A x \in S : x \in Int, S # {}
  PROVE  Max(S) \in S /\ Min(S) \in S
<1> DEFINE Has(s) == /\ \E x \in s : \A y \in s : x >= y
                     /\ \E x \in s : \A y \in s : x <= y
           T == {s \in SUBSET S : s # {} /\ ~ Has(s)}
<1>1. ASSUME T # {} PROVE FALSE
  <2>1. T \subseteq SUBSET S
    OBVIOUS
  <2>0. PICK s \in T : \A u \in T : u \subseteq s => u = s
    <3>1. T # {}
      BY <1>1
    <3> HIDE DEF T, Has
    <3> QED
      BY <3>1, <2>1, MinimalSubset
  <2>2. s \in SUBSET Int /\ s # {} /\ ~ Has(s)
    BY <2>0
  <2>3. PICK a \in s : TRUE
    BY <2>2
  <2> DEFINE rest == s \ {a}
  <2>4. CASE rest = {}
    <3>1. s = {a} /\ a \in Int
      BY <2>2, <2>3, <2>4
    <3> QED
      BY <2>2, <3>1
  <2>5. CASE rest # {}
    <3>1. rest \notin T /\ rest \in SUBSET S
      BY <2>0, <2>3
    <3>2. Has(rest)
      BY <2>5, <3>1
    <3>3. PICK x \in rest : \A y \in rest : x >= y
      BY <3>2
    <3>4. PICK z \in rest : \A y \in rest : z <= y
      BY <3>2
    <3>5. /\ s = rest \cup {a} /\ x \in s /\ z \in s
          /\ a \in Int /\ x \in Int /\ z \in Int /\ rest \subseteq Int
      BY <2>2, <2>3
    <3> HIDE DEF rest
    <3>6. \E m \in s : \A y \in s : m >= y
      <4>1. CASE a >= x
        BY <3>3, <3>5, <4>1
      <4>2. CASE ~ (a >= x)
        BY <3>3, <3>5, <4>2
      <4> QED
        BY <4>1, <4>2
    <3>7. \E m \in s : \A y \in s : m <= y
      <4>1. CASE a <= z
        BY <3>4, <3>5, <4>1
      <4>2. CASE ~ (a <= z)
        BY <3>4, <3>5, <4>2
      <4> QED
        BY <4>1, <4>2
    <3> QED
      BY <2>2, <3>6, <3>7
  <2> QED
    BY <2>4, <2>5
<1>2. Has(S)
  BY <1>1
<1> QED
  BY <1>2 DEF Max, Min

------------------------------------------------------------------------------
(* SumFunctionOnSet: the sum of the values of a function on a finite set. *)

Pick(s) == CHOOSE x \in s : TRUE

\* g is the table of the sums of fun on the subsets of S.
IsSum(fun, S, g) ==
  g = [s \in SUBSET S |-> IF s = {} THEN 0 ELSE fun[Pick(s)] + g[s \ {Pick(s)}]]

\* The library's sum is the last entry of such a table.
LEMMA SumUnfolded ==
  ASSUME NEW fun, NEW S
  PROVE  SumFunctionOnSet(fun, S) = (CHOOSE g : IsSum(fun, S, g))[S]
BY DEF SumFunctionOnSet, FoldFunctionOnSet, MapThenFoldSet, IsSum, Pick

\* The element a sum begins with is one of the set.
LEMMA PickIn ==
  ASSUME NEW s, s # {}
  PROVE  Pick(s) \in s
BY DEF Pick

\* The table exists: it can be continued from the subsets of n elements to
\* those of n + 1.
LEMMA SumExists ==
  ASSUME NEW fun, NEW S, IsFiniteSet(S)
  PROVE  \E g : IsSum(fun, S, g)
<1> DEFINE Small(n) == {s \in SUBSET S : Cardinality(s) <= n}
           Part(n, g) == g = [s \in Small(n) |-> IF s = {} THEN 0 ELSE fun[Pick(s)] + g[s \ {Pick(s)}]]
           T == {n \in Nat : \E g : Part(n, g)}
<1>1. \A s \in SUBSET S : IsFiniteSet(s) /\ Cardinality(s) \in Nat
  BY FS_Subset, FS_CardinalityType
<1>2. 0 \in T
  <2> DEFINE g0 == [s \in Small(0) |-> 0]
  <2>1. \A s \in Small(0) : s = {}
    BY <1>1, FS_EmptySet
  <2>2. Part(0, g0)
    BY <2>1
  <2> QED
    BY <2>2
<1>3. ASSUME NEW n \in Nat, n \in T
      PROVE  n + 1 \in T
  <2>1. PICK g : Part(n, g)
    BY <1>3
  <2> DEFINE h == [s \in Small(n + 1) |-> IF s = {} THEN 0 ELSE fun[Pick(s)] + g[s \ {Pick(s)}]]
  <2>2. ASSUME NEW s \in Small(n)
        PROVE  s \in Small(n + 1) /\ h[s] = g[s]
    <3>1. s \in Small(n + 1)
      BY <1>1
    <3>2. g[s] = IF s = {} THEN 0 ELSE fun[Pick(s)] + g[s \ {Pick(s)}]
      <4> HIDE DEF Small
      <4> QED
        BY <2>1
    <3>3. h[s] = IF s = {} THEN 0 ELSE fun[Pick(s)] + g[s \ {Pick(s)}]
      <4> HIDE DEF Small
      <4> QED
        BY <3>1
    <3> QED
      BY <3>1, <3>2, <3>3
  <2>3. ASSUME NEW s \in Small(n + 1), s # {}
        PROVE  s \ {Pick(s)} \in Small(n)
    <3>1. Cardinality(s \ {Pick(s)}) = Cardinality(s) - 1
      BY <1>1, <2>3, PickIn, FS_RemoveElement
    <3> QED
      BY <3>1, <1>1
  <2>4. ASSUME NEW s \in Small(n + 1)
        PROVE  h[s] = IF s = {} THEN 0 ELSE fun[Pick(s)] + h[s \ {Pick(s)}]
    BY <2>2, <2>3
  <2>5. Part(n + 1, h)
    <3> HIDE DEF Small
    <3>1. h = [s \in Small(n + 1) |-> h[s]]
      OBVIOUS
    <3> HIDE DEF h
    <3> QED
      BY <3>1, <2>4
  <2>6. \E k : Part(n + 1, k)
    <3> HIDE DEF h, Part
    <3> QED
      BY <2>5
  <2> HIDE DEF Part
  <2> QED
    BY <2>6
<1>4. Nat \subseteq T
  <2> HIDE DEF T
  <2> QED
    BY <1>2, <1>3, NatInductive
<1>5. Cardinality(S) \in Nat /\ Small(Cardinality(S)) = SUBSET S
  BY FS_Subset, FS_CardinalityType
<1>6. PICK g : Part(Cardinality(S), g)
  BY <1>4, <1>5
<1>7. IsSum(fun, S, g)
  BY <1>5, <1>6 DEF IsSum
<1> QED
  BY <1>7

\* Two tables agree where they both are, if the functions agree there.
LEMMA SumUnique ==
  ASSUME NEW f1, NEW S1, NEW g1, IsSum(f1, S1, g1),
         NEW f2, NEW S2, NEW g2, IsSum(f2, S2, g2),
         NEW S, IsFiniteSet(S), S \subseteq S1, S \subseteq S2,
         \A x \in S : f1[x] = f2[x]
  PROVE  g1[S] = g2[S]
<1> DEFINE T == {s \in SUBSET S : g1[s] # g2[s]}
<1>1. SUFFICES ASSUME T # {} PROVE FALSE
  OBVIOUS
<1>2. PICK s \in T : \A u \in T : u \subseteq s => u = s
  <2>1. T \subseteq SUBSET S
    OBVIOUS
  <2> HIDE DEF T
  <2> QED
    BY <1>1, <2>1, MinimalSubset
<1>3. /\ g1[s] = IF s = {} THEN 0 ELSE f1[Pick(s)] + g1[s \ {Pick(s)}]
      /\ g2[s] = IF s = {} THEN 0 ELSE f2[Pick(s)] + g2[s \ {Pick(s)}]
  BY DEF IsSum
<1>4. s # {} /\ Pick(s) \in s
  BY <1>3, PickIn
<1>5. s \ {Pick(s)} \notin T
  BY <1>2, <1>4
<1>6. g1[s \ {Pick(s)}] = g2[s \ {Pick(s)}]
  BY <1>5
<1> QED
  BY <1>2, <1>3, <1>4, <1>6

\* The sum of some values is one of them and the sum of the others.
LEMMA SumPick ==
  ASSUME NEW fun, NEW S, IsFiniteSet(S), S # {}
  PROVE  SumFunctionOnSet(fun, S) = fun[Pick(S)] + SumFunctionOnSet(fun, S \ {Pick(S)})
<1> DEFINE R == S \ {Pick(S)}
           g == CHOOSE h : IsSum(fun, S, h)
           k == CHOOSE h : IsSum(fun, R, h)
<1>1. IsFiniteSet(R)
  BY FS_RemoveElement
<1>2. IsSum(fun, S, g)
  BY SumExists
<1>3. IsSum(fun, R, k)
  BY <1>1, SumExists
<1>4. SumFunctionOnSet(fun, S) = g[S] /\ SumFunctionOnSet(fun, R) = k[R]
  BY SumUnfolded
<1> HIDE DEF g, k
<1>5. g[S] = fun[Pick(S)] + g[R]
  BY <1>2 DEF IsSum
<1>6. R \subseteq S /\ R \subseteq R /\ \A x \in R : fun[x] = fun[x]
  OBVIOUS
<1> HIDE DEF R
<1>7. g[R] = k[R]
  BY <1>1, <1>2, <1>3, <1>6, SumUnique
<1> QED
  BY <1>4, <1>5, <1>7 DEF R

\* The sum of no values is 0.
LEMMA SumOfNone ==
  ASSUME NEW fun
  PROVE  SumFunctionOnSet(fun, {}) = 0
<1> DEFINE g == CHOOSE h : IsSum(fun, {}, h)
<1>1. IsSum(fun, {}, g)
  BY SumExists, FS_EmptySet
<1>2. SumFunctionOnSet(fun, {}) = g[{}]
  BY SumUnfolded
<1> HIDE DEF g
<1> QED
  BY <1>1, <1>2 DEF IsSum

\* The sum depends on the values at the given places only.
LEMMA SumSame ==
  ASSUME NEW f1, NEW f2, NEW S, IsFiniteSet(S), \A x \in S : f1[x] = f2[x]
  PROVE  SumFunctionOnSet(f1, S) = SumFunctionOnSet(f2, S)
<1> DEFINE g1 == CHOOSE h : IsSum(f1, S, h)
           g2 == CHOOSE h : IsSum(f2, S, h)
<1>1. IsSum(f1, S, g1) /\ IsSum(f2, S, g2)
  BY SumExists
<1>2. SumFunctionOnSet(f1, S) = g1[S] /\ SumFunctionOnSet(f2, S) = g2[S]
  BY SumUnfolded
<1> HIDE DEF g1, g2
<1> QED
  BY <1>1, <1>2, SumUnique

\* The sum of natural numbers is one.
LEMMA SumType ==
  ASSUME NEW fun, NEW S, IsFiniteSet(S), \A x \in S : fun[x] \in Nat
  PROVE  SumFunctionOnSet(fun, S) \in Nat
<1> DEFINE T == {s \in SUBSET S : SumFunctionOnSet(fun, s) \notin Nat}
<1>1. SUFFICES ASSUME T # {} PROVE FALSE
  OBVIOUS
<1>2. PICK s \in T : \A u \in T : u \subseteq s => u = s
  <2>1. T \subseteq SUBSET S
    OBVIOUS
  <2> HIDE DEF T
  <2> QED
    BY <1>1, <2>1, MinimalSubset
<1>3. s # {}
  BY SumOfNone
<1>4. s \ {Pick(s)} \notin T /\ Pick(s) \in s
  BY <1>2, <1>3, PickIn
<1>5. SumFunctionOnSet(fun, s) = fun[Pick(s)] + SumFunctionOnSet(fun, s \ {Pick(s)})
  BY <1>3, FS_Subset, SumPick
<1> QED
  BY <1>4, <1>5

\* The sum of some values is any of them and the sum of the others.
LEMMA SumRemove ==
  ASSUME NEW fun, NEW S, IsFiniteSet(S), \A x \in S : fun[x] \in Nat, NEW a \in S
  PROVE  SumFunctionOnSet(fun, S) = fun[a] + SumFunctionOnSet(fun, S \ {a})
<1> DEFINE Sum(s) == SumFunctionOnSet(fun, s)
           T == {s \in SUBSET S : \E x \in s : Sum(s) # fun[x] + Sum(s \ {x})}
<1>1. SUFFICES ASSUME T # {} PROVE FALSE
  OBVIOUS
<1>2. PICK s \in T : \A u \in T : u \subseteq s => u = s
  <2>1. T \subseteq SUBSET S
    OBVIOUS
  <2> HIDE DEF T
  <2> QED
    BY <1>1, <2>1, MinimalSubset
<1>3. PICK x \in s : Sum(s) # fun[x] + Sum(s \ {x})
  OBVIOUS
<1> DEFINE p == Pick(s)
<1>4. p \in s
  BY PickIn
<1>5. Sum(s) = fun[p] + Sum(s \ {p})
  BY FS_Subset, SumPick
<1>6. \A u \in SUBSET s : Sum(u) \in Nat
  BY FS_Subset, SumType
<1> HIDE DEF p, Sum
<1>7. x # p
  BY <1>3, <1>5
<1>8. s \ {p} \notin T /\ s \ {x} \notin T
  BY <1>2, <1>4
<1>9. Sum(s \ {p}) = fun[x] + Sum((s \ {p}) \ {x})
  BY <1>3, <1>7, <1>8
<1>10. Sum(s \ {x}) = fun[p] + Sum((s \ {x}) \ {p})
  BY <1>4, <1>7, <1>8
<1>11. (s \ {p}) \ {x} = (s \ {x}) \ {p}
  OBVIOUS
<1>12. /\ fun[p] \in Nat /\ fun[x] \in Nat
       /\ Sum(s \ {p}) \in Nat /\ Sum(s \ {x}) \in Nat /\ Sum((s \ {p}) \ {x}) \in Nat
  BY <1>4, <1>6
<1>13. \A i, j, k \in Nat : i + (j + k) = j + (i + k)
  OBVIOUS
<1>14. fun[p] + (fun[x] + Sum((s \ {p}) \ {x})) = fun[x] + (fun[p] + Sum((s \ {p}) \ {x}))
  BY <1>12, <1>13
<1>15. Sum(s) = fun[x] + Sum(s \ {x})
  BY <1>5, <1>9, <1>10, <1>11, <1>14
<1> QED
  BY <1>3, <1>15

\* All values but one are 0.
LEMMA SumOfZeros ==
  ASSUME NEW fun, NEW S, IsFiniteSet(S), \A x \in S : fun[x] = 0
  PROVE  SumFunctionOnSet(fun, S) = 0
<1> DEFINE T == {s \in SUBSET S : SumFunctionOnSet(fun, s) # 0}
<1>1. SUFFICES ASSUME T # {} PROVE FALSE
  OBVIOUS
<1>2. PICK s \in T : \A u \in T : u \subseteq s => u = s
  <2>1. T \subseteq SUBSET S
    OBVIOUS
  <2> HIDE DEF T
  <2> QED
    BY <1>1, <2>1, MinimalSubset
<1>3. s # {}
  BY SumOfNone
<1>4. s \ {Pick(s)} \notin T /\ Pick(s) \in s
  BY <1>2, <1>3, PickIn
<1>5. SumFunctionOnSet(fun, s) = fun[Pick(s)] + SumFunctionOnSet(fun, s \ {Pick(s)})
  BY <1>3, FS_Subset, SumPick
<1> QED
  BY <1>4, <1>5

\* A sum with one value that is not 0 is that value.
LEMMA SumOfOne ==
  ASSUME NEW fun, NEW S, IsFiniteSet(S), NEW a \in S, fun[a] \in Nat,
         \A x \in S \ {a} : fun[x] = 0
  PROVE  SumFunctionOnSet(fun, S) = fun[a]
<1>1. SumFunctionOnSet(fun, S) = fun[a] + SumFunctionOnSet(fun, S \ {a})
  BY SumRemove
<1>2. SumFunctionOnSet(fun, S \ {a}) = 0
  BY FS_RemoveElement, SumOfZeros
<1> QED
  BY <1>1, <1>2

\* A sum is that of a part and that of the rest.
LEMMA SumSplit ==
  ASSUME NEW fun, NEW S, IsFiniteSet(S), \A x \in S : fun[x] \in Nat, NEW P \in SUBSET S
  PROVE  /\ SumFunctionOnSet(fun, S) = SumFunctionOnSet(fun, P) + SumFunctionOnSet(fun, S \ P)
         /\ SumFunctionOnSet(fun, S) \in Nat
         /\ SumFunctionOnSet(fun, P) \in Nat
         /\ SumFunctionOnSet(fun, S \ P) \in Nat
<1> DEFINE Sum(s) == SumFunctionOnSet(fun, s)
           T == {s \in SUBSET S : Sum(S) # Sum(s) + Sum(S \ s)}
<1>1. \A u \in SUBSET S : Sum(u) \in Nat
  BY FS_Subset, SumType
<1>2. \A u \in SUBSET S : \A x \in u : Sum(u) = fun[x] + Sum(u \ {x})
  BY FS_Subset, SumRemove
<1>3. Sum({}) = 0
  BY SumOfNone
<1>4. T = {}
  <2>1. SUFFICES ASSUME T # {} PROVE FALSE
    OBVIOUS
  <2>2. PICK s \in T : \A u \in T : u \subseteq s => u = s
    <3>1. T \subseteq SUBSET S
      OBVIOUS
    <3> HIDE DEF T
    <3> QED
      BY <2>1, <3>1, MinimalSubset
  <2> HIDE DEF Sum
  <2>3. s # {}
    <3>1. Sum(S) # Sum(s) + Sum(S \ s)
      BY <2>2
    <3>2. s = {} => S \ s = S
      OBVIOUS
    <3> QED
      BY <1>1, <1>3, <3>1, <3>2
  <2>4. PICK x \in s : TRUE
    BY <2>3
  <2>5. s \ {x} \in SUBSET S /\ s \ {x} \notin T
    BY <2>2, <2>4
  <2>6. Sum(S) = Sum(s \ {x}) + Sum(S \ (s \ {x}))
    BY <2>5
  <2>7. (S \ (s \ {x})) \ {x} = S \ s /\ x \in S \ (s \ {x})
    BY <2>2, <2>4
  <2>8. Sum(S \ (s \ {x})) = fun[x] + Sum(S \ s)
    BY <1>2, <2>7
  <2>9. Sum(s) = fun[x] + Sum(s \ {x})
    BY <1>2, <2>2
  <2>10. fun[x] \in Nat /\ Sum(s \ {x}) \in Nat /\ Sum(S \ s) \in Nat
    BY <1>1, <2>2, <2>4
  <2>11. Sum(S) = Sum(s) + Sum(S \ s)
    BY <2>6, <2>8, <2>9, <2>10
  <2> QED
    BY <2>2, <2>11
<1> QED
  BY <1>1, <1>4

\* The sum of the first n values.
LEMMA SumNext ==
  ASSUME NEW fun, NEW n \in Nat, \A i \in 1 .. n + 1 : fun[i] \in Nat
  PROVE  SumFunctionOnSet(fun, 1 .. n + 1) = SumFunctionOnSet(fun, 1 .. n) + fun[n + 1]
<1>1. IsFiniteSet(1 .. n + 1) /\ n + 1 \in 1 .. n + 1
  BY FS_Interval
<1>2. (1 .. n + 1) \ {n + 1} = 1 .. n
  OBVIOUS
<1>3. SumFunctionOnSet(fun, 1 .. n) \in Nat /\ fun[n + 1] \in Nat
  <2>1. IsFiniteSet(1 .. n) /\ \A i \in 1 .. n : fun[i] \in Nat
    BY FS_Interval
  <2> QED
    BY <2>1, SumType
<1>4. SumFunctionOnSet(fun, 1 .. n + 1) = fun[n + 1] + SumFunctionOnSet(fun, (1 .. n + 1) \ {n + 1})
  BY <1>1, SumRemove
<1>5. SumFunctionOnSet(fun, 1 .. n + 1) = fun[n + 1] + SumFunctionOnSet(fun, 1 .. n)
  BY <1>2, <1>4, Zenon
<1> QED
  BY <1>3, <1>5

\* The sum of the values of a sequence to which one is appended.
LEMMA SumAppended ==
  ASSUME NEW f1, NEW f2, NEW n \in Nat, \A i \in 1 .. n : f1[i] \in Nat /\ f2[i] = f1[i],
         f2[n + 1] \in Nat
  PROVE  /\ SumFunctionOnSet(f1, 1 .. n) \in Nat
         /\ SumFunctionOnSet(f2, 1 .. n + 1) = SumFunctionOnSet(f1, 1 .. n) + f2[n + 1]
<1>1. \A i \in 1 .. n + 1 : f2[i] \in Nat
  <2> TAKE i \in 1 .. n + 1
  <2>1. i \in 1 .. n \/ i = n + 1
    OBVIOUS
  <2> QED
    BY <2>1
<1>2. SumFunctionOnSet(f2, 1 .. n + 1) = SumFunctionOnSet(f2, 1 .. n) + f2[n + 1]
  BY <1>1, SumNext
<1>3. IsFiniteSet(1 .. n)
  BY FirstCount
<1> QED
  BY <1>2, <1>3, SumSame, SumType

\* Sums of the first values grow.
LEMMA SumMonotonic ==
  ASSUME NEW fun, NEW n \in Nat, \A i \in 1 .. n : fun[i] \in Nat, NEW m \in 0 .. n
  PROVE  SumFunctionOnSet(fun, 1 .. m) <= SumFunctionOnSet(fun, 1 .. n)
<1> DEFINE Sum(k) == SumFunctionOnSet(fun, 1 .. k)
           T == {k \in Nat : m + k <= n => Sum(m) <= Sum(m + k)}
<1>1. ASSUME NEW k \in 0 .. n
      PROVE  Sum(k) \in Nat
  <2>1. IsFiniteSet(1 .. k) /\ \A i \in 1 .. k : fun[i] \in Nat
    BY FS_Interval
  <2> QED
    BY <2>1, SumType
<1>2. \A k \in 0 .. n - 1 : Sum(k + 1) = Sum(k) + fun[k + 1]
  BY SumNext
<1> HIDE DEF Sum
<1>3. 0 \in T
  BY <1>1
<1>4. ASSUME NEW k \in Nat, k \in T
      PROVE  k + 1 \in T
  <2>1. SUFFICES ASSUME m + (k + 1) <= n PROVE Sum(m) <= Sum(m + (k + 1))
    OBVIOUS
  <2>2. m + k \in 0 .. n - 1 /\ (m + k) + 1 = m + (k + 1) /\ m + (k + 1) \in 1 .. n
    BY <2>1
  <2>3. Sum(m + (k + 1)) = Sum(m + k) + fun[m + (k + 1)] /\ fun[m + (k + 1)] \in Nat
    BY <1>2, <2>2
  <2>4. Sum(m) <= Sum(m + k)
    BY <1>4, <2>2
  <2>5. Sum(m) \in Nat /\ Sum(m + k) \in Nat
    BY <1>1, <2>2
  <2> QED
    BY <2>3, <2>4, <2>5
<1>5. Nat \subseteq T
  <2> HIDE DEF T
  <2> QED
    BY <1>3, <1>4, NatInductive
<1>6. n - m \in T
  BY <1>5
<1> QED
  BY <1>6 DEF Sum

------------------------------------------------------------------------------
(* Folds over the places 1 .. n of a sequence, from the first to the last. *)

\* g is the table of the results on the sets of places: the last place of a set
\* is taken after the others.
IsFold(F, base, n, g) ==
  g = [s \in SUBSET (1 .. n) |-> IF s = {} THEN base ELSE F[<<g[s \ {Max(s)}], Max(s)>>]]

\* The last place of a set of places, and the set without it.
LEMMA LastPlace ==
  ASSUME NEW n \in Nat, NEW s \in SUBSET (1 .. n), s # {}
  PROVE  /\ IsFiniteSet(s) /\ Max(s) \in s
         /\ s \ {Max(s)} \in SUBSET (1 .. n)
         /\ IsFiniteSet(s \ {Max(s)})
         /\ Cardinality(s) \in Nat
         /\ Cardinality(s \ {Max(s)}) = Cardinality(s) - 1
<1>1. IsFiniteSet(s)
  BY FirstCount, FS_Subset
<1>2. Max(s) \in s
  <2>1. \A x \in s : x \in Int
    OBVIOUS
  <2> QED
    BY <1>1, <2>1, HasExtremes
<1> QED
  BY <1>1, <1>2, FS_RemoveElement, FS_CardinalityType

\* The table of a fold exists.
LEMMA FoldExists ==
  ASSUME NEW F, NEW base, NEW n \in Nat
  PROVE  \E g : IsFold(F, base, n, g)
<1> DEFINE S == SUBSET (1 .. n)
           Small(k) == {s \in S : Cardinality(s) <= k}
           Next(s, g) == IF s = {} THEN base ELSE F[<<g[s \ {Max(s)}], Max(s)>>]
           Part(k, g) == g = [s \in Small(k) |-> Next(s, g)]
           T == {k \in Nat : \E g : Part(k, g)}
<1>1. \A s \in S : IsFiniteSet(s) /\ Cardinality(s) \in Nat
  BY FirstCount, FS_Subset, FS_CardinalityType
<1>2. 0 \in T
  <2> DEFINE g0 == [s \in Small(0) |-> base]
  <2>1. \A s \in Small(0) : s = {}
    BY <1>1, FS_EmptySet
  <2>2. Part(0, g0)
    BY <2>1
  <2> QED
    BY <2>2
<1>3. ASSUME NEW k \in Nat, k \in T
      PROVE  k + 1 \in T
  <2>1. PICK g : Part(k, g)
    BY <1>3
  <2> DEFINE h == [s \in Small(k + 1) |-> Next(s, g)]
  <2>2. ASSUME NEW s \in Small(k)
        PROVE  s \in Small(k + 1) /\ h[s] = g[s]
    <3>1. s \in Small(k + 1)
      BY <1>1
    <3>2. g[s] = Next(s, g)
      <4> HIDE DEF Small, Next
      <4> QED
        BY <2>1
    <3>3. h[s] = Next(s, g)
      <4> HIDE DEF Small, Next
      <4> QED
        BY <3>1
    <3> QED
      BY <3>1, <3>2, <3>3
  <2>3. ASSUME NEW s \in Small(k + 1), s # {}
        PROVE  s \ {Max(s)} \in Small(k)
    BY <1>1, <2>3, LastPlace
  <2>4. ASSUME NEW s \in Small(k + 1)
        PROVE  h[s] = Next(s, h)
    <3>1. h[s] = Next(s, g)
      <4> HIDE DEF Small, Next
      <4> QED
        OBVIOUS
    <3>2. s # {} => h[s \ {Max(s)}] = g[s \ {Max(s)}]
      <4> HIDE DEF Small, h
      <4> QED
        BY <2>2, <2>3
    <3> HIDE DEF Small, h
    <3> QED
      BY <3>1, <3>2
  <2>5. Part(k + 1, h)
    <3> HIDE DEF Small
    <3>1. h = [s \in Small(k + 1) |-> h[s]]
      OBVIOUS
    <3> HIDE DEF h, Next
    <3> QED
      BY <3>1, <2>4
  <2>6. \E j : Part(k + 1, j)
    <3> HIDE DEF h, Part
    <3> QED
      BY <2>5
  <2> HIDE DEF Part
  <2> QED
    BY <2>6
<1>4. Nat \subseteq T
  <2> HIDE DEF T
  <2> QED
    BY <1>2, <1>3, NatInductive
<1>5. n \in T
  BY <1>4
<1>6. PICK g : Part(n, g)
  BY <1>5
<1>7. Small(n) = S
  BY <1>1, FirstCount, FS_Subset
<1> QED
  BY <1>6, <1>7 DEF IsFold

\* The last of the first i places is i.
LEMMA FirstPlaces ==
  ASSUME NEW n \in Nat, NEW i \in 1 .. n
  PROVE  /\ 1 .. i \in SUBSET (1 .. n) /\ 1 .. i # {} /\ (1 .. i) \ {i} = 1 .. i - 1
         /\ Max(1 .. i) = i
<1>1. 1 .. i \in SUBSET (1 .. n) /\ 1 .. i # {} /\ (1 .. i) \ {i} = 1 .. i - 1
  OBVIOUS
<1>2. Max(1 .. i) = i
  <2>1. i \in 1 .. i /\ \A y \in 1 .. i : i >= y
    OBVIOUS
  <2>2. Max(1 .. i) \in 1 .. i /\ \A y \in 1 .. i : Max(1 .. i) >= y
    BY <2>1 DEF Max
  <2> QED
    BY <2>1, <2>2
<1> QED
  BY <1>1, <1>2

\* What the table says of the first places, one after the other.
Steps(F, base, n, g) ==
  /\ g[1 .. 0] = base
  /\ \A i \in 1 .. n : g[1 .. i] = F[<<g[1 .. i - 1], i>>]

\* A fold over the first places goes one place at a time.
LEMMA FoldSteps ==
  ASSUME NEW F, NEW base, NEW n \in Nat, NEW g, IsFold(F, base, n, g)
  PROVE  Steps(F, base, n, g)
<1>1. 1 .. 0 = {}
  OBVIOUS
<1>2. g[{}] = base
  BY DEF IsFold
<1>3. ASSUME NEW i \in 1 .. n
      PROVE  g[1 .. i] = F[<<g[1 .. i - 1], i>>]
  <2>1. 1 .. i \in SUBSET (1 .. n) /\ 1 .. i # {} /\ (1 .. i) \ {i} = 1 .. i - 1
        /\ Max(1 .. i) = i
    BY FirstPlaces
  <2> QED
    BY <2>1 DEF IsFold
<1> QED
  BY <1>1, <1>2, <1>3 DEF Steps

\* The results are of the type that F keeps.
LEMMA FoldTyped ==
  ASSUME NEW W, NEW F, NEW base \in W, NEW n \in Nat,
         \A w \in W : \A i \in 1 .. n : F[<<w, i>>] \in W
  PROVE  \E g : IsFold(F, base, n, g) /\ \A s \in SUBSET (1 .. n) : g[s] \in W
<1> DEFINE S == SUBSET (1 .. n)
<1>1. PICK g : IsFold(F, base, n, g)
  BY FoldExists
<1> DEFINE T == {k \in Nat : \A s \in S : Cardinality(s) <= k => g[s] \in W}
<1>2. ASSUME NEW s \in S
      PROVE  g[s] = IF s = {} THEN base ELSE F[<<g[s \ {Max(s)}], Max(s)>>]
  BY <1>1 DEF IsFold
<1>3. \A s \in S : IsFiniteSet(s) /\ Cardinality(s) \in Nat
  BY FirstCount, FS_Subset, FS_CardinalityType
<1>4. 0 \in T
  <2>1. ASSUME NEW s \in S, Cardinality(s) <= 0 PROVE g[s] \in W
    <3>1. s = {}
      BY <1>3, <2>1, FS_EmptySet
    <3> QED
      BY <1>2, <3>1
  <2> QED
    BY <2>1
<1>5. ASSUME NEW k \in Nat, k \in T PROVE k + 1 \in T
  <2>1. ASSUME NEW s \in S, Cardinality(s) <= k + 1 PROVE g[s] \in W
    <3>1. CASE s = {}
      BY <1>2, <3>1
    <3>2. CASE s # {}
      <4>1. /\ Max(s) \in s /\ s \ {Max(s)} \in S
            /\ Cardinality(s) \in Nat
            /\ Cardinality(s \ {Max(s)}) = Cardinality(s) - 1
        BY <3>2, LastPlace
      <4>2. Cardinality(s \ {Max(s)}) <= k
        BY <2>1, <4>1
      <4>3. g[s \ {Max(s)}] \in W
        BY <1>5, <4>1, <4>2
      <4>4. Max(s) \in 1 .. n
        BY <4>1
      <4> QED
        BY <1>2, <3>2, <4>3, <4>4
    <3> QED
      BY <3>1, <3>2
  <2> QED
    BY <2>1
<1>6. Nat \subseteq T
  <2> HIDE DEF T
  <2> QED
    BY <1>4, <1>5, NatInductive
<1>7. ASSUME NEW s \in S PROVE g[s] \in W
  <2>1. Cardinality(s) \in T /\ Cardinality(s) <= Cardinality(s)
    BY <1>3, <1>6
  <2> QED
    BY <2>1
<1> QED
  BY <1>1, <1>7

------------------------------------------------------------------------------
(* Loops: a start and a number of rounds, each on what the one before left. *)

\* What holds at the start and what every round keeps holds all along.
LEMMA RoundsKeep ==
  ASSUME NEW W, NEW n \in Nat, NEW g, g[0] \in W,
         \A k \in 1..n : g[k - 1] \in W => g[k] \in W
  PROVE  \A k \in 0..n : g[k] \in W
<1> DEFINE T == {k \in Nat : k <= n => g[k] \in W}
<1>1. 0 \in T
  OBVIOUS
<1>2. ASSUME NEW k \in Nat, k \in T PROVE k + 1 \in T
  <2>1. CASE k + 1 <= n
    <3>1. k + 1 \in 1..n /\ (k + 1) - 1 = k /\ k <= n
      BY <2>1
    <3> QED
      BY <1>2, <3>1
  <2>2. CASE ~(k + 1 <= n)
    BY <2>2
  <2> QED
    BY <2>1, <2>2
<1> HIDE DEF T
<1>3. Nat \subseteq T
  BY <1>1, <1>2, NatInductive
<1> QED
  BY <1>3 DEF T

\* g has what a loop of n rounds F starting with start comes to after each round.
IsCourse(F, start, n, g) == g = [k \in 0..n |-> IF k = 0 THEN start ELSE F[g[k - 1]]]

\* A loop whose rounds stay in a set has a course, and it stays in the set.
LEMMA RoundsExist ==
  ASSUME NEW W, NEW F, \A x \in W : F[x] \in W, NEW start \in W, NEW n \in Nat
  PROVE  \E g : IsCourse(F, start, n, g) /\ \A k \in 0..n : g[k] \in W
<1> DEFINE Course(m, g) == g = [k \in 0..m |-> IF k = 0 THEN start ELSE F[g[k - 1]]]
           T == {m \in Nat : \E g : Course(m, g)}
<1>1. 0 \in T
  <2>1. Course(0, [k \in 0..0 |-> start])
    OBVIOUS
  <2> QED
    BY <2>1
<1>2. ASSUME NEW m \in Nat, m \in T PROVE m + 1 \in T
  <2>1. PICK g : Course(m, g)
    BY <1>2
  <2> DEFINE h == [k \in 0..(m + 1) |-> IF k = 0 THEN start ELSE F[g[k - 1]]]
  <2>2. ASSUME NEW k \in 0..m PROVE h[k] = g[k]
    BY <2>1
  <2>3. ASSUME NEW k \in 0..(m + 1), k # 0 PROVE h[k] = F[h[k - 1]]
    <3>1. k - 1 \in 0..m
      BY <2>3
    <3> QED
      BY <3>1, <2>2, <2>3
  <2>4. h[0] = start
    OBVIOUS
  <2>5. Course(m + 1, h)
    BY <2>3, <2>4
  <2> HIDE DEF h
  <2>6. \E f : Course(m + 1, f)
    BY <2>5
  <2> QED
    BY <2>6
<1> HIDE DEF T
<1>3. n \in T
  BY <1>1, <1>2, NatInductive
<1>4. PICK g : Course(n, g)
  BY <1>3 DEF T
<1>5. g[0] \in W
  BY <1>4
<1>6. ASSUME NEW k \in 1..n, g[k - 1] \in W PROVE g[k] \in W
  BY <1>4, <1>6
<1>7. \A k \in 0..n : g[k] \in W
  BY <1>5, <1>6, RoundsKeep
<1> QED
  BY <1>4, <1>7 DEF IsCourse

------------------------------------------------------------------------------
(* Sequences. *)

\* What membership in Seq says, without the quantifier over lengths that provers stumble on.
LEMMA SeqParts ==
  ASSUME NEW V, NEW s \in Seq(V)
  PROVE  /\ Len(s) \in Nat /\ DOMAIN s = 1 .. Len(s)
         /\ \A i \in DOMAIN s : s[i] \in V
         /\ Range(s) \subseteq V
BY DEF Range

\* A sum of numbers bounds both.
LEMMA SumBounds ==
  ASSUME NEW a \in Nat, NEW b \in Nat, NEW c, c = a + b
  PROVE  a <= c /\ b <= c /\ c \in Nat
OBVIOUS

\* At most is transitive.
LEMMA Within ==
  ASSUME NEW a \in Nat, NEW b \in Nat, NEW c \in Nat, a <= b, b <= c
  PROVE  a <= c
OBVIOUS

\* A function of 1 .. n with values of V is a sequence of V.
LEMMA IsSeq ==
  ASSUME NEW V, NEW n \in Nat, NEW s, s = [i \in 1 .. n |-> s[i]], \A i \in 1 .. n : s[i] \in V
  PROVE  s \in Seq(V) /\ Len(s) = n /\ DOMAIN s = 1 .. n
<1>1. [i \in 1 .. n |-> s[i]] \in Seq(V)
  OBVIOUS
<1> QED
  BY <1>1

\* Length and elements of an appended sequence.
LEMMA AppendParts ==
  ASSUME NEW V, NEW s \in Seq(V), NEW x \in V
  PROVE  /\ Append(s, x) \in Seq(V) /\ Len(Append(s, x)) = Len(s) + 1
         /\ \A i \in 1 .. Len(s) : Append(s, x)[i] = s[i]
         /\ Append(s, x)[Len(s) + 1] = x
OBVIOUS

\* Length and elements of a concatenation.
LEMMA ConcatParts ==
  ASSUME NEW V, NEW s \in Seq(V), NEW t \in Seq(V), NEW r, r = s \o t
  PROVE  /\ r \in Seq(V) /\ Len(r) = Len(s) + Len(t)
         /\ \A i \in 1 .. Len(s) : r[i] = s[i]
         /\ \A i \in 1 .. Len(t) : r[Len(s) + i] = t[i]
OBVIOUS

\* A concatenation has the elements of both sequences.
LEMMA ConcatRange ==
  ASSUME NEW V, NEW s \in Seq(V), NEW t \in Seq(V)
  PROVE  Range(s \o t) = Range(s) \cup Range(t)
<1> DEFINE r == s \o t
<1>1. /\ r \in Seq(V) /\ Len(r) = Len(s) + Len(t)
      /\ \A i \in 1 .. Len(s) : r[i] = s[i]
      /\ \A i \in 1 .. Len(t) : r[Len(s) + i] = t[i]
  BY ConcatParts
<1> HIDE DEF r
<1>2. /\ Len(s) \in Nat /\ Len(t) \in Nat /\ DOMAIN s = 1 .. Len(s) /\ DOMAIN t = 1 .. Len(t)
      /\ DOMAIN r = 1 .. Len(s) + Len(t)
  BY <1>1
<1>3. ASSUME NEW i \in DOMAIN r
      PROVE  r[i] \in Range(s) \cup Range(t)
  <2>1. CASE i <= Len(s)
    BY <1>1, <1>2, <2>1 DEF Range
  <2>2. CASE ~ (i <= Len(s))
    <3>1. PICK j \in 1 .. Len(t) : i = Len(s) + j
      <4>1. i - Len(s) \in 1 .. Len(t) /\ i = Len(s) + (i - Len(s))
        BY <1>2, <2>2
      <4> QED
        BY <4>1
    <3> QED
      BY <1>1, <1>2, <3>1 DEF Range
  <2> QED
    BY <2>1, <2>2
<1>4. ASSUME NEW i \in 1 .. Len(s) PROVE s[i] \in Range(r)
  <2>1. i \in DOMAIN r
    BY <1>2
  <2> QED
    BY <1>1, <2>1 DEF Range
<1>5. ASSUME NEW i \in 1 .. Len(t) PROVE t[i] \in Range(r)
  <2>1. Len(s) + i \in DOMAIN r
    BY <1>2
  <2> QED
    BY <1>1, <2>1 DEF Range
<1>6. Range(r) \subseteq Range(s) \cup Range(t)
  BY <1>3 DEF Range
<1>7. Range(s) \cup Range(t) \subseteq Range(r)
  <2>1. \A x \in Range(s) : x \in Range(r)
    BY <1>2, <1>4 DEF Range
  <2>2. \A x \in Range(t) : x \in Range(r)
    BY <1>2, <1>5 DEF Range
  <2> QED
    BY <2>1, <2>2
<1> QED
  BY <1>6, <1>7 DEF r

------------------------------------------------------------------------------
(* FlattenSeq. *)

\* f[i] is the first i sequences in one.
Flattened(seqs, f) ==
  /\ f[0] = <<>>
  /\ \A i \in 1 .. Len(seqs) : f[i] = f[i - 1] \o seqs[i]

\* Every entry of the table of a flattening is a sequence of V.
LEMMA FlattenedType ==
  ASSUME NEW V, NEW seqs \in Seq(Seq(V)), NEW f, Flattened(seqs, f), NEW n \in 0 .. Len(seqs)
  PROVE  f[n] \in Seq(V)
<1> DEFINE T == {i \in Nat : i <= Len(seqs) => f[i] \in Seq(V)}
<1>1. 0 \in T
  <2>1. f[0] = <<>> /\ <<>> \in Seq(V)
    BY DEF Flattened
  <2> QED
    BY <2>1
<1>2. ASSUME NEW i \in Nat, i \in T
      PROVE  i + 1 \in T
  <2>1. SUFFICES ASSUME i + 1 <= Len(seqs) PROVE f[i + 1] \in Seq(V)
    OBVIOUS
  <2>2. Len(seqs) \in Nat /\ i + 1 \in 1 .. Len(seqs) /\ (i + 1) - 1 = i
    BY <2>1, SeqParts
  <2>3. f[i + 1] = f[i] \o seqs[i + 1] /\ seqs[i + 1] \in Seq(V)
    <3>1. f[i + 1] = f[(i + 1) - 1] \o seqs[i + 1]
      BY <2>2 DEF Flattened
    <3>2. seqs[i + 1] \in Seq(V)
      BY <2>2, SeqParts
    <3> QED
      BY <2>2, <3>1, <3>2
  <2>4. f[i] \in Seq(V)
    BY <1>2, <2>2
  <2> QED
    BY <2>3, <2>4, ConcatParts
<1>3. Nat \subseteq T
  <2> HIDE DEF T
  <2> QED
    BY <1>1, <1>2, NatInductive
<1> QED
  BY <1>3

\* Two tables of flattenings agree as far as their sequences do.
LEMMA FlattenedUnique ==
  ASSUME NEW s, Len(s) \in Nat, NEW f, Flattened(s, f),
         NEW t, Len(t) \in Nat, NEW g, Flattened(t, g),
         NEW n \in Nat, n <= Len(s), n <= Len(t), \A i \in 1 .. n : s[i] = t[i]
  PROVE  Flattened(s, f) /\ Flattened(t, g) /\ f[n] = g[n]
<1> DEFINE T == {i \in Nat : i <= n => f[i] = g[i]}
<1>1. 0 \in T
  BY DEF Flattened
<1>2. ASSUME NEW i \in Nat, i \in T
      PROVE  i + 1 \in T
  <2>1. SUFFICES ASSUME i + 1 <= n PROVE f[i + 1] = g[i + 1]
    OBVIOUS
  <2>2. /\ i + 1 \in 1 .. Len(s) /\ i + 1 \in 1 .. Len(t) /\ i + 1 \in 1 .. n
        /\ (i + 1) - 1 = i
    BY <2>1
  <2>3. f[i + 1] = f[i] \o s[i + 1] /\ g[i + 1] = g[i] \o t[i + 1]
    BY <2>2 DEF Flattened
  <2>4. f[i] = g[i] /\ s[i + 1] = t[i + 1]
    BY <1>2, <2>1, <2>2
  <2> HIDE DEF T
  <2> QED
    BY <2>3, <2>4
<1>3. Nat \subseteq T
  <2> HIDE DEF T
  <2> QED
    BY <1>1, <1>2, NatInductive
<1> QED
  BY <1>3

\* FlattenSeq's own recursion.
FlattenTable(seqs, g) ==
  g = [i \in 1 .. Len(seqs) |-> IF i = 1 THEN seqs[i] ELSE g[i - 1] \o seqs[i]]

\* FlattenSeq is the last entry of the table of its recursive definition.
LEMMA FlattenIs ==
  ASSUME NEW V, NEW seqs \in Seq(Seq(V))
  PROVE  \E f : Flattened(seqs, f) /\ FlattenSeq(seqs) = f[Len(seqs)]
<1> DEFINE n == Len(seqs)
<1>1. n \in Nat /\ DOMAIN seqs = 1 .. n /\ \A i \in 1 .. n : seqs[i] \in Seq(V)
  BY SeqParts
<1> DEFINE F == [p \in Seq(V) \X (1 .. n) |-> p[1] \o seqs[p[2]]]
<1>2. PICK table : IsFold(F, <<>>, n, table)
  <2>1. n \in Nat
    BY <1>1
  <2> HIDE DEF n, F
  <2> QED
    BY <2>1, FoldExists
<1> DEFINE f == [i \in 0 .. n |-> table[1 .. i]]
<1>n. n \in Nat
  BY <1>1
<1>3. /\ table[1 .. 0] = <<>>
      /\ \A i \in 1 .. n : table[1 .. i] = F[<<table[1 .. i - 1], i>>]
  <2>1. Steps(F, <<>>, n, table)
    <3> HIDE DEF n, F, f
    <3> QED
      BY <1>n, <1>2, FoldSteps
  <2> HIDE DEF n, F, f
  <2> QED
    BY <2>1 DEF Steps
<1>4. ASSUME NEW i \in 1 .. n, f[i - 1] \in Seq(V)
      PROVE  f[i] = f[i - 1] \o seqs[i] /\ f[i] \in Seq(V)
  <2>1. f[i] = table[1 .. i] /\ f[i - 1] = table[1 .. i - 1]
    BY <1>1
  <2>2. f[i] = F[<<f[i - 1], i>>]
    BY <1>3, <2>1
  <2> HIDE DEF f, n
  <2>3. f[i] = f[i - 1] \o seqs[i]
    BY <1>4, <2>2
  <2> QED
    BY <1>1, <1>4, <2>3, ConcatParts
<1>5. \A i \in 0 .. n : f[i] \in Seq(V)
  <2> DEFINE T == {i \in Nat : i <= n => f[i] \in Seq(V)}
  <2>1. 0 \in T
    <3>1. 0 \in 0 .. n
      BY <1>1
    <3>2. f[0] = <<>>
      BY <1>3, <3>1
    <3>3. 0 \in Nat /\ <<>> \in Seq(V)
      OBVIOUS
    <3> HIDE DEF f, n
    <3> QED
      BY <3>2, <3>3
  <2> HIDE DEF f, n
  <2>2. ASSUME NEW i \in Nat, i \in T
        PROVE  i + 1 \in T
    <3>1. SUFFICES ASSUME i + 1 <= n PROVE f[i + 1] \in Seq(V)
      OBVIOUS
    <3>2. i + 1 \in 1 .. n /\ (i + 1) - 1 = i /\ f[i] \in Seq(V)
      BY <1>1, <2>2, <3>1
    <3> QED
      BY <1>4, <3>2
  <2>3. Nat \subseteq T
    <3> HIDE DEF T
    <3> QED
      BY <2>1, <2>2, NatInductive
  <2>4. \A i \in 0 .. n : i \in Nat /\ i <= n
    BY <1>1
  <2> QED
    BY <2>3, <2>4
<1>6. Flattened(seqs, f)
  <2>1. f[0] = <<>>
    BY <1>1, <1>3
  <2>2. ASSUME NEW i \in 1 .. n PROVE f[i] = f[i - 1] \o seqs[i]
    <3>1. i - 1 \in 0 .. n
      BY <1>1
    <3> HIDE DEF f, n
    <3> QED
      BY <1>4, <1>5, <3>1
  <2> HIDE DEF f
  <2> QED
    BY <2>1, <2>2 DEF Flattened
<1>7. FlattenSeq(seqs) = f[n]
  <2>1. CASE n = 0
    <3>1. FlattenSeq(seqs) = seqs /\ seqs = <<>>
      BY <2>1 DEF FlattenSeq
    <3> QED
      BY <1>1, <1>3, <2>1, <3>1
  <2>2. CASE n # 0
    <3> DEFINE h == CHOOSE g : FlattenTable(seqs, g)
               k == [i \in 1 .. n |-> f[i]]
    <3>1. FlattenSeq(seqs) = h[n]
      BY <2>2 DEF FlattenSeq, FlattenTable
    <3>2. FlattenTable(seqs, k)
      <4>1. ASSUME NEW i \in 1 .. n
            PROVE  f[i] = IF i = 1 THEN seqs[i] ELSE k[i - 1] \o seqs[i]
        <5>1. f[i] = f[i - 1] \o seqs[i]
          BY <1>6 DEF Flattened
        <5>2. CASE i = 1
          <6>1. f[i - 1] = <<>> /\ seqs[i] \in Seq(V)
            BY <1>1, <1>6, <5>2 DEF Flattened
          <6> HIDE DEF f
          <6> QED
            BY <5>1, <5>2, <6>1
        <5>3. CASE i # 1
          <6>1. i - 1 \in 1 .. n
            BY <1>1, <5>3
          <6> HIDE DEF f
          <6> QED
            BY <5>1, <5>3, <6>1
        <5> QED
          BY <5>2, <5>3
      <4> HIDE DEF f
      <4> QED
        BY <4>1 DEF FlattenTable
    <3>3. FlattenTable(seqs, h)
      <4> HIDE DEF k
      <4> QED
        BY <3>2
    <3> HIDE DEF h, k
    <3>4. ASSUME NEW i \in 1 .. n PROVE h[i] = IF i = 1 THEN seqs[i] ELSE h[i - 1] \o seqs[i]
      BY <3>3 DEF FlattenTable
    <3> DEFINE h0 == [i \in 0 .. n |-> IF i = 0 THEN <<>> ELSE h[i]]
    <3>5. Flattened(seqs, h0)
      <4>1. ASSUME NEW i \in 1 .. n PROVE h0[i] = h0[i - 1] \o seqs[i]
        <5>1. CASE i = 1
          <6>1. h0[i] = seqs[i] /\ h0[i - 1] = <<>> /\ seqs[i] \in Seq(V)
            BY <1>1, <3>4, <5>1
          <6> HIDE DEF h0
          <6> QED
            BY <6>1
        <5>2. CASE i # 1
          <6>1. h0[i] = h[i] /\ h0[i - 1] = h[i - 1]
            BY <1>1, <5>2
          <6> HIDE DEF h0
          <6> QED
            BY <3>4, <5>2, <6>1
        <5> QED
          BY <5>1, <5>2
      <4>2. h0[0] = <<>>
        BY <1>1
      <4> HIDE DEF h0
      <4> QED
        BY <4>1, <4>2 DEF Flattened
    <3>6. h0[n] = h[n]
      BY <1>1, <2>2
    <3>7. h0[n] = f[n]
      <4> HIDE DEF h0, f
      <4>1. n \in Nat /\ n <= Len(seqs)
        BY <1>1
      <4> HIDE DEF n
      <4>2. Len(seqs) \in Nat
        BY SeqParts
      <4>3. Flattened(seqs, h0) /\ Flattened(seqs, f) /\ h0[n] = f[n]
        BY <1>6, <3>5, <4>1, <4>2, FlattenedUnique
      <4> QED
        BY <4>3
    <3> QED
      BY <3>1, <3>6, <3>7
  <2> QED
    BY <2>1, <2>2
<1> HIDE DEF f
<1> QED
  BY <1>6, <1>7

\* The elements of the first sequences are those of one of them, in turn.
LEMMA FlattenedRange ==
  ASSUME NEW V, NEW seqs \in Seq(Seq(V)), NEW f, Flattened(seqs, f), NEW n \in 0 .. Len(seqs)
  PROVE  /\ Len(f[n]) \in Nat /\ f[n] \in Seq(V)
         /\ \A x \in Range(f[n]) : \E j \in 1 .. n : x \in Range(seqs[j])
         /\ \A j \in 1 .. n : Range(seqs[j]) \subseteq Range(f[n]) /\ Len(seqs[j]) <= Len(f[n])
<1> DEFINE In(i) == /\ \A x \in Range(f[i]) : \E j \in 1 .. i : x \in Range(seqs[j])
                    /\ \A j \in 1 .. i : Range(seqs[j]) \subseteq Range(f[i]) /\ Len(seqs[j]) <= Len(f[i])
           T == {i \in Nat : i <= Len(seqs) => In(i)}
<1>1. Len(seqs) \in Nat /\ DOMAIN seqs = 1 .. Len(seqs) /\ \A i \in 1 .. Len(seqs) : seqs[i] \in Seq(V)
  BY SeqParts
<1>2. 0 \in T
  <2>1. f[0] = <<>> /\ Range(<<>>) = {}
    BY DEF Flattened, Range
  <2>2. In(0)
    BY <2>1
  <2> QED
    BY <2>2
<1>3. ASSUME NEW i \in Nat, i \in T PROVE i + 1 \in T
  <2>1. SUFFICES ASSUME i + 1 <= Len(seqs) PROVE In(i + 1)
    OBVIOUS
  <2>2. i \in 0 .. Len(seqs) /\ i + 1 \in 1 .. Len(seqs) /\ (i + 1) - 1 = i /\ i <= Len(seqs)
    BY <1>1, <2>1
  <2>3. f[i + 1] = f[i] \o seqs[i + 1]
    <3>1. f[i + 1] = f[(i + 1) - 1] \o seqs[i + 1]
      BY <2>2 DEF Flattened
    <3> QED
      BY <2>2, <3>1
  <2>4. f[i] \in Seq(V) /\ seqs[i + 1] \in Seq(V)
    BY <1>1, <2>2, FlattenedType
  <2>5. Range(f[i + 1]) = Range(f[i]) \cup Range(seqs[i + 1])
    BY <2>3, <2>4, ConcatRange
  <2>6. /\ Len(f[i + 1]) = Len(f[i]) + Len(seqs[i + 1])
        /\ Len(f[i]) \in Nat /\ Len(seqs[i + 1]) \in Nat
    BY <2>3, <2>4, ConcatParts, SeqParts
  <2>m. /\ Len(f[i]) <= Len(f[i + 1]) /\ Len(seqs[i + 1]) <= Len(f[i + 1])
        /\ Len(f[i + 1]) \in Nat
    BY <2>6, SumBounds
  <2>7. In(i)
    BY <1>3, <2>2
  <2>8. \A j \in 1 .. i + 1 : j \in 1 .. i \/ j = i + 1
    OBVIOUS
  <2>9. \A j \in 1 .. i : j \in 1 .. i + 1 /\ Len(seqs[j]) \in Nat
    <3>1. \A j \in 1 .. i : j \in 1 .. i + 1 /\ j \in 1 .. Len(seqs)
      BY <2>2
    <3> QED
      BY <1>1, <3>1, SeqParts
  <2>10. \A x \in Range(f[i + 1]) : \E j \in 1 .. i + 1 : x \in Range(seqs[j])
    BY <2>5, <2>7, <2>9
  <2>11. ASSUME NEW j \in 1 .. i + 1
         PROVE  Range(seqs[j]) \subseteq Range(f[i + 1]) /\ Len(seqs[j]) <= Len(f[i + 1])
    <3> HIDE DEF In, T
    <3>1. CASE j = i + 1
      <4>1. Range(seqs[i + 1]) \subseteq Range(f[i + 1])
        BY <2>5
      <4>2. Len(seqs[i + 1]) <= Len(f[i + 1])
        BY <2>m
      <4> QED
        BY <3>1, <4>1, <4>2
    <3>2. CASE j \in 1 .. i
      <4>1. Range(seqs[j]) \subseteq Range(f[i]) /\ Len(seqs[j]) <= Len(f[i]) /\ Len(seqs[j]) \in Nat
        BY <2>7, <2>9, <3>2 DEF In
      <4>2. Range(seqs[j]) \subseteq Range(f[i + 1])
        BY <2>5, <4>1
      <4>3. Len(seqs[j]) <= Len(f[i + 1])
        BY <2>6, <2>m, <4>1, Within
      <4> QED
        BY <4>2, <4>3
    <3> QED
      BY <2>8, <3>1, <3>2
  <2> QED
    BY <2>10, <2>11
<1>4. Nat \subseteq T
  <2> HIDE DEF T
  <2> QED
    BY <1>2, <1>3, NatInductive
<1>5. n \in Nat /\ n <= Len(seqs)
  BY <1>1
<1>6. In(n)
  BY <1>4, <1>5
<1>7. f[n] \in Seq(V)
  BY FlattenedType
<1>8. Len(f[n]) \in Nat
  BY <1>7
<1> QED
  BY <1>6, <1>7, <1>8

\* A flattening has the elements of all sequences, and is as long as each.
LEMMA FlattenRange ==
  ASSUME NEW V, NEW seqs \in Seq(Seq(V))
  PROVE  /\ FlattenSeq(seqs) \in Seq(V)
         /\ \A x \in Range(FlattenSeq(seqs)) : \E j \in DOMAIN seqs : x \in Range(seqs[j])
         /\ \A j \in DOMAIN seqs : /\ Range(seqs[j]) \subseteq Range(FlattenSeq(seqs))
                                   /\ Len(seqs[j]) <= Len(FlattenSeq(seqs))
<1>1. PICK f : Flattened(seqs, f) /\ FlattenSeq(seqs) = f[Len(seqs)]
  BY FlattenIs
<1>2. Len(seqs) \in 0 .. Len(seqs) /\ DOMAIN seqs = 1 .. Len(seqs)
  BY SeqParts
<1>3. /\ Len(f[Len(seqs)]) \in Nat /\ f[Len(seqs)] \in Seq(V)
      /\ \A x \in Range(f[Len(seqs)]) : \E j \in 1 .. Len(seqs) : x \in Range(seqs[j])
      /\ \A j \in 1 .. Len(seqs) : Range(seqs[j]) \subseteq Range(f[Len(seqs)]) /\ Len(seqs[j]) <= Len(f[Len(seqs)])
  BY <1>1, <1>2, FlattenedRange
<1> QED
  BY <1>1, <1>2, <1>3

\* The first sequences in one are a prefix of more of them in one.
LEMMA FlattenedPrefix ==
  ASSUME NEW V, NEW seqs \in Seq(Seq(V)), NEW f, Flattened(seqs, f), NEW m \in 0 .. Len(seqs)
  PROVE  /\ f[m] \in Seq(V) /\ f[Len(seqs)] \in Seq(V) /\ Len(f[m]) <= Len(f[Len(seqs)])
         /\ \A j \in 1 .. Len(f[m]) : f[Len(seqs)][j] = f[m][j]
<1>1. Len(seqs) \in Nat /\ DOMAIN seqs = 1 .. Len(seqs) /\ \A i \in 1 .. Len(seqs) : seqs[i] \in Seq(V)
  BY SeqParts
<1> DEFINE In(k) == Len(f[m]) <= Len(f[k]) /\ \A j \in 1 .. Len(f[m]) : f[k][j] = f[m][j]
           T == {i \in Nat : m + i <= Len(seqs) => In(m + i)}
<1>2. m \in Nat /\ m <= Len(seqs) /\ m + 0 = m
  BY <1>1
<1>3. f[m] \in Seq(V) /\ Len(f[m]) \in Nat
  <2>1. f[m] \in Seq(V)
    BY FlattenedType
  <2> QED
    BY <2>1
<1>4. 0 \in T
  <2>1. In(m)
    BY <1>3
  <2> HIDE DEF In
  <2> QED
    BY <1>2, <2>1
<1>5. ASSUME NEW i \in Nat, i \in T PROVE i + 1 \in T
  <2> DEFINE k == m + i
  <2>1. SUFFICES ASSUME k + 1 <= Len(seqs) PROVE In(k + 1)
    <3>1. m + (i + 1) = k + 1
      BY <1>2
    <3> HIDE DEF In, k
    <3> QED
      BY <3>1, <2>1
  <2>2. k \in 0 .. Len(seqs) /\ k + 1 \in 1 .. Len(seqs) /\ (k + 1) - 1 = k /\ k <= Len(seqs)
    BY <1>1, <1>2, <2>1
  <2>3. In(k)
    BY <1>5, <2>2
  <2> HIDE DEF k
  <2>4. f[k + 1] = f[k] \o seqs[k + 1]
    <3>1. f[k + 1] = f[(k + 1) - 1] \o seqs[k + 1]
      BY <2>2 DEF Flattened
    <3> QED
      BY <2>2, <3>1
  <2>5. f[k] \in Seq(V) /\ seqs[k + 1] \in Seq(V)
    BY <1>1, <2>2, FlattenedType
  <2>6. /\ f[k + 1] \in Seq(V) /\ Len(f[k + 1]) = Len(f[k]) + Len(seqs[k + 1])
        /\ \A j \in 1 .. Len(f[k]) : f[k + 1][j] = f[k][j]
    <3> HIDE DEF In, T
    <3>1. PICK r : r = f[k + 1]
      OBVIOUS
    <3>2. PICK t : t = seqs[k + 1]
      OBVIOUS
    <3>3. PICK s : s = f[k]
      OBVIOUS
    <3>4. s \in Seq(V) /\ t \in Seq(V) /\ r = s \o t
      BY <2>4, <2>5, <3>1, <3>2, <3>3
    <3>5. /\ r \in Seq(V) /\ Len(r) = Len(s) + Len(t)
          /\ \A j \in 1 .. Len(s) : r[j] = s[j]
      BY <3>4, ConcatParts
    <3> QED
      BY <3>1, <3>2, <3>3, <3>5
  <2>7. Len(f[k]) \in Nat /\ Len(seqs[k + 1]) \in Nat
    BY <2>5
  <2>8. Len(f[k]) <= Len(f[k + 1]) /\ Len(f[k + 1]) \in Nat
    BY <2>6, <2>7, SumBounds
  <2>9. Len(f[m]) <= Len(f[k + 1])
    BY <1>3, <2>3, <2>7, <2>8, Within
  <2>10. ASSUME NEW j \in 1 .. Len(f[m]) PROVE f[k + 1][j] = f[m][j]
    <3>1. Len(f[m]) <= Len(f[k]) /\ f[k][j] = f[m][j]
      BY <2>3
    <3>2. j \in 1 .. Len(f[k])
      <4> HIDE DEF In, T
      <4> QED
        BY <1>3, <2>7, <3>1
    <3> HIDE DEF In, T
    <3> QED
      BY <2>6, <3>1, <3>2
  <2> QED
    BY <2>9, <2>10
<1>6. Nat \subseteq T
  <2> HIDE DEF T
  <2> QED
    BY <1>4, <1>5, NatInductive
<1>7. PICK i \in Nat : m + i = Len(seqs)
  <2>1. Len(seqs) - m \in Nat /\ m + (Len(seqs) - m) = Len(seqs)
    BY <1>1, <1>2
  <2> QED
    BY <2>1
<1>8. In(Len(seqs))
  <2>1. m + i <= Len(seqs)
    BY <1>1, <1>7
  <2> HIDE DEF In
  <2>2. In(m + i)
    BY <1>6, <2>1
  <2> QED
    BY <1>7, <2>2
<1>9. f[Len(seqs)] \in Seq(V)
  <2>1. Len(seqs) \in 0 .. Len(seqs)
    BY <1>1
  <2> QED
    BY <2>1, FlattenedType
<1> QED
  BY <1>3, <1>8, <1>9
==============================================================================
