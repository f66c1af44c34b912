---------------------------- MODULE SumTheorems ----------------------------
(* Sums of the values of a function over a finite set, for the modules whose *)
(* books are such sums.  SumFunctionOnSet is a recursive function chosen by  *)
(* the equation that defines it.  That there is one, and what it computes,   *)
(* is shown here by counting: a set of units for what is positive, a set of  *)
(* debts for what is negative.                                               *)
EXTENDS FiniteSetTheorems, TLAPS

Units(f, S) == UNION {{x} \X (1..f[x]) : x \in S}
Debts(f, S) == UNION {{x} \X (1..(0 - f[x])) : x \in S}
Count(f, S) == Cardinality(Units(f, S)) - Cardinality(Debts(f, S))

\* Finitely many finite sets.
LEMMA PositiveFinite ==
    ASSUME NEW S, IsFiniteSet(S), NEW f, \A x \in S : f[x] \in Int
    PROVE  IsFiniteSet(Units(f, S))
<1> DEFINE F == [x \in S |-> {x} \X (1..f[x])]
           T == {{x} \X (1..f[x]) : x \in S}
<1>1. F \in Surjection(S, T)
  BY DEF Surjection
<1>2. IsFiniteSet(T)
  <2> HIDE DEF F, T
  <2> QED
    BY <1>1, FS_Surjection
<1>3. \A x \in S : IsFiniteSet({x} \X (1..f[x]))
  <2> TAKE x \in S
  <2>1. IsFiniteSet(1..f[x])
    BY FS_Interval
  <2>2. IsFiniteSet({x})
    BY FS_Singleton
  <2> QED
    BY <2>1, <2>2, FS_Product
<1>4. \A U \in T : IsFiniteSet(U)
  BY <1>3
<1> QED
  BY <1>2, <1>4, FS_UNION DEF Units

\* The debts are the units of the opposite values.
LEMMA UnitsFinite ==
    ASSUME NEW S, IsFiniteSet(S), NEW f, \A x \in S : f[x] \in Int
    PROVE  IsFiniteSet(Units(f, S)) /\ IsFiniteSet(Debts(f, S))
<1> DEFINE g == [x \in S |-> 0 - f[x]]
<1>1. Debts(f, S) = Units(g, S)
  BY DEF Debts, Units
<1>2. \A x \in S : g[x] \in Int
  OBVIOUS
<1> HIDE DEF g
<1> QED
  BY <1>1, <1>2, PositiveFinite

\* Disjoint sets are counted one after the other.
LEMMA CardDisjoint ==
    ASSUME NEW S, NEW T, IsFiniteSet(S), IsFiniteSet(T), S \cap T = {}
    PROVE  Cardinality(S \cup T) = Cardinality(S) + Cardinality(T)
<1>1. Cardinality(S) \in Nat /\ Cardinality(T) \in Nat
  BY FS_CardinalityType
<1>2. Cardinality(S \cup T) = Cardinality(S) + Cardinality(T) - Cardinality(S \cap T)
  BY FS_Union
<1>3. Cardinality(S \cap T) = 0
  BY FS_EmptySet
<1> QED
  BY <1>1, <1>2, <1>3

\* One element more counts for its value.
LEMMA CountRemove ==
    ASSUME NEW S, IsFiniteSet(S), NEW f, \A x \in S : f[x] \in Int, NEW y \in S
    PROVE  Count(f, S) = f[y] + Count(f, S \ {y})
<1> DEFINE R == S \ {y}
           U == {y} \X (1..f[y])
           D == {y} \X (1..(0 - f[y]))
<1>1. IsFiniteSet(R) /\ IsFiniteSet({y}) /\ Cardinality({y}) = 1
  BY FS_RemoveElement, FS_Singleton
<1>2. /\ IsFiniteSet(Units(f, S)) /\ IsFiniteSet(Debts(f, S))
      /\ IsFiniteSet(Units(f, R)) /\ IsFiniteSet(Debts(f, R))
  BY <1>1, UnitsFinite
<1>3. IsFiniteSet(U) /\ Cardinality(U) = IF f[y] > 0 THEN f[y] ELSE 0
  <2>1. IsFiniteSet(1..f[y]) /\ Cardinality(1..f[y]) = IF f[y] > 0 THEN f[y] ELSE 0
    BY FS_Interval
  <2>2. Cardinality(U) = 1 * Cardinality(1..f[y]) /\ IsFiniteSet(U)
    BY <1>1, <2>1, FS_Product
  <2> QED
    BY <2>1, <2>2
<1>4. IsFiniteSet(D) /\ Cardinality(D) = IF 0 - f[y] > 0 THEN 0 - f[y] ELSE 0
  <2>1. IsFiniteSet(1..(0 - f[y])) /\ Cardinality(1..(0 - f[y])) = IF 0 - f[y] > 0 THEN 0 - f[y] ELSE 0
    BY FS_Interval
  <2>2. Cardinality(D) = 1 * Cardinality(1..(0 - f[y])) /\ IsFiniteSet(D)
    BY <1>1, <2>1, FS_Product
  <2> QED
    BY <2>1, <2>2
<1>5. Units(f, S) = Units(f, R) \cup U /\ Units(f, R) \cap U = {}
  BY DEF Units
<1>6. Debts(f, S) = Debts(f, R) \cup D /\ Debts(f, R) \cap D = {}
  BY DEF Debts
<1>7. Cardinality(Units(f, S)) = Cardinality(Units(f, R)) + Cardinality(U)
  <2> HIDE DEF U, R
  <2> QED BY <1>2, <1>3, <1>5, CardDisjoint
<1>8. Cardinality(Debts(f, S)) = Cardinality(Debts(f, R)) + Cardinality(D)
  <2> HIDE DEF D, R
  <2> QED BY <1>2, <1>4, <1>6, CardDisjoint
<1>9. Cardinality(Units(f, R)) \in Nat /\ Cardinality(Debts(f, R)) \in Nat
  BY <1>2, FS_CardinalityType
<1> QED
  <2> HIDE DEF U, D, R
  <2>1. Count(f, S) = f[y] + Count(f, R)
   BY <1>3, <1>4, <1>7, <1>8, <1>9 DEF Count
  <2> QED BY <2>1 DEF R

\* Nothing counts for nothing.
LEMMA CountEmpty == ASSUME NEW f PROVE Count(f, {}) = 0
<1>1. Units(f, {}) = {} /\ Debts(f, {}) = {}
  BY DEF Units, Debts
<1> QED
  BY <1>1, FS_EmptySet DEF Count

\* The sum is the count: the count satisfies the equation that defines the sum,
\* so there is a solution, and on a smallest set on which another one differed
\* it could not.
LEMMA SumIsCount ==
    ASSUME NEW S, IsFiniteSet(S), NEW f, \A x \in S : f[x] \in Int
    PROVE  SumFunctionOnSet(f, S) = Count(f, S)
<1> DEFINE Body(g) == [s \in SUBSET S |->
                          IF s = {} THEN 0
                          ELSE f[CHOOSE x \in s : TRUE] + g[s \ {CHOOSE x \in s : TRUE}]]
           iter == CHOOSE g : g = Body(g)
           G == [s \in SUBSET S |-> Count(f, s)]
<1>1. SumFunctionOnSet(f, S) = iter[S]
  BY DEF SumFunctionOnSet, FoldFunctionOnSet, MapThenFoldSet
<1>2. ASSUME NEW s \in SUBSET S, s # {}
      PROVE  /\ (CHOOSE x \in s : TRUE) \in s
             /\ Count(f, s) = f[CHOOSE x \in s : TRUE] + Count(f, s \ {CHOOSE x \in s : TRUE})
  <2>1. (CHOOSE x \in s : TRUE) \in s
    BY <1>2
  <2>2. IsFiniteSet(s)
    BY FS_Subset
  <2>3. \A x \in s : Count(f, s) = f[x] + Count(f, s \ {x})
    BY <2>2, CountRemove
  <2> QED
    BY <2>1, <2>3
<1>3. G = Body(G)
  <2>1. ASSUME NEW s \in SUBSET S PROVE G[s] = Body(G)[s]
    <3>1. CASE s = {}
      BY <3>1, CountEmpty
    <3>2. CASE s # {}
      BY <3>2, <1>2
    <3> QED BY <3>1, <3>2
  <2> QED
    BY <2>1
<1>4. iter = Body(iter)
  <2>1. \E g : g = Body(g)
    BY <1>3
  <2> QED
    BY <2>1
<1>5. \A s \in SUBSET S : iter[s] = Count(f, s)
  <2> HIDE DEF iter
  <2> DEFINE Bad == {s \in SUBSET S : iter[s] # Count(f, s)}
  <2> SUFFICES ASSUME Bad # {} PROVE FALSE
    OBVIOUS
  <2>1. Bad \subseteq FiniteSubsetsOf(S)
    BY FS_Subset DEF FiniteSubsetsOf
  <2>2. PICK s \in Bad : \A t \in Bad : ~(<<t, s>> \in StrictSubsetOrdering(S))
    BY <2>1, FS_StrictSubsetOrderingWellFounded, WFMin
  <2>3. s # {}
    BY <2>2, <1>4, CountEmpty
  <2>4. PICK x : x = CHOOSE y \in s : TRUE
    OBVIOUS
  <2>5. x \in s /\ iter[s] = f[x] + iter[s \ {x}] /\ Count(f, s) = f[x] + Count(f, s \ {x})
    BY <2>3, <2>4, <1>2, <1>4
  <2>6. s \ {x} \notin Bad
    BY <2>2, <2>5 DEF StrictSubsetOrdering
  <2> QED
    BY <2>5, <2>6
<1> QED
  BY <1>1, <1>5

-----------------------------------------------------------------------------
\* Sums of integers are integers, sums of natural numbers natural numbers.
LEMMA SumType ==
    ASSUME NEW S, IsFiniteSet(S), NEW f, \A x \in S : f[x] \in Int
    PROVE  /\ SumFunctionOnSet(f, S) \in Int
           /\ (\A x \in S : f[x] >= 0) => SumFunctionOnSet(f, S) >= 0
<1>1. Cardinality(Units(f, S)) \in Nat /\ Cardinality(Debts(f, S)) \in Nat
  BY UnitsFinite, FS_CardinalityType
<1>2. ASSUME \A x \in S : f[x] >= 0 PROVE Cardinality(Debts(f, S)) = 0
  <2>1. Debts(f, S) = {}
    BY <1>2 DEF Debts
  <2> QED
    BY <2>1, FS_EmptySet
<1> QED
  BY <1>1, <1>2, SumIsCount DEF Count

\* The empty sum.
LEMMA SumEmpty == ASSUME NEW f PROVE SumFunctionOnSet(f, {}) = 0
BY SumIsCount, CountEmpty, FS_EmptySet

\* A sum less one of its elements.
LEMMA SumRemove ==
    ASSUME NEW S, IsFiniteSet(S), NEW f, \A x \in S : f[x] \in Int, NEW y \in S
    PROVE  SumFunctionOnSet(f, S) = f[y] + SumFunctionOnSet(f, S \ {y})
<1>1. IsFiniteSet(S \ {y})
  BY FS_RemoveElement
<1> QED
  BY <1>1, SumIsCount, CountRemove

\* A sum with one element more.
LEMMA SumAdd ==
    ASSUME NEW S, IsFiniteSet(S), NEW f, \A x \in S : f[x] \in Int,
           NEW y, y \notin S, f[y] \in Int
    PROVE  SumFunctionOnSet(f, S \cup {y}) = SumFunctionOnSet(f, S) + f[y]
<1>1. IsFiniteSet(S \cup {y})
  BY FS_AddElement
<1>2. (S \cup {y}) \ {y} = S
  OBVIOUS
<1>3. SumFunctionOnSet(f, S \cup {y}) = f[y] + SumFunctionOnSet(f, S)
  BY <1>1, <1>2, SumRemove
<1>4. SumFunctionOnSet(f, S) \in Int
  BY SumType
<1> QED
  BY <1>3, <1>4

\* Only the values on the set count.
LEMMA SumSame ==
    ASSUME NEW S, IsFiniteSet(S), NEW f, NEW g, \A x \in S : f[x] \in Int /\ g[x] = f[x]
    PROVE  SumFunctionOnSet(g, S) = SumFunctionOnSet(f, S)
<1>1. Units(f, S) = Units(g, S) /\ Debts(f, S) = Debts(g, S)
  BY DEF Units, Debts
<1> QED
  BY <1>1, SumIsCount DEF Count

\* One value changes.
LEMMA SumChange ==
    ASSUME NEW S, IsFiniteSet(S), NEW f, NEW g, \A x \in S : f[x] \in Int /\ g[x] \in Int,
           NEW y \in S, \A x \in S : x # y => g[x] = f[x]
    PROVE  SumFunctionOnSet(g, S) = SumFunctionOnSet(f, S) - f[y] + g[y]
<1>1. IsFiniteSet(S \ {y})
  BY FS_RemoveElement
<1>2. SumFunctionOnSet(g, S \ {y}) = SumFunctionOnSet(f, S \ {y})
  BY <1>1, SumSame
<1>3. /\ SumFunctionOnSet(g, S) = g[y] + SumFunctionOnSet(g, S \ {y})
      /\ SumFunctionOnSet(f, S) = f[y] + SumFunctionOnSet(f, S \ {y})
  BY SumRemove
<1>4. SumFunctionOnSet(f, S \ {y}) \in Int
  BY <1>1, SumType
<1> QED
  BY <1>2, <1>3, <1>4

\* Larger values have a larger sum.
LEMMA SumMonotonic ==
    ASSUME NEW S, IsFiniteSet(S), NEW f, NEW g,
           \A x \in S : f[x] \in Int /\ g[x] \in Int /\ f[x] <= g[x]
    PROVE  SumFunctionOnSet(f, S) <= SumFunctionOnSet(g, S)
<1>1. Units(f, S) \subseteq Units(g, S) /\ Debts(g, S) \subseteq Debts(f, S)
  BY DEF Units, Debts
<1>2. /\ IsFiniteSet(Units(f, S)) /\ IsFiniteSet(Debts(f, S))
      /\ IsFiniteSet(Units(g, S)) /\ IsFiniteSet(Debts(g, S))
  BY UnitsFinite
<1>3. /\ Cardinality(Units(f, S)) <= Cardinality(Units(g, S))
      /\ Cardinality(Debts(g, S)) <= Cardinality(Debts(f, S))
  BY <1>1, <1>2, FS_Subset
<1>4. /\ Cardinality(Units(f, S)) \in Nat /\ Cardinality(Units(g, S)) \in Nat
      /\ Cardinality(Debts(f, S)) \in Nat /\ Cardinality(Debts(g, S)) \in Nat
  BY <1>2, FS_CardinalityType
<1> QED
  BY <1>3, <1>4, SumIsCount DEF Count

\* Fewer elements have a smaller sum, if none is negative.
LEMMA SumSubset ==
    ASSUME NEW S, IsFiniteSet(S), NEW T \in SUBSET S, NEW f, \A x \in S : f[x] \in Nat
    PROVE  SumFunctionOnSet(f, T) <= SumFunctionOnSet(f, S)
<1>1. Units(f, T) \subseteq Units(f, S) /\ Debts(f, S) = {} /\ Debts(f, T) = {}
  BY DEF Units, Debts
<1>2. IsFiniteSet(T)
  BY FS_Subset
<1>3. IsFiniteSet(Units(f, S)) /\ IsFiniteSet(Units(f, T))
  BY <1>2, UnitsFinite
<1>4. Cardinality(Units(f, T)) <= Cardinality(Units(f, S))
  BY <1>1, <1>3, FS_Subset
<1>5. Cardinality(Units(f, S)) \in Nat /\ Cardinality(Units(f, T)) \in Nat
  BY <1>3, FS_CardinalityType
<1>6. Cardinality(Debts(f, S)) = 0 /\ Cardinality(Debts(f, T)) = 0
  BY <1>1, FS_EmptySet
<1> QED
  BY <1>2, <1>4, <1>5, <1>6, SumIsCount DEF Count

\* A part of the set and the rest of it.
LEMMA SumSplit ==
    ASSUME NEW S, IsFiniteSet(S), NEW T, IsFiniteSet(T), S \cap T = {},
           NEW f, \A x \in S \cup T : f[x] \in Int
    PROVE  SumFunctionOnSet(f, S \cup T) = SumFunctionOnSet(f, S) + SumFunctionOnSet(f, T)
<1>1. /\ Units(f, S \cup T) = Units(f, S) \cup Units(f, T) /\ Units(f, S) \cap Units(f, T) = {}
      /\ Debts(f, S \cup T) = Debts(f, S) \cup Debts(f, T) /\ Debts(f, S) \cap Debts(f, T) = {}
  BY DEF Units, Debts
<1>2. /\ IsFiniteSet(Units(f, S)) /\ IsFiniteSet(Debts(f, S))
      /\ IsFiniteSet(Units(f, T)) /\ IsFiniteSet(Debts(f, T))
  BY UnitsFinite
<1>3. /\ Cardinality(Units(f, S \cup T)) = Cardinality(Units(f, S)) + Cardinality(Units(f, T))
      /\ Cardinality(Debts(f, S \cup T)) = Cardinality(Debts(f, S)) + Cardinality(Debts(f, T))
  BY <1>1, <1>2, CardDisjoint
<1>4. /\ Cardinality(Units(f, S)) \in Nat /\ Cardinality(Units(f, T)) \in Nat
      /\ Cardinality(Debts(f, S)) \in Nat /\ Cardinality(Debts(f, T)) \in Nat
  BY <1>2, FS_CardinalityType
<1>5. IsFiniteSet(S \cup T)
  BY FS_Union
<1>6. SumFunctionOnSet(f, S \cup T) = Count(f, S \cup T)
  BY <1>5, SumIsCount
<1>7. SumFunctionOnSet(f, S) = Count(f, S) /\ SumFunctionOnSet(f, T) = Count(f, T)
  BY SumIsCount
<1> QED
  BY <1>3, <1>4, <1>6, <1>7 DEF Count

\* Only zeros.
LEMMA SumZero ==
    ASSUME NEW S, IsFiniteSet(S), NEW f, \A x \in S : f[x] = 0
    PROVE  SumFunctionOnSet(f, S) = 0
<1>1. Units(f, S) = {} /\ Debts(f, S) = {}
  BY DEF Units, Debts
<1>2. SumFunctionOnSet(f, S) = Count(f, S)
  BY SumIsCount
<1> QED
  BY <1>1, <1>2, FS_EmptySet DEF Count

\* No element is larger than the sum, if none is negative.
LEMMA SumElement ==
    ASSUME NEW S, IsFiniteSet(S), NEW f, \A x \in S : f[x] \in Nat, NEW y \in S
    PROVE  f[y] <= SumFunctionOnSet(f, S)
<1>1. IsFiniteSet(S \ {y})
  BY FS_RemoveElement
<1>2. SumFunctionOnSet(f, S \ {y}) \in Int /\ SumFunctionOnSet(f, S \ {y}) >= 0
  BY <1>1, SumType
<1> QED
  BY <1>2, SumRemove

(***************************************************************************)
(* The same for the sum of all values of a function.                       *)
(***************************************************************************)
LEMMA SumFunctionChange ==
    ASSUME NEW S, IsFiniteSet(S), NEW f \in [S -> Int], NEW g \in [S -> Int],
           NEW y \in S, \A x \in S : x # y => g[x] = f[x]
    PROVE  /\ SumFunction(f) \in Int
           /\ SumFunction(g) = SumFunction(f) - f[y] + g[y]
<1>1. \A x \in S : f[x] \in Int /\ g[x] \in Int
  OBVIOUS
<1>2. SumFunctionOnSet(g, S) = SumFunctionOnSet(f, S) - f[y] + g[y]
  BY <1>1, SumChange
<1>3. SumFunctionOnSet(f, S) \in Int
  BY <1>1, SumType
<1> QED
  BY <1>1, <1>2, <1>3 DEF SumFunction
=============================================================================
