-------------------------------- MODULE Sums --------------------------------
(***************************************************************************)
(* What SumFunctionOnSet and SumFunction of the community modules compute. *)
(* Both are a fold that is defined by recursion over the subsets of a      *)
(* finite set.  That the recursion has a solution, and what it is worth,   *)
(* is proved by looking at a smallest set for which it fails.              *)
(***************************************************************************)
EXTENDS Integers, Functions, FiniteSetTheorems, WellFoundedInduction, TLAPS

Pick(s) == CHOOSE x \in s : TRUE

Solves(f, S, g) ==
    g = [s \in SUBSET S |-> IF s = {} THEN 0 ELSE f[Pick(s)] + g[s \ {Pick(s)}]]

PartialSums(f, S) == CHOOSE g : Solves(f, S, g)

----------------------------------------------------------------------------

LEMMA Unfolded ==
    ASSUME NEW f, NEW S
    PROVE  SumFunctionOnSet(f, S) = PartialSums(f, S)[S]
  BY Zenon DEF SumFunctionOnSet, FoldFunctionOnSet, MapThenFoldSet, PartialSums, Solves, Pick

LEMMA PickIsIn ==
    ASSUME NEW s, s # {}
    PROVE  Pick(s) \in s
  BY DEF Pick

\* Among sets of subsets of a finite set there is a smallest one.
LEMMA Smallest ==
    ASSUME NEW S, IsFiniteSet(S), NEW Bad, \A T \in Bad : T \subseteq S, Bad # {}
    PROVE  \E T \in Bad : \A U \in Bad : U \subseteq T => U = T
  <1>1. IsWellFoundedOn(StrictSubsetOrdering(S), SUBSET S)
    BY FS_StrictSubsetOrderingWellFounded, FS_FiniteSubsetsOfFinite
  <1>2. Bad \subseteq SUBSET S
    OBVIOUS
  <1>3. PICK T \in Bad : \A U \in Bad : <<U, T>> \notin StrictSubsetOrdering(S)
    BY <1>1, <1>2, WFMin
  <1>4. QED
    BY <1>2, <1>3 DEF StrictSubsetOrdering

LEMMA SolutionAt ==
    ASSUME NEW f, NEW S, NEW g, Solves(f, S, g), NEW s \in SUBSET S
    PROVE  g[s] = IF s = {} THEN 0 ELSE f[Pick(s)] + g[s \ {Pick(s)}]
  <1> DEFINE e(r) == IF r = {} THEN 0 ELSE f[Pick(r)] + g[r \ {Pick(r)}]
  <1>1. g = [r \in SUBSET S |-> e(r)]
    BY DEF Solves
  <1> HIDE DEF e
  <1>2. g[s] = e(s)
    BY <1>1
  <1>3. QED
    BY <1>2 DEF e

\* Two solutions agree where both are defined.
LEMMA SolutionsAgree ==
    ASSUME NEW f, NEW S, NEW T, NEW g, NEW h, IsFiniteSet(S),
           Solves(f, S, g), Solves(f, T, h), NEW s \in SUBSET S, s \in SUBSET T
    PROVE  g[s] = h[s]
  <1>0. /\ \A r \in SUBSET S : g[r] = IF r = {} THEN 0 ELSE f[Pick(r)] + g[r \ {Pick(r)}]
        /\ \A r \in SUBSET T : h[r] = IF r = {} THEN 0 ELSE f[Pick(r)] + h[r \ {Pick(r)}]
    BY SolutionAt
  <1> DEFINE Bad == {r \in SUBSET s : g[r] # h[r]}
  <1>1. SUFFICES ASSUME Bad # {} PROVE FALSE
    OBVIOUS
  <1>2. IsFiniteSet(s) /\ \A r \in Bad : r \subseteq s
    BY FS_Subset
  <1> HIDE DEF Bad
  <1>3. PICK r \in Bad : \A u \in Bad : u \subseteq r => u = r
    BY <1>1, <1>2, Smallest
  <1>4. /\ r \in SUBSET S /\ r \in SUBSET T
        /\ g[r] = (IF r = {} THEN 0 ELSE f[Pick(r)] + g[r \ {Pick(r)}])
        /\ h[r] = (IF r = {} THEN 0 ELSE f[Pick(r)] + h[r \ {Pick(r)}])
    <2>1. r \in SUBSET S /\ r \in SUBSET T
      BY <1>2, <1>3
    <2>2. g[r] = (IF r = {} THEN 0 ELSE f[Pick(r)] + g[r \ {Pick(r)}])
      BY <1>0, <2>1
    <2>3. h[r] = (IF r = {} THEN 0 ELSE f[Pick(r)] + h[r \ {Pick(r)}])
      BY <1>0, <2>1
    <2>4. QED
      BY <2>1, <2>2, <2>3
  <1>5. r # {} /\ g[r \ {Pick(r)}] # h[r \ {Pick(r)}]
    BY <1>4 DEF Bad
  <1>6. r \ {Pick(r)} \in Bad /\ r \ {Pick(r)} # r
    BY <1>2, <1>5, PickIsIn DEF Bad
  <1>7. QED
    BY <1>3, <1>6

\* The recursion has a solution.
LEMMA SolutionExists ==
    ASSUME NEW f, NEW S, IsFiniteSet(S)
    PROVE  Solves(f, S, PartialSums(f, S))
  <1> DEFINE Bad == {T \in SUBSET S : ~ \E g : Solves(f, T, g)}
  <1>1. ASSUME Bad # {} PROVE FALSE
    <2>1. /\ \A T \in Bad : T \subseteq S /\ ~ \E g : Solves(f, T, g)
          /\ \A T \in SUBSET S : T \notin Bad => \E g : Solves(f, T, g)
      OBVIOUS
    <2> HIDE DEF Bad
    <2>2. PICK T \in Bad : \A U \in Bad : U \subseteq T => U = T
      BY <1>1, <2>1, Smallest
    <2>3. \A U \in SUBSET T : U # T => Solves(f, U, PartialSums(f, U)) /\ IsFiniteSet(U)
      BY <2>1, <2>2, FS_Subset DEF PartialSums
    <2> DEFINE G(U) == PartialSums(f, U)[U]
               h == [s \in SUBSET T |-> IF s = {} THEN 0 ELSE f[Pick(s)] + G(s \ {Pick(s)})]
    <2>4. ASSUME NEW U \in SUBSET T, U # T
          PROVE  G(U) = IF U = {} THEN 0 ELSE f[Pick(U)] + G(U \ {Pick(U)})
      <3> DEFINE V == U \ {Pick(U)}
      <3>1. G(U) = IF U = {} THEN 0 ELSE f[Pick(U)] + PartialSums(f, U)[V]
        BY <2>3, <2>4, SolutionAt
      <3>2. ASSUME U # {} PROVE PartialSums(f, U)[V] = PartialSums(f, V)[V]
        <4>1. V \in SUBSET U /\ V \in SUBSET T /\ V # T
          BY <2>4
        <4> HIDE DEF V
        <4>2. Solves(f, U, PartialSums(f, U)) /\ Solves(f, V, PartialSums(f, V))
              /\ IsFiniteSet(U)
          BY <2>3, <2>4, <4>1
        <4>3. QED
          BY <4>1, <4>2, SolutionsAgree
      <3>3. QED
        BY <3>1, <3>2
    <2> HIDE DEF G
    <2>5. \A U \in SUBSET T : U # T => h[U] = G(U)
      BY <2>4
    <2>6. ASSUME NEW s \in SUBSET T, s # {} PROVE h[s \ {Pick(s)}] = G(s \ {Pick(s)})
      <3>1. s \ {Pick(s)} # T /\ s \ {Pick(s)} \in SUBSET T
        BY <2>6, PickIsIn
      <3>2. QED
        BY <2>5, <3>1
    <2>7. h = [s \in SUBSET T |-> IF s = {} THEN 0 ELSE f[Pick(s)] + h[s \ {Pick(s)}]]
      BY <2>6
    <2> HIDE DEF h
    <2>8. Solves(f, T, h)
      BY <2>7 DEF Solves
    <2>9. QED
      BY <2>1, <2>2, <2>8
  <1>2. \E g : Solves(f, S, g)
    BY <1>1
  <1>3. QED
    BY <1>2 DEF PartialSums

----------------------------------------------------------------------------
(* Sums over a finite set.                                                 *)

LEMMA SumEmpty == ASSUME NEW f PROVE SumFunctionOnSet(f, {}) = 0
  <1>1. Solves(f, {}, PartialSums(f, {}))
    BY SolutionExists, FS_EmptySet
  <1>2. QED
    BY <1>1, SolutionAt, Unfolded

LEMMA SumPicked ==
    ASSUME NEW f, NEW S, IsFiniteSet(S), S # {}
    PROVE  SumFunctionOnSet(f, S) = f[Pick(S)] + SumFunctionOnSet(f, S \ {Pick(S)})
  <1> DEFINE T == S \ {Pick(S)}
  <1>1. IsFiniteSet(T) /\ T \in SUBSET S
    BY FS_Subset
  <1> HIDE DEF T
  <1>2. Solves(f, S, PartialSums(f, S)) /\ Solves(f, T, PartialSums(f, T))
    BY <1>1, SolutionExists
  <1>3. PartialSums(f, S)[S] = f[Pick(S)] + PartialSums(f, S)[T]
    BY <1>2, SolutionAt DEF T
  <1>4. PartialSums(f, S)[T] = PartialSums(f, T)[T]
    BY <1>1, <1>2, SolutionsAgree
  <1>5. QED
    BY <1>3, <1>4, Unfolded DEF T

LEMMA SumType ==
    ASSUME NEW S, IsFiniteSet(S), NEW f, \A x \in S : f[x] \in Nat
    PROVE  SumFunctionOnSet(f, S) \in Nat
  <1> DEFINE Bad == {T \in SUBSET S : SumFunctionOnSet(f, T) \notin Nat}
  <1>1. SUFFICES ASSUME Bad # {} PROVE FALSE
    OBVIOUS
  <1>2. \A T \in Bad : T \subseteq S
    OBVIOUS
  <1> HIDE DEF Bad
  <1>3. PICK T \in Bad : \A U \in Bad : U \subseteq T => U = T
    BY <1>1, <1>2, Smallest
  <1>4. T # {} /\ T \subseteq S /\ IsFiniteSet(T)
    <2>1. SumFunctionOnSet(f, {}) \in Nat
      BY SumEmpty
    <2>2. T # {}
      BY <2>1 DEF Bad
    <2>3. T \subseteq S
      BY <1>2, <1>3
    <2>4. IsFiniteSet(T)
      BY <2>3, FS_Subset
    <2>5. QED
      BY <2>2, <2>3, <2>4
  <1>5. SumFunctionOnSet(f, T) = f[Pick(T)] + SumFunctionOnSet(f, T \ {Pick(T)})
    BY <1>4, SumPicked
  <1>6. Pick(T) \in T /\ f[Pick(T)] \in Nat
    BY <1>4, PickIsIn
  <1>7. SumFunctionOnSet(f, T \ {Pick(T)}) \in Nat
    BY <1>3, <1>4, <1>6 DEF Bad
  <1>8. QED
    BY <1>5, <1>6, <1>7 DEF Bad

\* Any member can be taken out of the sum.
LEMMA SumWithout ==
    ASSUME NEW S, IsFiniteSet(S), NEW f, \A y \in S : f[y] \in Nat, NEW x \in S
    PROVE  SumFunctionOnSet(f, S) = f[x] + SumFunctionOnSet(f, S \ {x})
  <1> DEFINE Bad == {T \in SUBSET S : \E y \in T :
                       SumFunctionOnSet(f, T) # f[y] + SumFunctionOnSet(f, T \ {y})}
  <1>1. SUFFICES ASSUME Bad # {} PROVE FALSE
    OBVIOUS
  <1>2. \A T \in Bad : T \subseteq S
    OBVIOUS
  <1> HIDE DEF Bad
  <1>3. PICK T \in Bad : \A U \in Bad : U \subseteq T => U = T
    BY <1>1, <1>2, Smallest
  <1>4. PICK y \in T : SumFunctionOnSet(f, T) # f[y] + SumFunctionOnSet(f, T \ {y})
    BY DEF Bad
  <1> DEFINE p == Pick(T)
  <1>5. p \in T /\ IsFiniteSet(T) /\ T \subseteq S
    BY <1>2, PickIsIn, FS_Subset
  <1>6. SumFunctionOnSet(f, T) = f[p] + SumFunctionOnSet(f, T \ {p})
    BY <1>5, SumPicked
  <1> HIDE DEF p
  <1>7. p # y
    BY <1>4, <1>6
  <1>8. ASSUME NEW x1 \in T, NEW x2 \in T, x1 # x2
        PROVE  SumFunctionOnSet(f, T \ {x1})
                 = f[x2] + SumFunctionOnSet(f, (T \ {x1}) \ {x2})
    <2> DEFINE U == T \ {x1}
    <2>1. U \in SUBSET S /\ x2 \in U /\ U \subseteq T /\ U # T
      BY <1>5, <1>8
    <2> HIDE DEF U
    <2>2. U \notin Bad
      BY <1>3, <2>1
    <2>3. SumFunctionOnSet(f, U) = f[x2] + SumFunctionOnSet(f, U \ {x2})
      BY <2>1, <2>2 DEF Bad
    <2>4. QED
      BY <2>3 DEF U
  <1>9. /\ SumFunctionOnSet(f, T \ {p}) = f[y] + SumFunctionOnSet(f, (T \ {p}) \ {y})
        /\ SumFunctionOnSet(f, T \ {y}) = f[p] + SumFunctionOnSet(f, (T \ {y}) \ {p})
    BY <1>4, <1>5, <1>7, <1>8
  <1>10. (T \ {p}) \ {y} = (T \ {y}) \ {p}
    OBVIOUS
  <1>11. /\ f[p] \in Nat /\ f[y] \in Nat
         /\ SumFunctionOnSet(f, (T \ {y}) \ {p}) \in Nat
    <2>1. IsFiniteSet((T \ {y}) \ {p})
      BY <1>5, FS_Subset
    <2>2. QED
      BY <1>5, <2>1, SumType
  <1>12. QED
    BY <1>4, <1>6, <1>9, <1>10, <1>11

\* A sum depends on the values that are summed, and grows with them.
LEMMA SumMonotone ==
    ASSUME NEW S, IsFiniteSet(S), NEW f, NEW g,
           \A x \in S : f[x] \in Nat /\ g[x] \in Nat /\ f[x] <= g[x]
    PROVE  SumFunctionOnSet(f, S) <= SumFunctionOnSet(g, S)
  <1> DEFINE Bad == {T \in SUBSET S : ~ SumFunctionOnSet(f, T) <= SumFunctionOnSet(g, T)}
  <1>1. SUFFICES ASSUME Bad # {} PROVE FALSE
    OBVIOUS
  <1>2. \A T \in Bad : T \subseteq S
    OBVIOUS
  <1> HIDE DEF Bad
  <1>3. PICK T \in Bad : \A U \in Bad : U \subseteq T => U = T
    BY <1>1, <1>2, Smallest
  <1>4. T # {} /\ IsFiniteSet(T) /\ IsFiniteSet(T \ {Pick(T)}) /\ T \subseteq S
    <2>1. SumFunctionOnSet(f, {}) <= SumFunctionOnSet(g, {})
      BY SumEmpty
    <2>2. T # {}
      BY <2>1 DEF Bad
    <2>3. T \subseteq S
      BY <1>2, <1>3
    <2>4. IsFiniteSet(T) /\ IsFiniteSet(T \ {Pick(T)})
      BY <2>3, FS_Subset
    <2>5. QED
      BY <2>2, <2>3, <2>4
  <1> DEFINE p == Pick(T)
             U == T \ {p}
  <1>5. p \in T
    BY <1>4, PickIsIn
  <1>6. /\ SumFunctionOnSet(f, T) = f[p] + SumFunctionOnSet(f, U)
        /\ SumFunctionOnSet(g, T) = g[p] + SumFunctionOnSet(g, U)
    BY <1>4, SumPicked
  <1>7. SumFunctionOnSet(f, U) <= SumFunctionOnSet(g, U)
    BY <1>3, <1>4, <1>5 DEF Bad
  <1>8. SumFunctionOnSet(f, U) \in Nat /\ SumFunctionOnSet(g, U) \in Nat
    BY <1>4, SumType
  <1>9. f[p] \in Nat /\ g[p] \in Nat /\ f[p] <= g[p]
    BY <1>4, <1>5
  <1> HIDE DEF p, U
  <1>10. QED
    BY <1>6, <1>7, <1>8, <1>9 DEF Bad

LEMMA SumSame ==
    ASSUME NEW S, IsFiniteSet(S), NEW f, NEW g,
           \A x \in S : f[x] \in Nat /\ g[x] = f[x]
    PROVE  SumFunctionOnSet(f, S) = SumFunctionOnSet(g, S)
  <1>1. /\ SumFunctionOnSet(f, S) <= SumFunctionOnSet(g, S)
        /\ SumFunctionOnSet(g, S) <= SumFunctionOnSet(f, S)
    BY SumMonotone
  <1>2. SumFunctionOnSet(f, S) \in Nat /\ SumFunctionOnSet(g, S) \in Nat
    BY SumType
  <1>3. QED
    BY <1>1, <1>2

LEMMA SumStrict ==
    ASSUME NEW S, IsFiniteSet(S), NEW f, NEW g,
           \A x \in S : f[x] \in Nat /\ g[x] \in Nat /\ f[x] <= g[x],
           NEW y \in S, f[y] < g[y]
    PROVE  SumFunctionOnSet(f, S) < SumFunctionOnSet(g, S)
  <1> DEFINE T == S \ {y}
  <1>1. IsFiniteSet(T) /\ T \subseteq S
    BY FS_Subset
  <1>2. /\ SumFunctionOnSet(f, S) = f[y] + SumFunctionOnSet(f, T)
        /\ SumFunctionOnSet(g, S) = g[y] + SumFunctionOnSet(g, T)
    BY SumWithout
  <1> HIDE DEF T
  <1>3. SumFunctionOnSet(f, T) <= SumFunctionOnSet(g, T)
    BY <1>1, SumMonotone
  <1>4. SumFunctionOnSet(f, T) \in Nat /\ SumFunctionOnSet(g, T) \in Nat
    BY <1>1, SumType
  <1>5. QED
    BY <1>2, <1>3, <1>4

\* Fewer members sum to less.
LEMMA SumSubset ==
    ASSUME NEW S, IsFiniteSet(S), NEW f, \A x \in S : f[x] \in Nat, NEW U \in SUBSET S
    PROVE  SumFunctionOnSet(f, U) <= SumFunctionOnSet(f, S)
  <1> DEFINE Bad == {T \in SUBSET S : U \subseteq T
                        /\ ~ SumFunctionOnSet(f, U) <= SumFunctionOnSet(f, T)}
  <1>1. SUFFICES ASSUME Bad # {} PROVE FALSE
    OBVIOUS
  <1>2. \A T \in Bad : T \subseteq S /\ U \subseteq T
    OBVIOUS
  <1> HIDE DEF Bad
  <1>3. PICK T \in Bad : \A V \in Bad : V \subseteq T => V = T
    BY <1>1, <1>2, Smallest
  <1>4. IsFiniteSet(T) /\ IsFiniteSet(U)
    BY <1>2, FS_Subset
  <1>5. SumFunctionOnSet(f, U) \in Nat
    BY <1>4, SumType
  <1>6. U # T
    BY <1>3, <1>5 DEF Bad
  <1>7. PICK y \in T : y \notin U
    BY <1>2, <1>6
  <1> DEFINE V == T \ {y}
  <1>8. V \in SUBSET S /\ U \subseteq V /\ V \subseteq T /\ V # T /\ IsFiniteSet(V)
    BY <1>2, <1>4, <1>7, FS_Subset
  <1>9. SumFunctionOnSet(f, T) = f[y] + SumFunctionOnSet(f, V)
    BY <1>2, <1>4, SumWithout
  <1> HIDE DEF V
  <1>10. SumFunctionOnSet(f, U) <= SumFunctionOnSet(f, V)
    BY <1>3, <1>8 DEF Bad
  <1>11. SumFunctionOnSet(f, V) \in Nat /\ f[y] \in Nat
    BY <1>2, <1>8, SumType
  <1>12. QED
    BY <1>5, <1>9, <1>10, <1>11 DEF Bad

\* Values that differ at one member: the sums differ by as much.
LEMMA SumChange ==
    ASSUME NEW S, IsFiniteSet(S), NEW f, NEW g, NEW y \in S,
           \A x \in S : f[x] \in Nat /\ g[x] \in Nat /\ (x # y => g[x] = f[x])
    PROVE  SumFunctionOnSet(g, S) + f[y] = SumFunctionOnSet(f, S) + g[y]
  <1> DEFINE T == S \ {y}
  <1>1. IsFiniteSet(T) /\ T \subseteq S
    BY FS_Subset
  <1>2. /\ SumFunctionOnSet(f, S) = f[y] + SumFunctionOnSet(f, T)
        /\ SumFunctionOnSet(g, S) = g[y] + SumFunctionOnSet(g, T)
    BY SumWithout
  <1>3. \A x \in T : f[x] \in Nat /\ g[x] = f[x]
    OBVIOUS
  <1> HIDE DEF T
  <1>4. SumFunctionOnSet(f, T) = SumFunctionOnSet(g, T)
    BY <1>1, <1>3, SumSame
  <1>5. SumFunctionOnSet(f, T) \in Nat /\ f[y] \in Nat /\ g[y] \in Nat
    BY <1>1, <1>3, SumType
  <1>6. QED
    BY <1>2, <1>4, <1>5

\* SumFunction sums all values of a function.
LEMMA SumOfAll ==
    ASSUME NEW S, NEW f, DOMAIN f = S
    PROVE  SumFunction(f) = SumFunctionOnSet(f, S)
  BY DEF SumFunction
=============================================================================
