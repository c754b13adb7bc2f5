-------------------------------- MODULE Sums --------------------------------
(***************************************************************************)
(* Sums over finite sets.  The community modules define SumFunctionOnSet   *)
(* by a fold, that is by a function chosen among those that satisfy a      *)
(* recursion.  That it exists and is unique is proved here for any finite  *)
(* set, by looking at a smallest subset for which it fails; the facts on   *)
(* sums that the proofs about scores and ratings cite follow from it.      *)
(***************************************************************************)
EXTENDS Integers, FiniteSets, Functions, FiniteSetTheorems, WellFoundedInduction, TLAPS

\* One step of the recursion by which the community modules define a sum.
Add(f, g, T) == IF T = {} THEN 0 ELSE LET x == CHOOSE x \in T : TRUE IN f[x] + g[T \ {x}]
Adds(f, g, S) == g = [T \in SUBSET S |-> Add(f, g, T)]

\* Of the subsets of a finite set that have a property one has no smaller one below it.
LEMMA MinimalSubset ==
  ASSUME NEW S, IsFiniteSet(S), NEW Bad, Bad \subseteq SUBSET S, Bad # {}
  PROVE  \E T \in Bad : \A U \in SUBSET T : U # T => U \notin Bad
<1>1. IsWellFoundedOn(StrictSubsetOrdering(S), FiniteSubsetsOf(S))
  BY FS_StrictSubsetOrderingWellFounded
<1>2. Bad \subseteq FiniteSubsetsOf(S)
  BY FS_Subset DEF FiniteSubsetsOf
<1>3. PICK T \in Bad : \A U \in Bad : ~ (<<U, T>> \in StrictSubsetOrdering(S))
  BY <1>1, <1>2, WFMin
<1>4. ASSUME NEW U \in SUBSET T, U # T, U \in Bad
      PROVE  FALSE
  <2>1. <<U, T>> \in (SUBSET S) \X (SUBSET S)
    BY <1>4
  <2> QED
    BY <1>3, <1>4, <2>1 DEF StrictSubsetOrdering
<1> QED
  BY <1>3, <1>4

\* Two functions that satisfy the recursion agree where both are defined.
LEMMA AddsUnique ==
  ASSUME NEW f, NEW S, IsFiniteSet(S), NEW U \in SUBSET S, NEW V \in SUBSET S,
         NEW g, NEW h, Adds(f, g, U), Adds(f, h, V)
  PROVE  \A T \in SUBSET (U \cap V) : g[T] = h[T]
<1> DEFINE Bad == {T \in SUBSET (U \cap V) : g[T] # h[T]}
<1>1. SUFFICES ASSUME Bad # {}
               PROVE  FALSE
  OBVIOUS
<1>2. Bad \subseteq SUBSET S
  OBVIOUS
<1>3. PICK T \in Bad : \A W \in SUBSET T : W # T => W \notin Bad
  <2> HIDE DEF Bad
  <2> QED
    BY <1>1, <1>2, MinimalSubset
<1>4. g[T] = Add(f, g, T) /\ h[T] = Add(f, h, T)
  BY DEF Adds
<1>5. CASE T = {}
  BY <1>4, <1>5 DEF Add
<1>6. CASE T # {}
  <2> DEFINE x == CHOOSE x \in T : TRUE
  <2>1. x \in T
    BY <1>6
  <2>2. g[T \ {x}] = h[T \ {x}]
    BY <2>1, <1>3
  <2>3. g[T] = f[x] + g[T \ {x}] /\ h[T] = f[x] + h[T \ {x}]
    BY <1>4, <1>6 DEF Add
  <2> QED
    BY <2>2, <2>3
<1> QED
  BY <1>5, <1>6

\* A function that satisfies the recursion exists.
LEMMA AddsExists ==
  ASSUME NEW f, NEW S, IsFiniteSet(S)
  PROVE  \E g : Adds(f, g, S)
<1> DEFINE Bad == {U \in SUBSET S : ~ \E g : Adds(f, g, U)}
<1>1. SUFFICES ASSUME Bad # {}
               PROVE  FALSE
  OBVIOUS
<1>2. Bad \subseteq SUBSET S
  OBVIOUS
<1>3. PICK U \in Bad : \A W \in SUBSET U : W # U => W \notin Bad
  <2> HIDE DEF Bad
  <2> QED
    BY <1>1, <1>2, MinimalSubset
<1> DEFINE of(W) == CHOOSE g : Adds(f, g, W)
           rest == [W \in SUBSET U |-> of(W)[W]]
           top == [W \in SUBSET U |-> Add(f, rest, W)]
<1>4. \A W \in SUBSET U : W # U => Adds(f, of(W), W)
  BY <1>3
<1>5. \A W \in SUBSET U : W # U => of(W)[W] = Add(f, of(W), W)
  <2> HIDE DEF of
  <2> QED
    BY <1>4 DEF Adds
<1>6. ASSUME NEW W \in SUBSET U, W # U, NEW x \in W
      PROVE  of(W)[W \ {x}] = of(W \ {x})[W \ {x}]
  <2>1. Adds(f, of(W), W) /\ Adds(f, of(W \ {x}), W \ {x})
    BY <1>4, <1>6
  <2>2. W \in SUBSET S /\ W \ {x} \in SUBSET S
    OBVIOUS
  <2> HIDE DEF of
  <2>3. \A T \in SUBSET (W \cap (W \ {x})) : of(W)[T] = of(W \ {x})[T]
    BY <2>1, <2>2, AddsUnique
  <2> QED
    BY <2>3
<1>7. ASSUME NEW W \in SUBSET U, W # U
      PROVE  Add(f, of(W), W) = Add(f, rest, W)
  <2>1. CASE W = {}
    BY <2>1 DEF Add
  <2>2. CASE W # {}
    <3> DEFINE x == CHOOSE x \in W : TRUE
    <3>1. x \in W
      BY <2>2
    <3>2. of(W)[W \ {x}] = of(W \ {x})[W \ {x}]
      BY <1>6, <1>7, <3>1
    <3>3. rest[W \ {x}] = of(W \ {x})[W \ {x}]
      OBVIOUS
    <3> HIDE DEF of, rest
    <3> QED
      BY <2>2, <3>2, <3>3 DEF Add
  <2> QED
    BY <2>1, <2>2
<1>8. \A W \in SUBSET U : W # U => top[W] = rest[W]
  BY <1>5, <1>7
<1>9. ASSUME NEW W \in SUBSET U
      PROVE  Add(f, rest, W) = Add(f, top, W)
  <2>1. CASE W = {}
    BY <2>1 DEF Add
  <2>2. CASE W # {}
    <3> DEFINE x == CHOOSE x \in W : TRUE
    <3>1. x \in W
      BY <2>2
    <3>2. top[W \ {x}] = rest[W \ {x}]
      BY <1>8, <3>1
    <3> HIDE DEF rest, top
    <3> QED
      BY <2>2, <3>2 DEF Add
  <2> QED
    BY <2>1, <2>2
<1>10. Adds(f, top, U)
  <2>1. top = [W \in SUBSET U |-> Add(f, top, W)]
    BY <1>9
  <2> HIDE DEF top
  <2> QED
    BY <2>1 DEF Adds
<1> QED
  BY <1>10, <1>3

\* The sums of the community modules are the values of that function.
LEMMA SumIsAdds ==
  ASSUME NEW f, NEW S, IsFiniteSet(S)
  PROVE  \E g : Adds(f, g, S) /\ \A T \in SUBSET S : SumFunctionOnSet(f, T) = g[T]
<1>1. PICK g : Adds(f, g, S)
  BY AddsExists
<1>2. ASSUME NEW T \in SUBSET S
      PROVE  SumFunctionOnSet(f, T) = g[T]
  <2>1. SumFunctionOnSet(f, T) = (CHOOSE h : Adds(f, h, T))[T]
    BY SMT DEF SumFunctionOnSet, FoldFunctionOnSet, MapThenFoldSet, Adds, Add
  <2>2. IsFiniteSet(T)
    BY FS_Subset
  <2>3. \E h : Adds(f, h, T)
    BY <2>2, AddsExists
  <2>4. PICK h : Adds(f, h, T) /\ SumFunctionOnSet(f, T) = h[T]
    BY <2>1, <2>3
  <2>5. S \in SUBSET S
    OBVIOUS
  <2>6. \A U \in SUBSET (T \cap S) : h[U] = g[U]
    BY <1>1, <2>4, <2>5, AddsUnique
  <2> QED
    BY <2>4, <2>6
<1> QED
  BY <1>1, <1>2

\* What SUM is without COALESCE's rows: nothing adds up to 0.
LEMMA SumEmpty == ASSUME NEW f PROVE SumFunctionOnSet(f, {}) = 0
<1>1. PICK g : Adds(f, g, {}) /\ \A T \in SUBSET {} : SumFunctionOnSet(f, T) = g[T]
  BY SumIsAdds, FS_EmptySet
<1>2. {} \in SUBSET {}
  OBVIOUS
<1> QED
  BY <1>1, <1>2 DEF Adds, Add

\* One of the elements comes off the sum ...
LEMMA SumChosen ==
  ASSUME NEW f, NEW S, IsFiniteSet(S), S # {}
  PROVE  \E x \in S : SumFunctionOnSet(f, S) = f[x] + SumFunctionOnSet(f, S \ {x})
<1>1. PICK g : Adds(f, g, S) /\ \A T \in SUBSET S : SumFunctionOnSet(f, T) = g[T]
  BY SumIsAdds
<1> DEFINE x == CHOOSE x \in S : TRUE
<1>2. x \in S
  OBVIOUS
<1>3. g[S] = f[x] + g[S \ {x}]
  BY <1>1 DEF Adds, Add
<1>4. SumFunctionOnSet(f, S) = g[S] /\ SumFunctionOnSet(f, S \ {x}) = g[S \ {x}]
  BY <1>1
<1> HIDE DEF x
<1> QED
  BY <1>2, <1>3, <1>4

\* The sum of elements of a set closed under addition is in the set.
LEMMA SumClosed ==
  ASSUME NEW f, NEW S, IsFiniteSet(S), NEW R, 0 \in R,
         \A a, b \in R : a + b \in R, \A x \in S : f[x] \in R
  PROVE  SumFunctionOnSet(f, S) \in R
<1> DEFINE Bad == {T \in SUBSET S : SumFunctionOnSet(f, T) \notin R}
<1>1. SUFFICES ASSUME Bad # {}
               PROVE  FALSE
  OBVIOUS
<1>2. Bad \subseteq SUBSET S
  OBVIOUS
<1>3. PICK T \in Bad : \A W \in SUBSET T : W # T => W \notin Bad
  <2> HIDE DEF Bad
  <2> QED
    BY <1>1, <1>2, MinimalSubset
<1>4. IsFiniteSet(T)
  BY FS_Subset
<1>5. CASE T = {}
  BY <1>5, SumEmpty
<1>6. CASE T # {}
  <2>1. PICK x \in T : SumFunctionOnSet(f, T) = f[x] + SumFunctionOnSet(f, T \ {x})
    BY <1>4, <1>6, SumChosen
  <2>2. SumFunctionOnSet(f, T \ {x}) \in R
    BY <1>3
  <2> QED
    BY <2>1, <2>2
<1> QED
  BY <1>5, <1>6

\* Sums of integers and of natural numbers are such.
LEMMA SumInt ==
  ASSUME NEW f, NEW S, IsFiniteSet(S), \A x \in S : f[x] \in Int
  PROVE  SumFunctionOnSet(f, S) \in Int
<1> 0 \in Int /\ \A a, b \in Int : a + b \in Int
  OBVIOUS
<1> QED
  BY SumClosed

LEMMA SumNat ==
  ASSUME NEW f, NEW S, IsFiniteSet(S), \A x \in S : f[x] \in Nat
  PROVE  SumFunctionOnSet(f, S) \in Nat
<1> 0 \in Nat /\ \A a, b \in Nat : a + b \in Nat
  OBVIOUS
<1> QED
  BY SumClosed

\* ... and so does any other.
LEMMA SumRemove ==
  ASSUME NEW f, NEW S, IsFiniteSet(S), \A x \in S : f[x] \in Int, NEW y \in S
  PROVE  SumFunctionOnSet(f, S) = f[y] + SumFunctionOnSet(f, S \ {y})
<1> DEFINE Bad == {T \in SUBSET S : \E z \in T :
                      SumFunctionOnSet(f, T) # f[z] + SumFunctionOnSet(f, T \ {z})}
<1>1. SUFFICES ASSUME Bad # {}
               PROVE  FALSE
  OBVIOUS
<1>2. Bad \subseteq SUBSET S
  OBVIOUS
<1>3. PICK T \in Bad : \A W \in SUBSET T : W # T => W \notin Bad
  <2> HIDE DEF Bad
  <2> QED
    BY <1>1, <1>2, MinimalSubset
<1>4. PICK z \in T : SumFunctionOnSet(f, T) # f[z] + SumFunctionOnSet(f, T \ {z})
  OBVIOUS
<1>5. \A W \in SUBSET S : IsFiniteSet(W) /\ SumFunctionOnSet(f, W) \in Int
  BY FS_Subset, SumInt
<1>6. PICK x \in T : SumFunctionOnSet(f, T) = f[x] + SumFunctionOnSet(f, T \ {x})
  BY <1>4, <1>5, SumChosen
<1>7. x # z
  BY <1>4, <1>6
<1>8. SumFunctionOnSet(f, T \ {x}) = f[z] + SumFunctionOnSet(f, (T \ {x}) \ {z})
  BY <1>3, <1>7
<1>9. SumFunctionOnSet(f, T \ {z}) = f[x] + SumFunctionOnSet(f, (T \ {z}) \ {x})
  BY <1>3, <1>7
<1>10. (T \ {x}) \ {z} = (T \ {z}) \ {x}
  OBVIOUS
<1>11. /\ f[x] \in Int /\ f[z] \in Int
       /\ SumFunctionOnSet(f, (T \ {z}) \ {x}) \in Int
  BY <1>5
<1> DEFINE rest == SumFunctionOnSet(f, (T \ {z}) \ {x})
<1>12. f[x] + (f[z] + rest) = f[z] + (f[x] + rest)
  <2>1. rest \in Int
    BY <1>11
  <2> HIDE DEF rest
  <2> QED
    BY <1>11, <2>1
<1>13. SumFunctionOnSet(f, T) = f[x] + (f[z] + rest)
  BY <1>6, <1>8, <1>10
<1>14. f[z] + SumFunctionOnSet(f, T \ {z}) = f[z] + (f[x] + rest)
  BY <1>9
<1> QED
  BY <1>4, <1>12, <1>13, <1>14
=============================================================================
