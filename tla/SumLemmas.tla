----------------------------- MODULE SumLemmas -----------------------------
(***************************************************************************)
(* Facts about SumFunctionOnSet of the community modules, for functions    *)
(* into the integers: what the balances and the supply of module Ledger    *)
(* are made of.                                                            *)
(***************************************************************************)
EXTENDS Integers, FiniteSets, Functions, FiniteSetTheorems, TLAPS

Pick(s) == CHOOSE x \in s : TRUE

IsIter(g, f, U) ==
  g = [s \in SUBSET U |-> IF s = {} THEN 0 ELSE f[Pick(s)] + g[s \ {Pick(s)}]]

Iter(f, U) == CHOOSE g : IsIter(g, f, U)

(* The fold of the community modules is the recursive function IsIter       *)
(* describes.                                                               *)
LEMMA SumIsIter ==
  ASSUME NEW f, NEW S
  PROVE  SumFunctionOnSet(f, S) = Iter(f, S)[S]
  BY Zenon DEF SumFunctionOnSet, FoldFunctionOnSet, MapThenFoldSet, Iter, IsIter, Pick

(* A nonempty set of subsets of a finite set has a minimal member: what     *)
(* takes the place of induction on the size of a set.                       *)
LEMMA MinimalSubset ==
  ASSUME NEW S, IsFiniteSet(S), NEW Bad \in SUBSET SUBSET S, Bad # {}
  PROVE  \E W \in Bad : \A V \in SUBSET W : V # W => V \notin Bad
<1>1. IsWellFoundedOn(StrictSubsetOrdering(S), SUBSET S)
  BY FS_StrictSubsetOrderingWellFounded, FS_FiniteSubsetsOfFinite, Zenon
<1>2. PICK W \in Bad : \A V \in Bad : ~(<<V, W>> \in StrictSubsetOrdering(S))
  BY <1>1, WFMin, Zenon
<1>3. QED BY <1>2 DEF StrictSubsetOrdering

(* Two such functions agree wherever both are defined.                      *)
LEMMA IterUnique ==
  ASSUME NEW f, NEW S, IsFiniteSet(S), NEW U \in SUBSET S, NEW V \in SUBSET S,
         NEW g, NEW h, IsIter(g, f, U), IsIter(h, f, V),
         NEW W \in SUBSET U, W \in SUBSET V
  PROVE  g[W] = h[W]
<1> DEFINE Bad == {X \in SUBSET (U \cap V) : g[X] # h[X]}
<1>1. SUFFICES ASSUME Bad # {} PROVE FALSE
  OBVIOUS
<1>2. PICK X \in Bad : \A Y \in SUBSET X : Y # X => Y \notin Bad
  <2>1. Bad \in SUBSET SUBSET S OBVIOUS
  <2> HIDE DEF Bad
  <2>2. QED BY <1>1, <2>1, MinimalSubset
<1>3. X # {}
  BY DEF IsIter
<1>4. Pick(X) \in X
  BY <1>3 DEF Pick
<1>5. g[X \ {Pick(X)}] = h[X \ {Pick(X)}]
  BY <1>2, <1>4
<1>6. g[X] = h[X]
  BY <1>3, <1>5 DEF IsIter
<1>7. QED BY <1>6

(* Such a function exists on the subsets of every finite set.               *)
LEMMA IterExists ==
  ASSUME NEW f, NEW S, IsFiniteSet(S)
  PROVE  \E g : IsIter(g, f, S)
<1> DEFINE Bad == {X \in SUBSET S : ~\E g : IsIter(g, f, X)}
<1>1. SUFFICES ASSUME Bad # {} PROVE FALSE
  OBVIOUS
<1>2. PICK X \in Bad : \A Y \in SUBSET X : Y # X => Y \notin Bad
  <2>1. Bad \in SUBSET SUBSET S OBVIOUS
  <2> HIDE DEF Bad
  <2>2. QED BY <1>1, <2>1, MinimalSubset
<1>3. \A Y \in SUBSET X : Y # X => IsIter(Iter(f, Y), f, Y)
  <2> SUFFICES ASSUME NEW Y \in SUBSET X, Y # X PROVE IsIter(Iter(f, Y), f, Y)
    OBVIOUS
  <2>1. Y \in SUBSET S /\ Y \notin Bad
    BY <1>2
  <2>2. \E g : IsIter(g, f, Y)
    BY <2>1
  <2>3. QED BY <2>2, Zenon DEF Iter
<1> DEFINE H(s) == Iter(f, s)[s]
           new == [s \in SUBSET X |-> IF s = {} THEN 0 ELSE f[Pick(s)] + H(s \ {Pick(s)})]
<1>4. \A Y \in SUBSET X : Y # X => new[Y] = H(Y)
  <2> SUFFICES ASSUME NEW Y \in SUBSET X, Y # X PROVE new[Y] = H(Y)
    OBVIOUS
  <2>1. IsIter(Iter(f, Y), f, Y)
    BY <1>3
  <2>2. CASE Y = {}
    BY <2>1, <2>2 DEF IsIter
  <2>3. CASE Y # {}
    <3> DEFINE Z == Y \ {Pick(Y)}
    <3>1. Pick(Y) \in Y
      BY <2>3 DEF Pick
    <3>2. Z \in SUBSET X /\ Z # X /\ Z \in SUBSET Y
      BY <3>1
    <3>3. IsIter(Iter(f, Z), f, Z)
      BY <1>3, <3>2
    <3>4. Iter(f, Y)[Z] = Iter(f, Z)[Z]
      <4>1. X \in SUBSET S /\ Y \in SUBSET S /\ Z \in SUBSET S /\ Z \in SUBSET Z
        BY <3>2
      <4> HIDE DEF Z
      <4>2. QED BY <2>1, <3>2, <3>3, <4>1, IterUnique
    <3>5. H(Y) = f[Pick(Y)] + Iter(f, Y)[Z]
      BY <2>1, <2>3 DEF IsIter
    <3>6. new[Y] = f[Pick(Y)] + H(Z)
      BY <2>3
    <3> HIDE DEF new
    <3>7. QED BY <3>4, <3>5, <3>6
  <2>4. QED BY <2>2, <2>3
<1>5. IsIter(new, f, X)
  <2>1. \A s \in SUBSET X : s # {} => s \ {Pick(s)} \in SUBSET X /\ s \ {Pick(s)} # X
    BY DEF Pick
  <2>2. \A s \in SUBSET X : s # {} => new[s \ {Pick(s)}] = H(s \ {Pick(s)})
    BY <1>4, <2>1
  <2> DEFINE again == [s \in SUBSET X |-> IF s = {} THEN 0 ELSE f[Pick(s)] + new[s \ {Pick(s)}]]
  <2>3. new = again
    <3> HIDE DEF H
    <3> QED BY <2>2
  <2>4. QED BY <2>3 DEF IsIter
<1>6. QED BY <1>2, <1>5

(* So the chosen function is one.                                           *)
LEMMA IterIsIter ==
  ASSUME NEW f, NEW S, IsFiniteSet(S)
  PROVE  IsIter(Iter(f, S), f, S)
  BY IterExists, Zenon DEF Iter

(* The sum over no elements, the balance of an address without outputs, is  *)
(* 0.                                                                       *)
THEOREM SumEmpty == \A f : SumFunctionOnSet(f, {}) = 0
<1> TAKE f
<1>1. IsIter(Iter(f, {}), f, {})
  BY IterIsIter, FS_EmptySet, Zenon
<1>2. QED BY <1>1, SumIsIter DEF IsIter

(* A sum is one summand and the sum over the other elements.                *)
THEOREM SumStep ==
  ASSUME NEW f, NEW S, IsFiniteSet(S), S # {}
  PROVE  /\ Pick(S) \in S
         /\ SumFunctionOnSet(f, S) = f[Pick(S)] + SumFunctionOnSet(f, S \ {Pick(S)})
<1> DEFINE R == S \ {Pick(S)}
<1>1. Pick(S) \in S
  BY DEF Pick
<1>2. IsFiniteSet(R)
  BY FS_Subset
<1>3. IsIter(Iter(f, S), f, S) /\ IsIter(Iter(f, R), f, R)
  BY <1>2, IterIsIter, Zenon
<1>4. Iter(f, S)[S] = f[Pick(S)] + Iter(f, S)[R]
  BY <1>3 DEF IsIter
<1>5. Iter(f, S)[R] = Iter(f, R)[R]
  <2>1. R \in SUBSET S /\ R \in SUBSET R /\ S \in SUBSET S
    OBVIOUS
  <2> HIDE DEF R
  <2>2. QED BY <1>3, <2>1, IterUnique
<1>6. QED BY <1>1, <1>4, <1>5, SumIsIter

(* A sum of integers is an integer.                                         *)
THEOREM SumType ==
  ASSUME NEW S, IsFiniteSet(S), NEW f, \A x \in S : f[x] \in Int
  PROVE  SumFunctionOnSet(f, S) \in Int
<1> DEFINE Bad == {X \in SUBSET S : SumFunctionOnSet(f, X) \notin Int}
<1>1. SUFFICES ASSUME Bad # {} PROVE FALSE
  OBVIOUS
<1>2. PICK X \in Bad : \A Y \in SUBSET X : Y # X => Y \notin Bad
  <2>1. Bad \in SUBSET SUBSET S OBVIOUS
  <2> HIDE DEF Bad
  <2>2. QED BY <1>1, <2>1, MinimalSubset
<1>3. X # {}
  BY SumEmpty
<1>4. IsFiniteSet(X)
  BY FS_Subset
<1>5. Pick(X) \in X /\ SumFunctionOnSet(f, X) = f[Pick(X)] + SumFunctionOnSet(f, X \ {Pick(X)})
  BY <1>3, <1>4, SumStep
<1>6. SumFunctionOnSet(f, X \ {Pick(X)}) \in Int
  BY <1>2, <1>5
<1>7. QED BY <1>5, <1>6

(* Any element may be taken first.                                          *)
THEOREM SumRemove ==
  ASSUME NEW S, IsFiniteSet(S), NEW f, \A x \in S : f[x] \in Int, NEW e \in S
  PROVE  SumFunctionOnSet(f, S) = f[e] + SumFunctionOnSet(f, S \ {e})
<1> DEFINE Bad == {X \in SUBSET S : \E x \in X :
                      SumFunctionOnSet(f, X) # f[x] + SumFunctionOnSet(f, X \ {x})}
<1>1. SUFFICES ASSUME Bad # {} PROVE FALSE
  OBVIOUS
<1>2. PICK X \in Bad : \A Y \in SUBSET X : Y # X => Y \notin Bad
  <2>1. Bad \in SUBSET SUBSET S OBVIOUS
  <2> HIDE DEF Bad
  <2>2. QED BY <1>1, <2>1, MinimalSubset
<1>3. PICK x \in X : SumFunctionOnSet(f, X) # f[x] + SumFunctionOnSet(f, X \ {x})
  OBVIOUS
<1>4. IsFiniteSet(X)
  BY FS_Subset
<1> DEFINE p == Pick(X)
<1>5. p \in X /\ SumFunctionOnSet(f, X) = f[p] + SumFunctionOnSet(f, X \ {p})
  BY <1>3, <1>4, SumStep
<1> HIDE DEF p
<1>6. p # x
  BY <1>3, <1>5
<1>7. SumFunctionOnSet(f, X \ {p}) = f[x] + SumFunctionOnSet(f, (X \ {p}) \ {x})
  <2>1. X \ {p} \in SUBSET X /\ X \ {p} # X /\ x \in X \ {p}
    BY <1>5, <1>6
  <2>2. QED BY <1>2, <2>1
<1>8. SumFunctionOnSet(f, X \ {x}) = f[p] + SumFunctionOnSet(f, (X \ {x}) \ {p})
  <2>1. X \ {x} \in SUBSET X /\ X \ {x} # X /\ p \in X \ {x}
    BY <1>5, <1>6
  <2>2. QED BY <1>2, <2>1
<1>9. (X \ {p}) \ {x} = (X \ {x}) \ {p}
  OBVIOUS
<1>10. SumFunctionOnSet(f, (X \ {x}) \ {p}) \in Int
  <2>1. IsFiniteSet((X \ {x}) \ {p})
    BY <1>4, FS_Subset
  <2>2. \A y \in (X \ {x}) \ {p} : f[y] \in Int
    OBVIOUS
  <2>3. QED BY <2>1, <2>2, SumType
<1>11. f[x] \in Int /\ f[p] \in Int
  BY <1>5
<1> DEFINE rest == SumFunctionOnSet(f, (X \ {x}) \ {p})
<1>12. /\ SumFunctionOnSet(f, X) = f[p] + (f[x] + rest)
       /\ SumFunctionOnSet(f, X \ {x}) = f[p] + rest
  BY <1>5, <1>7, <1>8, <1>9
<1>13. rest \in Int
  BY <1>10
<1> HIDE DEF rest, Bad
<1>14. f[p] + (f[x] + rest) = f[x] + (f[p] + rest)
  BY <1>11, <1>13
<1>15. QED BY <1>3, <1>12, <1>14

(* Functions that agree on the set have the same sum.                       *)
THEOREM SumAgree ==
  ASSUME NEW S, IsFiniteSet(S), NEW f, NEW g, \A x \in S : f[x] = g[x]
  PROVE  SumFunctionOnSet(f, S) = SumFunctionOnSet(g, S)
<1> DEFINE Bad == {X \in SUBSET S : SumFunctionOnSet(f, X) # SumFunctionOnSet(g, X)}
<1>1. SUFFICES ASSUME Bad # {} PROVE FALSE
  OBVIOUS
<1>2. PICK X \in Bad : \A Y \in SUBSET X : Y # X => Y \notin Bad
  <2>1. Bad \in SUBSET SUBSET S OBVIOUS
  <2> HIDE DEF Bad
  <2>2. QED BY <1>1, <2>1, MinimalSubset
<1>3. X # {}
  BY SumEmpty
<1>4. IsFiniteSet(X)
  BY FS_Subset
<1>5. /\ Pick(X) \in X
      /\ SumFunctionOnSet(f, X) = f[Pick(X)] + SumFunctionOnSet(f, X \ {Pick(X)})
      /\ SumFunctionOnSet(g, X) = g[Pick(X)] + SumFunctionOnSet(g, X \ {Pick(X)})
  BY <1>3, <1>4, SumStep
<1>6. SumFunctionOnSet(f, X \ {Pick(X)}) = SumFunctionOnSet(g, X \ {Pick(X)})
  BY <1>2, <1>5
<1>7. QED BY <1>5, <1>6

(* A part and the rest add up to the whole.                                 *)
THEOREM SumSplit ==
  ASSUME NEW S, IsFiniteSet(S), NEW f, \A x \in S : f[x] \in Int, NEW T \in SUBSET S
  PROVE  SumFunctionOnSet(f, S) = SumFunctionOnSet(f, T) + SumFunctionOnSet(f, S \ T)
<1> DEFINE Bad == {X \in SUBSET S :
             SumFunctionOnSet(f, S) # SumFunctionOnSet(f, X) + SumFunctionOnSet(f, S \ X)}
<1>1. SUFFICES ASSUME Bad # {} PROVE FALSE
  OBVIOUS
<1>2. PICK X \in Bad : \A Y \in SUBSET X : Y # X => Y \notin Bad
  <2>1. Bad \in SUBSET SUBSET S OBVIOUS
  <2> HIDE DEF Bad
  <2>2. QED BY <1>1, <2>1, MinimalSubset
<1>3. \A Y \in SUBSET S : SumFunctionOnSet(f, Y) \in Int
  <2> SUFFICES ASSUME NEW Y \in SUBSET S PROVE SumFunctionOnSet(f, Y) \in Int
    OBVIOUS
  <2>1. IsFiniteSet(Y) /\ \A y \in Y : f[y] \in Int
    BY FS_Subset
  <2>2. QED BY <2>1, SumType
<1>4. X # {}
  <2>1. S \ {} = S
    OBVIOUS
  <2>2. SumFunctionOnSet(f, S) = 0 + SumFunctionOnSet(f, S)
    BY <1>3
  <2>3. QED BY <2>1, <2>2, SumEmpty
<1>5. PICK e \in X : TRUE
  BY <1>4
<1> DEFINE Y == X \ {e}
<1>6. Y \in SUBSET X /\ Y # X /\ Y \in SUBSET S
  OBVIOUS
<1>7. SumFunctionOnSet(f, S) = SumFunctionOnSet(f, Y) + SumFunctionOnSet(f, S \ Y)
  BY <1>2, <1>6
<1>8. SumFunctionOnSet(f, X) = f[e] + SumFunctionOnSet(f, Y)
  <2>1. IsFiniteSet(X) /\ \A x \in X : f[x] \in Int
    BY FS_Subset
  <2>2. QED BY <2>1, SumRemove
<1>9. SumFunctionOnSet(f, S \ Y) = f[e] + SumFunctionOnSet(f, S \ X)
  <2>1. IsFiniteSet(S \ Y) /\ (\A x \in S \ Y : f[x] \in Int) /\ e \in S \ Y
    BY FS_Subset
  <2>2. (S \ Y) \ {e} = S \ X
    OBVIOUS
  <2> HIDE DEF Y
  <2>3. SumFunctionOnSet(f, S \ Y) = f[e] + SumFunctionOnSet(f, (S \ Y) \ {e})
    BY <2>1, SumRemove
  <2>4. QED BY <2>2, <2>3
<1>10. /\ SumFunctionOnSet(f, Y) \in Int /\ SumFunctionOnSet(f, S \ X) \in Int
       /\ f[e] \in Int
  BY <1>3
<1>11. SumFunctionOnSet(f, S) # SumFunctionOnSet(f, X) + SumFunctionOnSet(f, S \ X)
  BY <1>2
<1> HIDE DEF Y, Bad
<1>12. QED BY <1>7, <1>8, <1>9, <1>10, <1>11

(* A sum of numbers that are not negative is not negative.                  *)
THEOREM SumNonNegative ==
  ASSUME NEW S, IsFiniteSet(S), NEW f, \A x \in S : f[x] \in Nat
  PROVE  SumFunctionOnSet(f, S) \in Nat
<1> DEFINE Bad == {X \in SUBSET S : SumFunctionOnSet(f, X) \notin Nat}
<1>1. SUFFICES ASSUME Bad # {} PROVE FALSE
  OBVIOUS
<1>2. PICK X \in Bad : \A Y \in SUBSET X : Y # X => Y \notin Bad
  <2>1. Bad \in SUBSET SUBSET S OBVIOUS
  <2> HIDE DEF Bad
  <2>2. QED BY <1>1, <2>1, MinimalSubset
<1>3. X # {}
  BY SumEmpty
<1>4. IsFiniteSet(X)
  BY FS_Subset
<1>5. Pick(X) \in X /\ SumFunctionOnSet(f, X) = f[Pick(X)] + SumFunctionOnSet(f, X \ {Pick(X)})
  BY <1>3, <1>4, SumStep
<1>6. SumFunctionOnSet(f, X \ {Pick(X)}) \in Nat
  BY <1>2, <1>5
<1>7. QED BY <1>5, <1>6

(* A larger summand makes no sum smaller.                                   *)
THEOREM SumMonotone ==
  ASSUME NEW S, IsFiniteSet(S), NEW f, NEW g,
         \A x \in S : f[x] \in Int /\ g[x] \in Int /\ f[x] <= g[x]
  PROVE  SumFunctionOnSet(f, S) <= SumFunctionOnSet(g, S)
<1> DEFINE Bad == {X \in SUBSET S : ~(SumFunctionOnSet(f, X) <= SumFunctionOnSet(g, X))}
<1>1. SUFFICES ASSUME Bad # {} PROVE FALSE
  OBVIOUS
<1>2. PICK X \in Bad : \A Y \in SUBSET X : Y # X => Y \notin Bad
  <2>1. Bad \in SUBSET SUBSET S OBVIOUS
  <2> HIDE DEF Bad
  <2>2. QED BY <1>1, <2>1, MinimalSubset
<1>3. X # {}
  <2>1. SumFunctionOnSet(f, {}) <= SumFunctionOnSet(g, {})
    BY SumEmpty
  <2>2. QED BY <2>1
<1>4. IsFiniteSet(X) /\ IsFiniteSet(X \ {Pick(X)})
  BY FS_Subset
<1>5. /\ Pick(X) \in X
      /\ SumFunctionOnSet(f, X) = f[Pick(X)] + SumFunctionOnSet(f, X \ {Pick(X)})
      /\ SumFunctionOnSet(g, X) = g[Pick(X)] + SumFunctionOnSet(g, X \ {Pick(X)})
  BY <1>3, <1>4, SumStep
<1>6. SumFunctionOnSet(f, X \ {Pick(X)}) <= SumFunctionOnSet(g, X \ {Pick(X)})
  BY <1>2, <1>5
<1>7. /\ SumFunctionOnSet(f, X \ {Pick(X)}) \in Int
      /\ SumFunctionOnSet(g, X \ {Pick(X)}) \in Int
  BY <1>4, SumType
<1>8. QED BY <1>5, <1>6, <1>7

(* Every set of numbers has a least one.                                    *)
THEOREM LeastNat ==
  ASSUME NEW S \in SUBSET Nat, S # {}
  PROVE  \E n \in S : \A m \in S : n <= m
<1>1. PICK top \in S : TRUE
  OBVIOUS
<1> DEFINE Below == {n \in S : n <= top}
           Intervals == {0 .. n : n \in Below}
<1>2. IsFiniteSet(0 .. top)
  BY FS_Interval
<1>3. Intervals \in SUBSET SUBSET (0 .. top) /\ Intervals # {}
  <2>1. \A n \in Below : 0 .. n \subseteq 0 .. top
    OBVIOUS
  <2>2. 0 .. top \in Intervals
    OBVIOUS
  <2>3. QED BY <2>1, <2>2
<1>4. PICK W \in Intervals : \A V \in SUBSET W : V # W => V \notin Intervals
  <2> HIDE DEF Intervals
  <2>1. QED BY <1>2, <1>3, MinimalSubset
<1>5. PICK n \in Below : W = 0 .. n
  OBVIOUS
<1>6. ASSUME NEW m \in S PROVE n <= m
  <2>1. SUFFICES ASSUME m < n PROVE FALSE
    OBVIOUS
  <2>2. m \in Below /\ 0 .. m \subseteq W /\ n \in W /\ n \notin 0 .. m
    BY <1>5, <2>1
  <2>3. 0 .. m \in Intervals /\ 0 .. m # W
    BY <2>2
  <2>4. QED BY <1>4, <2>2, <2>3
<1>7. QED BY <1>5, <1>6

(* A sum of zeros.                                                          *)
THEOREM SumZero ==
  ASSUME NEW S, IsFiniteSet(S), NEW f, \A x \in S : f[x] = 0
  PROVE  SumFunctionOnSet(f, S) = 0
<1> DEFINE Bad == {X \in SUBSET S : SumFunctionOnSet(f, X) # 0}
<1>1. SUFFICES ASSUME Bad # {} PROVE FALSE
  OBVIOUS
<1>2. PICK W \in Bad : \A V \in SUBSET W : V # W => V \notin Bad
  <2>1. Bad \in SUBSET SUBSET S
    OBVIOUS
  <2> HIDE DEF Bad
  <2>2. QED BY <1>1, <2>1, MinimalSubset
<1>3. PICK e \in W : TRUE
  BY SumEmpty
<1>4. IsFiniteSet(W) /\ \A x \in W : f[x] \in Int
  BY FS_Subset
<1>5. SumFunctionOnSet(f, W) = f[e] + SumFunctionOnSet(f, W \ {e})
  BY <1>4, SumRemove
<1>6. W \ {e} \in SUBSET W /\ W \ {e} # W /\ W \ {e} \in SUBSET S
  BY <1>3
<1>7. SumFunctionOnSet(f, W \ {e}) = 0
  BY <1>2, <1>6
<1>8. QED BY <1>3, <1>5, <1>7
=============================================================================
