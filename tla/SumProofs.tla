------------------------------ MODULE SumProofs ------------------------------
(***************************************************************************)
(* Facts about the sums of Functions: what SumFunctionOnSet computes for a *)
(* finite set.  The folds choose the order of the elements, so the first   *)
(* thing to show is that the order does not matter.                        *)
(*                                                                         *)
(* Arguments over finite sets take the smallest set that refutes a claim:  *)
(* strict inclusion is well founded (FS_StrictSubsetOrderingWellFounded),  *)
(* and a set, unlike a predicate, can be handed to WFMin.                  *)
(***************************************************************************)
EXTENDS Integers, Sequences, FiniteSets, Functions, FiniteSetTheorems, TLAPS

Picked(s) == CHOOSE x \in s : TRUE
Rest(s) == s \ {Picked(s)}

\* iter is the recursive function by which the fold is defined.
Sums(iter, f, S) ==
  iter = [s \in SUBSET S |-> IF s = {} THEN 0 ELSE f[Picked(s)] + iter[Rest(s)]]

LEMMA PickedIn == ASSUME NEW s, s # {} PROVE Picked(s) \in s
BY DEF Picked

\* A set of finite sets, if not empty, has one with no smaller one in it.
LEMMA Smallest ==
  ASSUME NEW S, IsFiniteSet(S), NEW Bad, Bad \subseteq SUBSET S, Bad # {}
  PROVE  \E T \in Bad : \A U \in SUBSET T : U # T => U \notin Bad
<1> DEFINE R == StrictSubsetOrdering(S)
<1>1. IsWellFoundedOn(R, SUBSET S)
  BY FS_StrictSubsetOrderingWellFounded, FS_FiniteSubsetsOfFinite
<1> HIDE DEF R
<1>2. PICK T \in Bad : \A U \in Bad : <<U, T>> \notin R
  BY <1>1, WFMin
<1>3. ASSUME NEW U \in SUBSET T, U # T, U \in Bad
      PROVE  <<U, T>> \in R
  <2>1. <<U, T>> \in (SUBSET S) \X (SUBSET S)
    BY <1>3
  <2> QED  BY <2>1, <1>3 DEF R, StrictSubsetOrdering
<1>4. \A U \in SUBSET T : U # T => U \notin Bad
  BY <1>2, <1>3
<1> QED  BY <1>4

\* A finite set of integers has a greatest and a least element.
LEMMA Greatest ==
  ASSUME NEW S, S \subseteq Int, IsFiniteSet(S), S # {}
  PROVE  \E x \in S : \A y \in S : x >= y
<1> DEFINE Bad == {T \in SUBSET S : T # {} /\ ~ \E x \in T : \A y \in T : x >= y}
<1>0. Bad \subseteq SUBSET S
  OBVIOUS
<1>1. SUFFICES ASSUME Bad # {} PROVE FALSE
  OBVIOUS
<1> HIDE DEF Bad
<1>2. PICK T \in Bad : \A U \in SUBSET T : U # T => U \notin Bad
  BY <1>0, <1>1, Smallest
<1> USE DEF Bad
<1>3. PICK p \in T : TRUE
  OBVIOUS
<1>4. T \ {p} # {}
  BY <1>3
<1>5. PICK x \in T \ {p} : \A y \in T \ {p} : x >= y
  BY <1>2, <1>3, <1>4
<1>6. p \in Int /\ x \in Int
  BY <1>0
<1>7. CASE x >= p
  BY <1>5, <1>7
<1>8. CASE p > x
  <2>1. \A y \in T : p >= y
    BY <1>0, <1>5, <1>6, <1>8
  <2> QED  BY <2>1
<1> QED  BY <1>6, <1>7, <1>8

LEMMA Least ==
  ASSUME NEW S, S \subseteq Int, IsFiniteSet(S), S # {}
  PROVE  \E x \in S : \A y \in S : x <= y
<1> DEFINE Bad == {T \in SUBSET S : T # {} /\ ~ \E x \in T : \A y \in T : x <= y}
<1>0. Bad \subseteq SUBSET S
  OBVIOUS
<1>1. SUFFICES ASSUME Bad # {} PROVE FALSE
  OBVIOUS
<1> HIDE DEF Bad
<1>2. PICK T \in Bad : \A U \in SUBSET T : U # T => U \notin Bad
  BY <1>0, <1>1, Smallest
<1> USE DEF Bad
<1>3. PICK p \in T : TRUE
  OBVIOUS
<1>4. T \ {p} # {}
  BY <1>3
<1>5. PICK x \in T \ {p} : \A y \in T \ {p} : x <= y
  BY <1>2, <1>3, <1>4
<1>6. p \in Int /\ x \in Int
  BY <1>0
<1>7. CASE x <= p
  BY <1>5, <1>7
<1>8. CASE p < x
  <2>1. \A y \in T : p <= y
    BY <1>0, <1>5, <1>6, <1>8
  <2> QED  BY <2>1
<1> QED  BY <1>6, <1>7, <1>8

LEMMA SumsStep ==
  ASSUME NEW g, NEW f, NEW S, Sums(g, f, S), NEW s \in SUBSET S
  PROVE  /\ s = {} => g[s] = 0
         /\ s # {} => g[s] = f[Picked(s)] + g[Rest(s)]
BY DEF Sums

LEMMA RestSmaller ==
  ASSUME NEW s, s # {}
  PROVE  Rest(s) \in SUBSET s /\ Rest(s) # s
BY PickedIn DEF Rest

LEMMA SumsUnique ==
  ASSUME NEW g, NEW h, NEW f, NEW S, NEW T, Sums(g, f, S), Sums(h, f, T),
         NEW s, s \subseteq S, s \subseteq T, IsFiniteSet(s)
  PROVE  g[s] = h[s]
<1> DEFINE Bad == {u \in SUBSET s : g[u] # h[u]}
<1>0. Bad \subseteq SUBSET s
  OBVIOUS
<1>1. SUFFICES ASSUME Bad # {} PROVE FALSE
  OBVIOUS
<1> HIDE DEF Bad
<1>2. PICK u \in Bad : \A v \in SUBSET u : v # u => v \notin Bad
  BY <1>0, <1>1, Smallest
<1> USE DEF Bad
<1>3. u \in SUBSET S /\ u \in SUBSET T
  OBVIOUS
<1>4. CASE u = {}
  BY <1>3, <1>4, SumsStep
<1>5. CASE u # {}
  <2>1. Rest(u) \in SUBSET u /\ Rest(u) # u /\ Rest(u) \in SUBSET s
    BY <1>5, RestSmaller
  <2>2. g[Rest(u)] = h[Rest(u)]
    BY <1>2, <2>1
  <2>3. g[u] = f[Picked(u)] + g[Rest(u)] /\ h[u] = f[Picked(u)] + h[Rest(u)]
    BY <1>3, <1>5, SumsStep
  <2> QED  BY <2>2, <2>3
<1> QED  BY <1>4, <1>5

Fold(f, S) == CHOOSE g : Sums(g, f, S)

LEMMA SumsExist ==
  ASSUME NEW f, NEW S, IsFiniteSet(S)
  PROVE  Sums(Fold(f, S), f, S)
<1> DEFINE Bad == {T \in SUBSET S : ~ Sums(Fold(f, T), f, T)}
<1>0. Bad \subseteq SUBSET S
  OBVIOUS
<1>1. SUFFICES ASSUME Bad # {} PROVE FALSE
  OBVIOUS
<1> HIDE DEF Bad
<1>2. PICK T \in Bad : \A U \in SUBSET T : U # T => U \notin Bad
  BY <1>0, <1>1, Smallest
<1> USE DEF Bad
<1>3. \A U \in SUBSET T : U # T => Sums(Fold(f, U), f, U)
  BY <1>2
<1> DEFINE total(s) == Fold(f, s)[s]
           G == [s \in SUBSET T |->
                   IF s = {} THEN 0 ELSE f[Picked(s)] + total(Rest(s))]
<1>4. ASSUME NEW s \in SUBSET T, s # {}
      PROVE  G[Rest(s)] = total(Rest(s))
  <2> DEFINE r == Rest(s)
  <2>1. r \in SUBSET s /\ r # s /\ r \in SUBSET T /\ r # T
    BY <1>4, RestSmaller
  <2>2. Sums(Fold(f, r), f, r)
    BY <1>3, <2>1
  <2>3. CASE r = {}
    BY <2>1, <2>2, <2>3, SumsStep
  <2>4. CASE r # {}
    <3>1. Rest(r) \in SUBSET r /\ Rest(r) # r
      BY <2>4, RestSmaller
    <3>2. Rest(r) \in SUBSET T /\ Rest(r) # T
      BY <2>1, <3>1
    <3>3. Sums(Fold(f, Rest(r)), f, Rest(r)) /\ IsFiniteSet(Rest(r))
      BY <1>3, <3>2, FS_Subset
    <3>4. Fold(f, r)[Rest(r)] = total(Rest(r))
      BY <2>2, <3>1, <3>3, SumsUnique
    <3>5. total(r) = f[Picked(r)] + Fold(f, r)[Rest(r)]
      BY <2>2, <2>4, SumsStep
    <3>6. G[r] = f[Picked(r)] + total(Rest(r))
      BY <2>1, <2>4
    <3> QED  BY <3>4, <3>5, <3>6
  <2> QED  BY <2>3, <2>4
<1>5. G = [s \in SUBSET T |-> IF s = {} THEN 0 ELSE f[Picked(s)] + G[Rest(s)]]
  BY <1>4
<1>6. Sums(G, f, T)
  BY <1>5 DEF Sums
<1> QED  BY <1>2, <1>6 DEF Fold

LEMMA SumIsFold ==
  ASSUME NEW f, NEW S
  PROVE  SumFunctionOnSet(f, S) = Fold(f, S)[S]
BY DEF SumFunctionOnSet, FoldFunctionOnSet, MapThenFoldSet, Fold, Sums, Picked, Rest

LEMMA SumEmpty == \A f : SumFunctionOnSet(f, {}) = 0
BY SumIsFold, SumsExist, SumsStep, FS_EmptySet

LEMMA SumPicked ==
  ASSUME NEW f, NEW S, IsFiniteSet(S), S # {}
  PROVE  SumFunctionOnSet(f, S) = f[Picked(S)] + SumFunctionOnSet(f, Rest(S))
<1>1. Rest(S) \in SUBSET S /\ IsFiniteSet(Rest(S))
  BY RestSmaller, FS_Subset
<1>2. Fold(f, S)[S] = f[Picked(S)] + Fold(f, S)[Rest(S)]
  BY SumsExist, SumsStep
<1>3. Fold(f, S)[Rest(S)] = Fold(f, Rest(S))[Rest(S)]
  BY <1>1, SumsExist, SumsUnique
<1> QED  BY <1>2, <1>3, SumIsFold

LEMMA SumType ==
  ASSUME NEW f, NEW S, IsFiniteSet(S), \A x \in S : f[x] \in Int
  PROVE  SumFunctionOnSet(f, S) \in Int
<1> DEFINE Bad == {T \in SUBSET S : SumFunctionOnSet(f, T) \notin Int}
<1>0. Bad \subseteq SUBSET S
  OBVIOUS
<1>1. SUFFICES ASSUME Bad # {} PROVE FALSE
  OBVIOUS
<1> HIDE DEF Bad
<1>2. PICK T \in Bad : \A U \in SUBSET T : U # T => U \notin Bad
  BY <1>0, <1>1, Smallest
<1> USE DEF Bad
<1>3. T # {}
  BY SumEmpty
<1>4. Rest(T) \in SUBSET T /\ Rest(T) # T /\ Picked(T) \in T /\ IsFiniteSet(T)
  BY <1>3, RestSmaller, PickedIn, FS_Subset
<1>5. SumFunctionOnSet(f, Rest(T)) \in Int /\ f[Picked(T)] \in Int
  BY <1>2, <1>4
<1> QED  BY <1>3, <1>4, <1>5, SumPicked

\* Any element may be taken out first.
LEMMA SumRemove ==
  ASSUME NEW f, NEW S, IsFiniteSet(S), \A x \in S : f[x] \in Int, NEW x \in S
  PROVE  SumFunctionOnSet(f, S) = f[x] + SumFunctionOnSet(f, S \ {x})
<1> DEFINE Wrong(T) == \E y \in T : SumFunctionOnSet(f, T) # f[y] + SumFunctionOnSet(f, T \ {y})
           Bad == {T \in SUBSET S : Wrong(T)}
<1>0. Bad \subseteq SUBSET S
  OBVIOUS
<1>1. SUFFICES ASSUME Bad # {} PROVE FALSE
  OBVIOUS
<1> HIDE DEF Bad
<1>2. PICK T \in Bad : \A U \in SUBSET T : U # T => U \notin Bad
  BY <1>0, <1>1, Smallest
<1> USE DEF Bad
<1>3. PICK y \in T : SumFunctionOnSet(f, T) # f[y] + SumFunctionOnSet(f, T \ {y})
  BY <1>2
<1> DEFINE p == Picked(T)
<1>4. p \in T /\ IsFiniteSet(T) /\ Rest(T) = T \ {p}
  BY PickedIn, FS_Subset DEF Rest
<1>5. SumFunctionOnSet(f, T) = f[p] + SumFunctionOnSet(f, T \ {p})
  BY <1>4, SumPicked
<1>6. p # y
  BY <1>3, <1>5
<1> HIDE DEF p
<1>7. SumFunctionOnSet(f, T \ {p}) = f[y] + SumFunctionOnSet(f, (T \ {p}) \ {y})
  BY <1>2, <1>4, <1>6
<1>8. SumFunctionOnSet(f, T \ {y}) = f[p] + SumFunctionOnSet(f, (T \ {y}) \ {p})
  BY <1>2, <1>4, <1>6
<1>9. (T \ {p}) \ {y} = (T \ {y}) \ {p} /\ IsFiniteSet((T \ {p}) \ {y})
  BY <1>4, FS_Subset
<1>10. SumFunctionOnSet(f, (T \ {p}) \ {y}) \in Int /\ f[p] \in Int /\ f[y] \in Int
  BY <1>4, <1>9, SumType
<1> HIDE DEF Bad, Wrong
<1>11. \A a, b, c \in Int : a + (b + c) = b + (a + c)
  OBVIOUS
<1>12. SumFunctionOnSet(f, (T \ {y}) \ {p}) = SumFunctionOnSet(f, (T \ {p}) \ {y})
  BY <1>9
<1> DEFINE m == SumFunctionOnSet(f, (T \ {p}) \ {y})
<1>13. f[p] + (f[y] + m) = f[y] + (f[p] + m)
  BY <1>10, <1>11
<1> QED  BY <1>3, <1>5, <1>7, <1>8, <1>12, <1>13

LEMMA SumAdd ==
  ASSUME NEW f, NEW S, IsFiniteSet(S), NEW x, x \notin S, \A y \in S \cup {x} : f[y] \in Int
  PROVE  SumFunctionOnSet(f, S \cup {x}) = f[x] + SumFunctionOnSet(f, S)
<1>1. IsFiniteSet(S \cup {x}) /\ (S \cup {x}) \ {x} = S
  BY FS_AddElement
<1> QED  BY <1>1, SumRemove

\* The sum depends on what f is on S only.
LEMMA SumEqual ==
  ASSUME NEW f, NEW g, NEW S, IsFiniteSet(S), \A x \in S : f[x] \in Int, \A x \in S : f[x] = g[x]
  PROVE  SumFunctionOnSet(f, S) = SumFunctionOnSet(g, S)
<1> DEFINE Bad == {T \in SUBSET S : SumFunctionOnSet(f, T) # SumFunctionOnSet(g, T)}
<1>0. Bad \subseteq SUBSET S
  OBVIOUS
<1>1. SUFFICES ASSUME Bad # {} PROVE FALSE
  OBVIOUS
<1> HIDE DEF Bad
<1>2. PICK T \in Bad : \A U \in SUBSET T : U # T => U \notin Bad
  BY <1>0, <1>1, Smallest
<1> USE DEF Bad
<1>3. T # {}
  BY SumEmpty
<1>4. Rest(T) \in SUBSET T /\ Rest(T) # T /\ Picked(T) \in T /\ IsFiniteSet(T)
  BY <1>3, RestSmaller, PickedIn, FS_Subset
<1>5. SumFunctionOnSet(f, Rest(T)) = SumFunctionOnSet(g, Rest(T)) /\ f[Picked(T)] = g[Picked(T)]
  BY <1>2, <1>4
<1>6. SumFunctionOnSet(f, T) = SumFunctionOnSet(g, T)
  BY <1>3, <1>4, <1>5, SumPicked
<1> QED  BY <1>6

LEMMA SumPlus ==
  ASSUME NEW f, NEW g, NEW h, NEW S, IsFiniteSet(S),
         \A x \in S : f[x] \in Int /\ g[x] \in Int /\ h[x] = f[x] + g[x]
  PROVE  SumFunctionOnSet(h, S) = SumFunctionOnSet(f, S) + SumFunctionOnSet(g, S)
<1> DEFINE F(T) == SumFunctionOnSet(f, T)
           G(T) == SumFunctionOnSet(g, T)
           H(T) == SumFunctionOnSet(h, T)
           Bad == {T \in SUBSET S : H(T) # F(T) + G(T)}
<1>0. Bad \subseteq SUBSET S
  OBVIOUS
<1>1. SUFFICES ASSUME Bad # {} PROVE FALSE
  OBVIOUS
<1> HIDE DEF Bad
<1>2. PICK T \in Bad : \A U \in SUBSET T : U # T => U \notin Bad
  BY <1>0, <1>1, Smallest
<1> USE DEF Bad
<1>3. T # {}
  <2>1. F({}) = 0 /\ G({}) = 0 /\ H({}) = 0
    BY SumEmpty
  <2> HIDE DEF F, G, H
  <2>2. H({}) = F({}) + G({})
    BY <2>1
  <2> QED  BY <2>2
<1> DEFINE R == Rest(T)
           p == Picked(T)
<1>4. R \in SUBSET T /\ R # T /\ p \in T /\ IsFiniteSet(T) /\ IsFiniteSet(R)
  BY <1>3, RestSmaller, PickedIn, FS_Subset
<1>5. H(R) = F(R) + G(R)
  BY <1>2, <1>4
<1>6. F(T) = f[p] + F(R) /\ G(T) = g[p] + G(R) /\ H(T) = h[p] + H(R)
  BY <1>3, <1>4, SumPicked
<1>7. F(R) \in Int /\ G(R) \in Int
  BY <1>4, SumType
<1>8. f[p] \in Int /\ g[p] \in Int /\ h[p] = f[p] + g[p]
  BY <1>4
<1> HIDE DEF F, G, H, R, p
<1>9. H(T) = F(T) + G(T)
  BY <1>5, <1>6, <1>7, <1>8
<1> QED  BY <1>9

LEMMA SumMonotone ==
  ASSUME NEW f, NEW g, NEW S, IsFiniteSet(S),
         \A x \in S : f[x] \in Int /\ g[x] \in Int /\ f[x] <= g[x]
  PROVE  SumFunctionOnSet(f, S) <= SumFunctionOnSet(g, S)
<1> DEFINE F(T) == SumFunctionOnSet(f, T)
           G(T) == SumFunctionOnSet(g, T)
           Bad == {T \in SUBSET S : ~ (F(T) <= G(T))}
<1>0. Bad \subseteq SUBSET S
  OBVIOUS
<1>1. SUFFICES ASSUME Bad # {} PROVE FALSE
  OBVIOUS
<1> HIDE DEF Bad
<1>2. PICK T \in Bad : \A U \in SUBSET T : U # T => U \notin Bad
  BY <1>0, <1>1, Smallest
<1> USE DEF Bad
<1>3. T # {}
  BY SumEmpty
<1> DEFINE R == Rest(T)
           p == Picked(T)
<1>4. R \in SUBSET T /\ R # T /\ p \in T /\ IsFiniteSet(T) /\ IsFiniteSet(R)
  BY <1>3, RestSmaller, PickedIn, FS_Subset
<1>5. F(R) <= G(R)
  BY <1>2, <1>4
<1>6. F(T) = f[p] + F(R) /\ G(T) = g[p] + G(R)
  BY <1>3, <1>4, SumPicked
<1>7. F(R) \in Int /\ G(R) \in Int
  BY <1>4, SumType
<1>8. f[p] \in Int /\ g[p] \in Int /\ f[p] <= g[p]
  BY <1>4
<1> HIDE DEF F, G, R, p
<1>9. F(T) <= G(T)
  BY <1>5, <1>6, <1>7, <1>8
<1> QED  BY <1>9

\* The sum of a constant.
LEMMA SumConstant ==
  ASSUME NEW f, NEW S, IsFiniteSet(S), NEW c \in Int, \A x \in S : f[x] = c
  PROVE  SumFunctionOnSet(f, S) = c * Cardinality(S)
<1> DEFINE F(T) == SumFunctionOnSet(f, T)
           N(T) == Cardinality(T)
           Bad == {T \in SUBSET S : F(T) # c * N(T)}
<1>0. Bad \subseteq SUBSET S
  OBVIOUS
<1>1. SUFFICES ASSUME Bad # {} PROVE FALSE
  BY FS_Subset
<1> HIDE DEF Bad
<1>2. PICK T \in Bad : \A U \in SUBSET T : U # T => U \notin Bad
  BY <1>0, <1>1, Smallest
<1> USE DEF Bad
<1>3. T # {}
  <2>1. F({}) = 0 /\ N({}) = 0 /\ c * 0 = 0
    BY SumEmpty, FS_EmptySet
  <2> QED  BY <2>1
<1> DEFINE R == Rest(T)
           p == Picked(T)
<1>4. R \in SUBSET T /\ R # T /\ p \in T /\ IsFiniteSet(T) /\ IsFiniteSet(R)
  BY <1>3, RestSmaller, PickedIn, FS_Subset
<1>5. F(R) = c * N(R)
  BY <1>2, <1>4
<1>6. F(T) = f[p] + F(R) /\ f[p] = c
  BY <1>3, <1>4, SumPicked
<1>7. N(R) = N(T) - 1 /\ N(T) \in Nat
  BY <1>4, FS_RemoveElement, FS_CardinalityType DEF Rest
<1> HIDE DEF F, N, R, p
<1>8. F(T) = c * N(T)
  BY <1>5, <1>6, <1>7
<1> QED  BY <1>8

LEMMA SumNat ==
  ASSUME NEW f, NEW S, IsFiniteSet(S), \A x \in S : f[x] \in Nat
  PROVE  SumFunctionOnSet(f, S) \in Nat
<1> DEFINE zero == [x \in S |-> 0]
<1>1. \A x \in S : zero[x] = 0
  OBVIOUS
<1> HIDE DEF zero
<1>2. SumFunctionOnSet(zero, S) = 0 * Cardinality(S)
  BY <1>1, SumConstant
<1>3. SumFunctionOnSet(zero, S) <= SumFunctionOnSet(f, S)
  BY <1>1, SumMonotone
<1>4. SumFunctionOnSet(f, S) \in Int /\ Cardinality(S) \in Nat
  BY SumType, FS_CardinalityType
<1> QED  BY <1>2, <1>3, <1>4

LEMMA SumUnion ==
  ASSUME NEW f, NEW S, NEW T, IsFiniteSet(S), IsFiniteSet(T), S \cap T = {},
         \A x \in S \cup T : f[x] \in Int
  PROVE  SumFunctionOnSet(f, S \cup T) = SumFunctionOnSet(f, S) + SumFunctionOnSet(f, T)
<1> DEFINE F(U) == SumFunctionOnSet(f, U)
           Bad == {U \in SUBSET T : F(S \cup U) # F(S) + F(U)}
<1>0. Bad \subseteq SUBSET T
  OBVIOUS
<1>1. SUFFICES ASSUME Bad # {} PROVE FALSE
  OBVIOUS
<1> HIDE DEF Bad
<1>2. PICK U \in Bad : \A V \in SUBSET U : V # U => V \notin Bad
  BY <1>0, <1>1, Smallest
<1> USE DEF Bad
<1>a. F(S) \in Int
  BY SumType
<1>3. U # {}
  <2>1. F({}) = 0 /\ F(S \cup {}) = F(S)
    BY SumEmpty
  <2> HIDE DEF F
  <2>2. F(S \cup {}) = F(S) + F({})
    BY <2>1, <1>a
  <2> QED  BY <2>2
<1> DEFINE R == Rest(U)
           p == Picked(U)
<1>4. R \in SUBSET U /\ R # U /\ p \in U /\ IsFiniteSet(U) /\ IsFiniteSet(R)
  BY <1>3, RestSmaller, PickedIn, FS_Subset
<1>5. F(S \cup R) = F(S) + F(R)
  BY <1>2, <1>4
<1>6. F(U) = f[p] + F(R)
  BY <1>3, <1>4, SumPicked
<1>7. F(R) \in Int /\ f[p] \in Int
  BY <1>4, SumType
<1>8. S \cup U = (S \cup R) \cup {p} /\ p \notin S \cup R /\ IsFiniteSet(S \cup R)
  BY <1>4, FS_Union DEF Rest
<1>9. F(S \cup U) = f[p] + F(S \cup R)
  BY <1>4, <1>8, SumAdd
<1> HIDE DEF F, R, p
<1>10. F(S \cup U) = F(S) + F(U)
  BY <1>a, <1>5, <1>6, <1>7, <1>9
<1> QED  BY <1>10

Image(b, S) == {b[x] : x \in S}

Renames(b, f, g, S) == \A x \in S : f[x] \in Int /\ f[x] = g[b[x]]

OneToOne(b, S) == \A x, y \in S : b[x] = b[y] => x = y

LEMMA ImageFinite ==
  ASSUME NEW b, NEW S, IsFiniteSet(S)
  PROVE  IsFiniteSet(Image(b, S))
<1> DEFINE c == [x \in S |-> b[x]]
<1>1. c \in Surjection(S, Image(b, S))
  BY DEF Surjection, Image
<1> QED  BY <1>1, FS_Surjection

\* Terms may be renumbered.
LEMMA SumImage ==
  ASSUME NEW f, NEW g, NEW b, NEW S, IsFiniteSet(S),
         Renames(b, f, g, S), OneToOne(b, S)
  PROVE  SumFunctionOnSet(f, S) = SumFunctionOnSet(g, Image(b, S))
<1> USE DEF Renames, OneToOne
<1> DEFINE F(U) == SumFunctionOnSet(f, U)
           G(U) == SumFunctionOnSet(g, U)
           Bad == {U \in SUBSET S : F(U) # G(Image(b, U))}
<1>0. Bad \subseteq SUBSET S
  OBVIOUS
<1>1. SUFFICES ASSUME Bad # {} PROVE FALSE
  OBVIOUS
<1> HIDE DEF Bad
<1>2. PICK U \in Bad : \A V \in SUBSET U : V # U => V \notin Bad
  BY <1>0, <1>1, Smallest
<1> USE DEF Bad
<1>3. U # {}
  <2>1. F({}) = 0 /\ G({}) = 0 /\ Image(b, {}) = {}
    BY SumEmpty DEF Image
  <2> HIDE DEF F, G
  <2>2. F({}) = G(Image(b, {}))
    BY <2>1
  <2> QED  BY <2>2
<1> DEFINE R == Rest(U)
           p == Picked(U)
<1>4. R \in SUBSET U /\ R # U /\ p \in U /\ IsFiniteSet(U) /\ IsFiniteSet(R) /\ U = R \cup {p} /\ p \notin R
  BY <1>3, RestSmaller, PickedIn, FS_Subset DEF Rest
<1>5. F(R) = G(Image(b, R))
  BY <1>2, <1>4
<1>6. F(U) = f[p] + F(R)
  BY <1>3, <1>4, SumPicked
<1>7. Image(b, U) = Image(b, R) \cup {b[p]} /\ b[p] \notin Image(b, R)
  BY <1>4 DEF Image
<1>8. IsFiniteSet(Image(b, R))
  BY <1>4, ImageFinite
<1>9. \A y \in Image(b, R) \cup {b[p]} : g[y] \in Int
  BY <1>4 DEF Image
<1>10. G(Image(b, R) \cup {b[p]}) = g[b[p]] + G(Image(b, R))
  BY <1>7, <1>8, <1>9, SumAdd
<1>11. f[p] = g[b[p]]
  BY <1>4
<1> HIDE DEF F, G, R, p
<1>12. F(U) = G(Image(b, U))
  BY <1>5, <1>6, <1>7, <1>10, <1>11
<1> QED  BY <1>12

-----------------------------------------------------------------------------
(* Sums over sequences *)

LEMMA SumOfIntegers ==
  ASSUME NEW s, NEW n \in Nat, DOMAIN s = 1..n
  PROVE  /\ (\A i \in 1..n : s[i] \in Int) => SumFunction(s) \in Int
         /\ (\A i \in 1..n : s[i] \in Nat) => SumFunction(s) \in Nat
<1>1. IsFiniteSet(1..n)
  BY FS_Interval
<1> QED  BY <1>1, SumType, SumNat DEF SumFunction

\* The sum over the elements of a sequence of integers after one is added.
LEMMA SumAppend ==
  ASSUME NEW s \in Seq(Int), NEW x \in Int
  PROVE  SumFunction(Append(s, x)) = SumFunction(s) + x
<1> DEFINE t == Append(s, x)
           n == Len(s)
<1>1. n \in Nat /\ DOMAIN s = 1..n /\ DOMAIN t = (1..n) \cup {n + 1} /\ n + 1 \notin 1..n
  OBVIOUS
<1>2. t[n + 1] = x /\ \A i \in 1..n : t[i] = s[i] /\ s[i] \in Int
  OBVIOUS
<1>3. IsFiniteSet(1..n)
  BY <1>1, FS_Interval
<1> HIDE DEF t, n
<1>4. SumFunctionOnSet(t, (1..n) \cup {n + 1}) = t[n + 1] + SumFunctionOnSet(t, 1..n)
  BY <1>1, <1>2, <1>3, SumAdd
<1>5. SumFunctionOnSet(t, 1..n) = SumFunctionOnSet(s, 1..n)
  BY <1>2, <1>3, SumEqual
<1>6. SumFunctionOnSet(s, 1..n) \in Int
  BY <1>2, <1>3, SumType
<1>7. SumFunction(t) = x + SumFunctionOnSet(s, 1..n)
  BY <1>1, <1>2, <1>4, <1>5 DEF SumFunction
<1>8. SumFunction(s) = SumFunctionOnSet(s, 1..n)
  BY <1>1 DEF SumFunction
<1> QED  BY <1>6, <1>7, <1>8 DEF t

LEMMA SumSingle ==
  ASSUME NEW f, NEW x, f[x] \in Int
  PROVE  SumFunctionOnSet(f, {x}) = f[x]
<1>1. SumFunctionOnSet(f, {} \cup {x}) = f[x] + SumFunctionOnSet(f, {})
  BY FS_EmptySet, SumAdd
<1> QED  BY <1>1, SumEmpty

UpTo(S, n) == S \subseteq 1..n

Shifted(n, T) == {n + i : i \in T}

StartsWith(h, f, S) == \A i \in S : f[i] \in Int /\ h[i] = f[i]

GoesOnWith(h, n, g, T) == \A i \in T : g[i] \in Int /\ h[n + i] = g[i]

\* Some terms of a sequence, and some of the sequence it continues with.
LEMMA SumConcat ==
  ASSUME NEW n \in Nat, NEW k \in Nat, NEW f, NEW g, NEW h,
         NEW S, NEW T, UpTo(S, n), UpTo(T, k),
         StartsWith(h, f, S), GoesOnWith(h, n, g, T)
  PROVE  SumFunctionOnSet(h, S \cup Shifted(n, T))
           = SumFunctionOnSet(f, S) + SumFunctionOnSet(g, T)
<1> USE DEF UpTo, StartsWith, GoesOnWith, Shifted
<1>0. PICK b : b = [i \in 1..k |-> n + i]
  OBVIOUS
<1> DEFINE V == Image(b, T)
<1>1. IsFiniteSet(S) /\ IsFiniteSet(T)
  <2>1. IsFiniteSet(1..n) /\ IsFiniteSet(1..k)
    BY FS_Interval
  <2> QED  BY <2>1, FS_Subset
<1>2. V = {n + i : i \in T}
  BY <1>0 DEF Image
<1>3. Renames(b, g, h, T)
  BY <1>0 DEF Renames
<1>4. OneToOne(b, T)
  BY <1>0 DEF OneToOne
<1>5. S \cap V = {}
  BY <1>2
<1>6. \A x \in V : h[x] \in Int
  BY <1>3 DEF Image, Renames
<1>7. IsFiniteSet(V)
  BY <1>1, ImageFinite
<1>8. SumFunctionOnSet(g, T) = SumFunctionOnSet(h, V)
  BY <1>1, <1>3, <1>4, SumImage
<1>9. SumFunctionOnSet(f, S) = SumFunctionOnSet(h, S)
  BY <1>1, SumEqual
<1> HIDE DEF V
<1>10. SumFunctionOnSet(h, S \cup V) = SumFunctionOnSet(h, S) + SumFunctionOnSet(h, V)
  BY <1>1, <1>5, <1>6, <1>7, SumUnion
<1> QED  BY <1>2, <1>8, <1>9, <1>10

LEMMA SumOpposite ==
  ASSUME NEW f, NEW g, NEW S, IsFiniteSet(S), \A x \in S : f[x] \in Int /\ g[x] = -f[x]
  PROVE  SumFunctionOnSet(g, S) = -SumFunctionOnSet(f, S)
<1> DEFINE h == [x \in S |-> 0]
<1>1. \A x \in S : h[x] = 0 /\ h[x] = f[x] + g[x] /\ g[x] \in Int
  OBVIOUS
<1> HIDE DEF h
<1>2. SumFunctionOnSet(h, S) = 0 * Cardinality(S)
  BY <1>1, SumConstant
<1>3. SumFunctionOnSet(h, S) = SumFunctionOnSet(f, S) + SumFunctionOnSet(g, S)
  BY <1>1, SumPlus
<1>4. SumFunctionOnSet(f, S) \in Int /\ SumFunctionOnSet(g, S) \in Int /\ Cardinality(S) \in Nat
  BY <1>1, SumType, FS_CardinalityType
<1>5. 0 * Cardinality(S) = 0
  BY <1>4
<1> QED  BY <1>2, <1>3, <1>4, <1>5

LEMMA SumOfNone == SumFunction(<<>>) = 0
<1>1. DOMAIN <<>> = {}
  OBVIOUS
<1> QED  BY <1>1, SumEmpty DEF SumFunction

LEMMA SumOfOne == \A x \in Int : SumFunction(<<x>>) = x
<1> TAKE x \in Int
<1>1. <<>> \in Seq(Int) /\ Append(<<>>, x) = <<x>>
  OBVIOUS
<1>2. SumFunction(Append(<<>>, x)) = SumFunction(<<>>) + x
  BY <1>1, SumAppend
<1> QED  BY <1>1, <1>2, SumOfNone

LEMMA SumOfTwo == \A x, y \in Int : SumFunction(<<x, y>>) = x + y
<1> TAKE x, y \in Int
<1>1. PICK s : s = <<x, y>>
  OBVIOUS
<1>2. DOMAIN s = {1} \cup {2} /\ s[1] = x /\ s[2] = y
  BY <1>1
<1>3. SumFunctionOnSet(s, {} \cup {1}) = s[1] + SumFunctionOnSet(s, {})
  BY <1>2, SumAdd, FS_EmptySet
<1>4. SumFunctionOnSet(s, {1} \cup {2}) = s[2] + SumFunctionOnSet(s, {1})
  <2>1. IsFiniteSet({1})
    BY FS_Singleton
  <2>2. 2 \notin {1} /\ \A i \in {1} \cup {2} : s[i] \in Int
    BY <1>2
  <2> QED  BY <2>1, <2>2, SumAdd
<1>5. {} \cup {1} = {1} /\ SumFunctionOnSet(s, {}) = 0
  BY SumEmpty
<1>6. SumFunctionOnSet(s, {1}) = x
  BY <1>2, <1>3, <1>5
<1>7. SumFunctionOnSet(s, DOMAIN s) = x + y
  BY <1>2, <1>4, <1>6
<1> QED  BY <1>1, <1>7 DEF SumFunction

LEMMA SumOfThree == \A x, y, z \in Int : SumFunction(<<x, y, z>>) = x + y + z
<1> TAKE x, y, z \in Int
<1>1. PICK s : s = <<x, y, z>>
  OBVIOUS
<1>2. PICK t : t = <<x, y>>
  OBVIOUS
<1>3. PICK D : D = {1} \cup {2}
  OBVIOUS
<1>4. DOMAIN t = D /\ DOMAIN s = D \cup {3} /\ 3 \notin D /\ s[3] = z
  BY <1>1, <1>2, <1>3
<1>5. \A i \in D : t[i] \in Int /\ t[i] = s[i]
  BY <1>1, <1>2, <1>3
<1>6. IsFiniteSet(D)
  <2>1. IsFiniteSet({1})
    BY FS_Singleton
  <2> QED  BY <1>3, <2>1, FS_AddElement
<1>7. SumFunctionOnSet(s, D \cup {3}) = s[3] + SumFunctionOnSet(s, D)
  <2>1. \A i \in D \cup {3} : s[i] \in Int
    BY <1>4, <1>5
  <2> QED  BY <1>4, <1>6, <2>1, SumAdd
<1>8. SumFunctionOnSet(t, D) = SumFunctionOnSet(s, D)
  BY <1>5, <1>6, SumEqual
<1>9. SumFunctionOnSet(t, D) = x + y
  <2>1. SumFunction(t) = x + y
    BY <1>2, SumOfTwo
  <2> QED  BY <1>4, <2>1 DEF SumFunction
<1>10. SumFunction(s) = z + (x + y)
  BY <1>4, <1>7, <1>8, <1>9 DEF SumFunction
<1> QED  BY <1>1, <1>10
-----------------------------------------------------------------------------
(* Sums by group *)

LEMMA SumSubset ==
  ASSUME NEW f, NEW S, IsFiniteSet(S), \A x \in S : f[x] \in Nat, NEW T, T \subseteq S
  PROVE  /\ SumFunctionOnSet(f, T) \in Nat /\ SumFunctionOnSet(f, S) \in Nat
         /\ SumFunctionOnSet(f, T) <= SumFunctionOnSet(f, S)
<1>1. PICK R : R = S \ T
  OBVIOUS
<1>2. T \cup R = S /\ T \cap R = {} /\ IsFiniteSet(T) /\ IsFiniteSet(R)
  BY <1>1, FS_Subset
<1>3. \A x \in T \cup R : f[x] \in Int
  BY <1>2
<1>4. SumFunctionOnSet(f, T \cup R) = SumFunctionOnSet(f, T) + SumFunctionOnSet(f, R)
  BY <1>2, <1>3, SumUnion
<1>5. \A x \in T : f[x] \in Nat
  OBVIOUS
<1>6. \A x \in R : f[x] \in Nat
  BY <1>1
<1>7. SumFunctionOnSet(f, T) \in Nat /\ SumFunctionOnSet(f, R) \in Nat
  BY <1>2, <1>5, <1>6, SumNat
<1>8. SumFunctionOnSet(f, S) = SumFunctionOnSet(f, T) + SumFunctionOnSet(f, R)
  BY <1>2, <1>4
<1>9. \A a, b, c \in Int : b >= 0 /\ c = a + b => a <= c
  OBVIOUS
<1>10. SumFunctionOnSet(f, S) \in Nat
  BY SumNat
<1> QED  BY <1>7, <1>8, <1>9, <1>10

\* The members of S with key d.
Group(S, key, d) == {x \in S : key[x] = d}

KeyedBy(S, key, K) == \A x \in S : key[x] \in K

Groups(f, S, key, g, K) == \A d \in K : g[d] = SumFunctionOnSet(f, Group(S, key, d))

Integers(f, S) == \A x \in S : f[x] \in Int

\* A sum may be taken group by group.
LEMMA SumByKey ==
  ASSUME NEW f, NEW S, IsFiniteSet(S), Integers(f, S), NEW key, NEW K, IsFiniteSet(K),
         KeyedBy(S, key, K), NEW g, Groups(f, S, key, g, K)
  PROVE  SumFunctionOnSet(f, S) = SumFunctionOnSet(g, K)
<1> USE DEF KeyedBy, Groups, Integers
<1> DEFINE With(U) == {x \in S : key[x] \in U}
           F(U) == SumFunctionOnSet(f, With(U))
           G(U) == SumFunctionOnSet(g, U)
           Bad == {U \in SUBSET K : F(U) # G(U)}
<1>0. Bad \subseteq SUBSET K
  OBVIOUS
<1>1. With(K) = S
  OBVIOUS
<1>2. SUFFICES ASSUME Bad # {} PROVE FALSE
  BY <1>1
<1> HIDE DEF Bad
<1>3. PICK U \in Bad : \A V \in SUBSET U : V # U => V \notin Bad
  BY <1>0, <1>2, Smallest
<1> USE DEF Bad
<1>4. U # {}
  <2>1. With({}) = {}
    OBVIOUS
  <2>2. F({}) = 0 /\ G({}) = 0
    BY <2>1, SumEmpty
  <2> HIDE DEF F, G
  <2>3. F({}) = G({})
    BY <2>2
  <2> QED  BY <2>3
<1>5. PICK p, R : p = Picked(U) /\ R = Rest(U)
  OBVIOUS
<1>6. p \in U /\ R \subseteq U /\ R # U /\ p \notin R /\ U = R \cup {p} /\ p \in K /\ R \in SUBSET K
  BY <1>4, <1>5, PickedIn DEF Rest
<1>7. IsFiniteSet(U) /\ IsFiniteSet(R)
  BY <1>6, FS_Subset
<1>8. F(R) = G(R)
  BY <1>3, <1>6
<1>9. PICK A, B : A = With(R) /\ B = Group(S, key, p)
  OBVIOUS
<1>10. With(U) = A \cup B /\ A \cap B = {} /\ A \subseteq S /\ B \subseteq S
  BY <1>6, <1>9 DEF Group
<1>11. IsFiniteSet(A) /\ IsFiniteSet(B)
  BY <1>10, FS_Subset
<1>12. SumFunctionOnSet(f, A \cup B) = SumFunctionOnSet(f, A) + SumFunctionOnSet(f, B)
  BY <1>10, <1>11, SumUnion
<1>13. \A d \in K : g[d] \in Int
  <2> TAKE d \in K
  <2>1. Group(S, key, d) \subseteq S
    BY DEF Group
  <2>2. IsFiniteSet(Group(S, key, d)) /\ \A x \in Group(S, key, d) : f[x] \in Int
    BY <2>1, FS_Subset
  <2>3. SumFunctionOnSet(f, Group(S, key, d)) \in Int
    BY <2>2, SumType
  <2> QED  BY <2>3
<1>14. SumFunctionOnSet(g, R \cup {p}) = g[p] + SumFunctionOnSet(g, R)
  BY <1>6, <1>7, <1>13, SumAdd
<1>15. SumFunctionOnSet(g, R) \in Int /\ g[p] \in Int
  BY <1>6, <1>7, <1>13, SumType
<1>16. F(U) = F(R) + g[p] /\ G(U) = g[p] + G(R)
  BY <1>6, <1>9, <1>10, <1>12, <1>14
<1>17. F(U) = G(U)
  <2> HIDE DEF F
  <2>1. G(R) \in Int
    BY <1>15
  <2> HIDE DEF G
  <2> QED  BY <1>8, <1>15, <1>16, <2>1
<1> QED  BY <1>3, <1>17

Counts(S, key, g, K) == \A d \in K : g[d] = Cardinality(Group(S, key, d))

LEMMA CountByKey ==
  ASSUME NEW S, IsFiniteSet(S), NEW key, NEW K, IsFiniteSet(K),
         KeyedBy(S, key, K), NEW g, Counts(S, key, g, K)
  PROVE  Cardinality(S) = SumFunctionOnSet(g, K)
<1>1. PICK one : one = [x \in S |-> 1]
  OBVIOUS
<1>2. \A x \in S : one[x] = 1
  BY <1>1
<1>3. ASSUME NEW T, T \subseteq S
      PROVE  SumFunctionOnSet(one, T) = Cardinality(T)
  <2>1. IsFiniteSet(T) /\ \A x \in T : one[x] = 1
    BY <1>2, <1>3, FS_Subset
  <2>2. Cardinality(T) \in Nat
    BY <2>1, FS_CardinalityType
  <2>3. SumFunctionOnSet(one, T) = 1 * Cardinality(T)
    BY <2>1, SumConstant
  <2> QED  BY <2>2, <2>3
<1>4. Groups(one, S, key, g, K)
  <2> SUFFICES ASSUME NEW d \in K PROVE g[d] = SumFunctionOnSet(one, Group(S, key, d))
    BY DEF Groups
  <2>1. Group(S, key, d) \subseteq S
    BY DEF Group
  <2>2. g[d] = Cardinality(Group(S, key, d))
    BY DEF Counts
  <2> QED  BY <1>3, <2>1, <2>2
<1>5. Integers(one, S)
  BY <1>2 DEF Integers
<1>6. SumFunctionOnSet(one, S) = SumFunctionOnSet(g, K)
  BY <1>4, <1>5, SumByKey
<1> QED  BY <1>3, <1>6

\* Pairs of a member of S and one of what it holds.
Pairs(S, I) == UNION {{<<s, i>> : i \in I[s]} : s \in S}

SumsOver(f, S, I, g) ==
  \A s \in S : /\ IsFiniteSet(I[s])
               /\ \A i \in I[s] : f[<<s, i>>] \in Int
               /\ g[s] = SumFunctionOnSet([i \in I[s] |-> f[<<s, i>>]], I[s])

LEMMA SumOfSums ==
  ASSUME NEW f, NEW S, IsFiniteSet(S), NEW I, NEW g, SumsOver(f, S, I, g)
  PROVE  IsFiniteSet(Pairs(S, I)) /\ SumFunctionOnSet(g, S) = SumFunctionOnSet(f, Pairs(S, I))
<1> USE DEF SumsOver
<1>1. PICK X : X = Pairs(S, I)
  OBVIOUS
<1>2. PICK key : key = [x \in X |-> x[1]]
  OBVIOUS
<1>3. \A x \in X : \E s \in S : \E i \in I[s] : x = <<s, i>>
  BY <1>1 DEF Pairs
<1>4. ASSUME NEW s \in S
      PROVE  IsFiniteSet(Group(X, key, s)) /\ g[s] = SumFunctionOnSet(f, Group(X, key, s))
  <2>1. PICK b : b = [i \in I[s] |-> <<s, i>>]
    OBVIOUS
  <2>2. PICK h : h = [i \in I[s] |-> f[<<s, i>>]]
    OBVIOUS
  <2>3. Image(b, I[s]) = Group(X, key, s)
    <3>1. ASSUME NEW x \in Group(X, key, s) PROVE x \in Image(b, I[s])
      <4>1. x \in X /\ x[1] = s
        BY <1>2 DEF Group
      <4>2. PICK t \in S : \E i \in I[t] : x = <<t, i>>
        BY <1>3, <4>1
      <4>3. t = s
        BY <4>1, <4>2
      <4> QED  BY <2>1, <4>2, <4>3 DEF Image
    <3>2. ASSUME NEW i \in I[s] PROVE b[i] \in Group(X, key, s)
      <4>1. b[i] = <<s, i>> /\ <<s, i>> \in X
        BY <1>1, <2>1 DEF Pairs
      <4>2. <<s, i>>[1] = s
        OBVIOUS
      <4> QED  BY <1>2, <4>1, <4>2 DEF Group
    <3> QED  BY <3>1, <3>2 DEF Image
  <2>4. IsFiniteSet(I[s])
    OBVIOUS
  <2>5. Renames(b, h, f, I[s]) /\ OneToOne(b, I[s])
    BY <2>1, <2>2 DEF Renames, OneToOne
  <2>6. SumFunctionOnSet(h, I[s]) = SumFunctionOnSet(f, Image(b, I[s]))
    BY <2>4, <2>5, SumImage
  <2>7. IsFiniteSet(Image(b, I[s]))
    BY <2>4, ImageFinite
  <2> QED  BY <2>2, <2>3, <2>6, <2>7
<1>5. IsFiniteSet(X)
  <2>1. PICK c : c = [s \in S |-> {<<s, i>> : i \in I[s]}]
    OBVIOUS
  <2>2. X = UNION Image(c, S)
    BY <1>1, <2>1 DEF Pairs, Image
  <2>3. IsFiniteSet(Image(c, S))
    BY ImageFinite
  <2>4. \A T \in Image(c, S) : IsFiniteSet(T)
    <3> SUFFICES ASSUME NEW s \in S PROVE IsFiniteSet(c[s])
      BY DEF Image
    <3>1. c[s] \subseteq Group(X, key, s)
      BY <1>1, <1>2, <2>1 DEF Pairs, Group
    <3> QED  BY <1>4, <3>1, FS_Subset
  <2> QED  BY <2>2, <2>3, <2>4, FS_UNION
<1>6. Integers(f, X)
  BY <1>3 DEF Integers
<1>7. KeyedBy(X, key, S)
  <2> SUFFICES ASSUME NEW x \in X PROVE key[x] \in S
    BY DEF KeyedBy
  <2>1. PICK s \in S : \E i \in I[s] : x = <<s, i>>
    BY <1>3
  <2> QED  BY <1>2, <2>1
<1>8. Groups(f, X, key, g, S)
  BY <1>4 DEF Groups
<1>9. SumFunctionOnSet(f, X) = SumFunctionOnSet(g, S)
  BY <1>5, <1>6, <1>7, <1>8, SumByKey
<1> QED  BY <1>1, <1>5, <1>9
=============================================================================
