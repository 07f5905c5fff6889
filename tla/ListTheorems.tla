---------------------------- MODULE ListTheorems ----------------------------
(***************************************************************************)
(* Facts about data, for the proofs about the components.  About the sum   *)
(* of a function over a finite set, as Functions.tla of the community      *)
(* modules defines it: the induction over finite sets is put as a          *)
(* statement about a set of subsets, so that it can be used for any        *)
(* property by naming the subsets that have it.  And about Paging, for     *)
(* lists and pages of every length: the page shown exists and has rows,    *)
(* the pages share the rows out, the page buttons lead from every page to  *)
(* its neighbours and to both ends, filtering keeps exactly the rows that  *)
(* match, sorting puts each row at one place, in order, and merging two    *)
(* lists keeps the rows of both, each once.                                *)
(***************************************************************************)
EXTENDS Paging, Functions, FiniteSetTheorems, SequenceTheorems, TLAPS

-----------------------------------------------------------------------------
(* Induction.                                                              *)

\* Among some subsets of a finite set there is one with no smaller one.
LEMMA MinimalSubset ==
    ASSUME NEW S, IsFiniteSet(S), NEW G \in SUBSET SUBSET S, G # {}
    PROVE  \E T \in G : \A U \in G : U \subseteq T => U = T
<1>1. IsWellFoundedOn(StrictSubsetOrdering(S), SUBSET S)
  BY FS_StrictSubsetOrderingWellFounded, FS_FiniteSubsetsOfFinite
<1>2. PICK T \in G : \A U \in G : <<U, T>> \notin StrictSubsetOrdering(S)
  BY <1>1, WFMin
<1> QED
  BY <1>2 DEF StrictSubsetOrdering

\* A set of subsets that has the empty one, and with each one those with one element
\* more, has the whole set.
LEMMA SubsetInduction ==
    ASSUME NEW S, IsFiniteSet(S), NEW G \in SUBSET SUBSET S, {} \in G,
           \A T \in G : \A x \in S \ T : T \cup {x} \in G
    PROVE  S \in G
<1> SUFFICES ASSUME S \notin G PROVE FALSE
  OBVIOUS
<1> DEFINE B == {T \in SUBSET S : S \ T \in G}
<1>1. S \in B
  OBVIOUS
<1>2. PICK T \in B : \A U \in B : U \subseteq T => U = T
  <2>1. B \in SUBSET SUBSET S /\ B # {}
    BY <1>1
  <2> HIDE DEF B
  <2> QED
    BY <2>1, MinimalSubset
<1>3. T # {}
  BY <1>2
<1>4. PICK x \in T : TRUE
  BY <1>3
<1>5. S \ (T \ {x}) = (S \ T) \cup {x}
  BY <1>2, <1>4
<1>6. (S \ T) \cup {x} \in G
  <2>1. S \ T \in G /\ x \in S \ (S \ T)
    BY <1>2, <1>4
  <2> QED
    BY <2>1
<1>7. T \ {x} \in B
  BY <1>2, <1>5, <1>6
<1> QED
  BY <1>2, <1>4, <1>7

-----------------------------------------------------------------------------
(* The recursion behind the sum.                                           *)

Chosen(s) == CHOOSE x \in s : TRUE

IsSum(g, f, S) ==
    g = [s \in SUBSET S |-> IF s = {} THEN 0 ELSE f[Chosen(s)] + g[s \ {Chosen(s)}]]

LEMMA SumIsChosen ==
    ASSUME NEW f, NEW S
    PROVE  SumFunctionOnSet(f, S) = (CHOOSE g : IsSum(g, f, S))[S]
  BY DEF SumFunctionOnSet, FoldFunctionOnSet, MapThenFoldSet, IsSum, Chosen

\* On subsets of both domains, two solutions agree.
LEMMA SumUnique ==
    ASSUME NEW S, IsFiniteSet(S), NEW R, NEW Q, S \subseteq R, S \subseteq Q, NEW f,
           NEW g, NEW h, IsSum(g, f, R), IsSum(h, f, Q)
    PROVE  g[S] = h[S]
<1> DEFINE G == {T \in SUBSET S : g[T] # h[T]}
<1> SUFFICES ASSUME G # {} PROVE FALSE
  OBVIOUS
<1>1. G \in SUBSET SUBSET S
  OBVIOUS
<1>2. PICK T \in G : \A U \in G : U \subseteq T => U = T
  <2> HIDE DEF G
  <2> QED
    BY <1>1, MinimalSubset
<1>3. T \in SUBSET R /\ T \in SUBSET Q
  OBVIOUS
<1>4. CASE T = {}
  BY <1>2, <1>3, <1>4 DEF IsSum
<1>5. CASE T # {}
  <2>1. Chosen(T) \in T
    BY <1>5 DEF Chosen
  <2>2. g[T \ {Chosen(T)}] = h[T \ {Chosen(T)}]
    BY <1>2, <2>1
  <2>3. g[T] = f[Chosen(T)] + g[T \ {Chosen(T)}]
    BY <1>3, <1>5 DEF IsSum
  <2>4. h[T] = f[Chosen(T)] + h[T \ {Chosen(T)}]
    BY <1>3, <1>5 DEF IsSum
  <2> QED
    BY <1>2, <2>2, <2>3, <2>4
<1> QED
  BY <1>4, <1>5

\* A solution on the subsets of T is one on those of a subset of T.
LEMMA SumRestrict ==
    ASSUME NEW T, NEW U \in SUBSET T, NEW f, NEW g, IsSum(g, f, T)
    PROVE  IsSum([s \in SUBSET U |-> g[s]], f, U)
<1> DEFINE h == [s \in SUBSET U |-> g[s]]
<1>1. ASSUME NEW s \in SUBSET U
      PROVE  h[s] = IF s = {} THEN 0 ELSE f[Chosen(s)] + h[s \ {Chosen(s)}]
  <2>1. s \in SUBSET T /\ s \ {Chosen(s)} \in SUBSET U
    OBVIOUS
  <2>2. g[s] = IF s = {} THEN 0 ELSE f[Chosen(s)] + g[s \ {Chosen(s)}]
    BY <2>1 DEF IsSum
  <2> QED
    BY <2>1, <2>2
<1>2. h = [s \in SUBSET U |-> IF s = {} THEN 0 ELSE f[Chosen(s)] + h[s \ {Chosen(s)}]]
  BY <1>1
<1> QED
  BY <1>2 DEF IsSum

\* The recursion has a solution.
LEMMA SumExists ==
    ASSUME NEW S, IsFiniteSet(S), NEW f
    PROVE  \E g : IsSum(g, f, S)
<1> DEFINE G == {T \in SUBSET S : ~ \E g : IsSum(g, f, T)}
<1> SUFFICES ASSUME G # {} PROVE FALSE
  OBVIOUS
<1>1. G \in SUBSET SUBSET S
  OBVIOUS
<1>2. PICK T \in G : \A U \in G : U \subseteq T => U = T
  <2> HIDE DEF G
  <2> QED
    BY <1>1, MinimalSubset
<1>3. \A U \in SUBSET T : U # T => \E g : IsSum(g, f, U)
  BY <1>2
<1> DEFINE below(U) == CHOOSE g : IsSum(g, f, U)
           step(U) == IF U = {} THEN 0 ELSE f[Chosen(U)] + below(U \ {Chosen(U)})[U \ {Chosen(U)}]
           h == [U \in SUBSET T |-> step(U)]
<1>4. \A U \in SUBSET T : U # T => IsSum(below(U), f, U)
  BY <1>3
<1>5. \A U \in SUBSET T : IsFiniteSet(U)
  BY <1>2, FS_Subset
<1> HIDE DEF below
<1>6. ASSUME NEW U \in SUBSET T, U # {}
      PROVE  below(U \ {Chosen(U)})[U \ {Chosen(U)}] = h[U \ {Chosen(U)}]
  <2> DEFINE V == U \ {Chosen(U)}
  <2>1. Chosen(U) \in U
    BY <1>6 DEF Chosen
  <2>2. V \in SUBSET T /\ V # T /\ IsSum(below(V), f, V) /\ IsFiniteSet(V)
    BY <1>4, <1>5, <2>1
  <2>3. h[V] = step(V)
    BY <2>2
  <2>4. CASE V = {}
    BY <2>2, <2>3, <2>4 DEF IsSum
  <2>5. CASE V # {}
    <3> DEFINE W == V \ {Chosen(V)}
    <3>1. Chosen(V) \in V
      BY <2>5 DEF Chosen
    <3>2. W \in SUBSET T /\ W # T /\ W \subseteq V /\ IsSum(below(W), f, W) /\ IsFiniteSet(W)
      BY <1>4, <1>5, <2>1, <2>2
    <3>3. below(V)[W] = below(W)[W]
      <4> HIDE DEF V, W
      <4> QED
        BY <2>2, <3>2, SumUnique
    <3>4. below(V)[V] = f[Chosen(V)] + below(V)[W]
      <4> HIDE DEF V
      <4> QED
        BY <2>2, <2>5 DEF IsSum
    <3> QED
      BY <2>3, <2>5, <3>3, <3>4
  <2> QED
    BY <2>4, <2>5
<1>7. h = [s \in SUBSET T |-> IF s = {} THEN 0 ELSE f[Chosen(s)] + h[s \ {Chosen(s)}]]
  <2>1. ASSUME NEW s \in SUBSET T
        PROVE  step(s) = IF s = {} THEN 0 ELSE f[Chosen(s)] + h[s \ {Chosen(s)}]
    BY <1>6
  <2> QED
    BY <2>1
<1>8. IsSum(h, f, T)
  BY <1>7 DEF IsSum
<1> QED
  BY <1>2, <1>8

-----------------------------------------------------------------------------
(* What the sum is.                                                        *)

LEMMA SumSolves ==
    ASSUME NEW S, IsFiniteSet(S), NEW f, NEW T \in SUBSET S, NEW g, IsSum(g, f, S)
    PROVE  SumFunctionOnSet(f, T) = g[T]
<1>1. IsFiniteSet(T)
  BY FS_Subset
<1> DEFINE h == CHOOSE k : IsSum(k, f, T)
<1>2. IsSum(h, f, T)
  BY <1>1, SumExists
<1> HIDE DEF h
<1>3. h[T] = g[T]
  BY <1>1, <1>2, SumUnique
<1> QED
  BY <1>3, SumIsChosen DEF h

\* The empty sum.
THEOREM SumEmpty == ASSUME NEW f PROVE SumFunctionOnSet(f, {}) = 0
<1>1. PICK g : IsSum(g, f, {})
  BY FS_EmptySet, SumExists
<1>2. g[{}] = 0
  BY <1>1 DEF IsSum
<1> QED
  BY <1>1, <1>2, FS_EmptySet, SumSolves

LEMMA SumChosen ==
    ASSUME NEW S, IsFiniteSet(S), S # {}, NEW f
    PROVE  /\ Chosen(S) \in S
           /\ SumFunctionOnSet(f, S)
                = f[Chosen(S)] + SumFunctionOnSet(f, S \ {Chosen(S)})
<1>1. Chosen(S) \in S
  BY DEF Chosen
<1>2. PICK g : IsSum(g, f, S)
  BY SumExists
<1>3. g[S] = f[Chosen(S)] + g[S \ {Chosen(S)}]
  BY <1>2 DEF IsSum
<1>4. g[S] = SumFunctionOnSet(f, S) /\ g[S \ {Chosen(S)}] = SumFunctionOnSet(f, S \ {Chosen(S)})
  BY <1>2, SumSolves
<1> QED
  BY <1>1, <1>3, <1>4

\* A sum of naturals is one.
THEOREM SumNat ==
    ASSUME NEW S, IsFiniteSet(S), NEW f, \A x \in S : f[x] \in Nat
    PROVE  SumFunctionOnSet(f, S) \in Nat
<1> DEFINE G == {T \in SUBSET S : SumFunctionOnSet(f, T) \notin Nat}
<1> SUFFICES ASSUME G # {} PROVE FALSE
  OBVIOUS
<1>1. G \in SUBSET SUBSET S
  OBVIOUS
<1>2. PICK T \in G : \A U \in G : U \subseteq T => U = T
  <2> HIDE DEF G
  <2> QED
    BY <1>1, MinimalSubset
<1>3. IsFiniteSet(T)
  BY <1>2, FS_Subset
<1>4. T # {}
  <2>1. SumFunctionOnSet(f, T) \notin Nat
    BY <1>2
  <2> HIDE DEF G
  <2> QED
    BY <2>1, SumEmpty
<1>5. Chosen(T) \in T /\ SumFunctionOnSet(f, T) = f[Chosen(T)] + SumFunctionOnSet(f, T \ {Chosen(T)})
  BY <1>3, <1>4, SumChosen
<1>6. SumFunctionOnSet(f, T \ {Chosen(T)}) \in Nat
  BY <1>2, <1>5
<1>7. f[Chosen(T)] \in Nat /\ SumFunctionOnSet(f, T) \notin Nat
  BY <1>2, <1>5
<1> HIDE DEF G
<1> QED
  BY <1>5, <1>6, <1>7

\* Any element may be added last.
THEOREM SumRemove ==
    ASSUME NEW S, IsFiniteSet(S), NEW f, \A y \in S : f[y] \in Nat, NEW x \in S
    PROVE  SumFunctionOnSet(f, S) = f[x] + SumFunctionOnSet(f, S \ {x})
<1> DEFINE splits(T, y) == SumFunctionOnSet(f, T) = f[y] + SumFunctionOnSet(f, T \ {y})
           G == {T \in SUBSET S : \E y \in T : ~ splits(T, y)}
<1> SUFFICES ASSUME G # {} PROVE FALSE
  OBVIOUS
<1>1. G \in SUBSET SUBSET S
  OBVIOUS
<1>2. PICK T \in G : \A U \in G : U \subseteq T => U = T
  <2> HIDE DEF G
  <2> QED
    BY <1>1, MinimalSubset
<1>3. PICK y \in T : ~ splits(T, y)
  BY <1>2
<1>4. \A U \in SUBSET T : IsFiniteSet(U) /\ SumFunctionOnSet(f, U) \in Nat
  BY <1>2, FS_Subset, SumNat
<1> DEFINE z == Chosen(T)
<1>5. z \in T /\ splits(T, z)
  BY <1>4, SumChosen
<1>6. y # z
  BY <1>3, <1>5
<1> HIDE DEF z
<1>7. splits(T \ {z}, y)
  BY <1>2, <1>3, <1>5, <1>6
<1>8. splits(T \ {y}, z)
  BY <1>2, <1>3, <1>5, <1>6
<1>9. (T \ {z}) \ {y} = (T \ {y}) \ {z}
  OBVIOUS
<1>10. /\ f[y] \in Nat /\ f[z] \in Nat
       /\ SumFunctionOnSet(f, (T \ {y}) \ {z}) \in Nat
  BY <1>2, <1>3, <1>4, <1>5
<1>11. splits(T, y)
  <2>1. SumFunctionOnSet(f, T \ {z}) = f[y] + SumFunctionOnSet(f, (T \ {y}) \ {z})
    BY <1>7, <1>9
  <2> QED
    BY <1>5, <1>8, <1>10, <2>1
<1> QED
  BY <1>3, <1>11

\* A new element adds its value.
THEOREM SumAdd ==
    ASSUME NEW S, IsFiniteSet(S), NEW f, NEW x, x \notin S, \A y \in S \cup {x} : f[y] \in Nat
    PROVE  SumFunctionOnSet(f, S \cup {x}) = SumFunctionOnSet(f, S) + f[x]
<1>1. IsFiniteSet(S \cup {x}) /\ (S \cup {x}) \ {x} = S
  BY FS_AddElement
<1>2. SumFunctionOnSet(f, S \cup {x}) = f[x] + SumFunctionOnSet(f, (S \cup {x}) \ {x})
  BY <1>1, SumRemove
<1>3. SumFunctionOnSet(f, S) \in Nat /\ f[x] \in Nat
  BY SumNat
<1> QED
  BY <1>1, <1>2, <1>3

\* Only the values on the set count.
THEOREM SumSame ==
    ASSUME NEW S, IsFiniteSet(S), NEW f, NEW g, \A x \in S : f[x] = g[x]
    PROVE  SumFunctionOnSet(f, S) = SumFunctionOnSet(g, S)
<1> DEFINE G == {T \in SUBSET S : SumFunctionOnSet(f, T) # SumFunctionOnSet(g, T)}
<1> SUFFICES ASSUME G # {} PROVE FALSE
  OBVIOUS
<1>1. G \in SUBSET SUBSET S
  OBVIOUS
<1>2. PICK T \in G : \A U \in G : U \subseteq T => U = T
  <2> HIDE DEF G
  <2> QED
    BY <1>1, MinimalSubset
<1>3. IsFiniteSet(T)
  BY <1>2, FS_Subset
<1>4. T # {}
  BY <1>2, SumEmpty
<1>5. /\ Chosen(T) \in T
      /\ SumFunctionOnSet(f, T) = f[Chosen(T)] + SumFunctionOnSet(f, T \ {Chosen(T)})
      /\ SumFunctionOnSet(g, T) = g[Chosen(T)] + SumFunctionOnSet(g, T \ {Chosen(T)})
  BY <1>3, <1>4, SumChosen
<1>6. SumFunctionOnSet(f, T \ {Chosen(T)}) = SumFunctionOnSet(g, T \ {Chosen(T)})
  BY <1>2, <1>5
<1>7. f[Chosen(T)] = g[Chosen(T)]
  BY <1>2, <1>5
<1> QED
  BY <1>2, <1>5, <1>6, <1>7

\* The sum over a set is that over a part of it and that over the rest.
THEOREM SumSplit ==
    ASSUME NEW S, IsFiniteSet(S), NEW f, \A x \in S : f[x] \in Nat, NEW R \in SUBSET S
    PROVE  SumFunctionOnSet(f, S) = SumFunctionOnSet(f, R) + SumFunctionOnSet(f, S \ R)
<1> DEFINE total(T) == SumFunctionOnSet(f, T)
           G == {T \in SUBSET R : total(T \cup (S \ R)) = total(T) + total(S \ R)}
<1>1. /\ IsFiniteSet(R)
      /\ \A T \in SUBSET S : IsFiniteSet(T) /\ total(T) \in Nat
  BY FS_Subset, SumNat
<1>2. {} \in G
  BY <1>1, SumEmpty
<1>3. ASSUME NEW T \in G, NEW x \in R \ T
      PROVE  T \cup {x} \in G
  <2>1. total(T \cup {x}) = total(T) + f[x]
    BY <1>1, <1>3, SumAdd
  <2>2. total((T \cup (S \ R)) \cup {x}) = total(T \cup (S \ R)) + f[x]
    <3> DEFINE V == T \cup (S \ R)
    <3>1. IsFiniteSet(V) /\ x \notin V
      BY <1>1, <1>3
    <3>2. \A y \in V \cup {x} : f[y] \in Nat
      BY <1>3
    <3> HIDE DEF V
    <3>3. SumFunctionOnSet(f, V \cup {x}) = SumFunctionOnSet(f, V) + f[x]
      BY <3>1, <3>2, SumAdd
    <3> QED
      BY <3>3 DEF V
  <2>3. (T \cup {x}) \cup (S \ R) = (T \cup (S \ R)) \cup {x}
    OBVIOUS
  <2>4. total(T) \in Nat /\ total(S \ R) \in Nat /\ f[x] \in Nat
    BY <1>1, <1>3
  <2>5. total(T \cup (S \ R)) = total(T) + total(S \ R)
    BY <1>3
  <2>6. total((T \cup {x}) \cup (S \ R)) = total(T \cup {x}) + total(S \ R)
    <3>1. total((T \cup {x}) \cup (S \ R)) = total((T \cup (S \ R)) \cup {x})
      BY <2>3
    <3> HIDE DEF total
    <3> QED
      BY <2>1, <2>2, <2>4, <2>5, <3>1
  <2> QED
    BY <1>3, <2>6
<1>4. R \in G
  <2>1. G \in SUBSET SUBSET R
    OBVIOUS
  <2> HIDE DEF G
  <2> QED
    BY <1>1, <1>2, <1>3, <2>1, SubsetInduction
<1>5. R \cup (S \ R) = S
  OBVIOUS
<1> QED
  BY <1>4, <1>5

\* A part has no larger sum.
THEOREM SumPart ==
    ASSUME NEW S, IsFiniteSet(S), NEW f, \A x \in S : f[x] \in Nat, NEW R \in SUBSET S
    PROVE  SumFunctionOnSet(f, R) <= SumFunctionOnSet(f, S)
<1>1. IsFiniteSet(R) /\ IsFiniteSet(S \ R)
  BY FS_Subset, FS_Difference
<1>2. SumFunctionOnSet(f, R) \in Nat /\ SumFunctionOnSet(f, S \ R) \in Nat
  BY <1>1, SumNat
<1> QED
  BY <1>2, SumSplit

\* Nothing sums up to nothing.
THEOREM SumZero ==
    ASSUME NEW S, IsFiniteSet(S), NEW f, \A x \in S : f[x] = 0
    PROVE  SumFunctionOnSet(f, S) = 0
<1> DEFINE G == {T \in SUBSET S : SumFunctionOnSet(f, T) = 0}
<1>1. {} \in G
  BY SumEmpty
<1>2. ASSUME NEW T \in G, NEW x \in S \ T PROVE T \cup {x} \in G
  <2>1. IsFiniteSet(T)
    BY FS_Subset
  <2>2. \A y \in T \cup {x} : f[y] \in Nat
    BY <1>2
  <2>3. SumFunctionOnSet(f, T) = 0 /\ f[x] = 0
    BY <1>2
  <2>4. SumFunctionOnSet(f, T \cup {x}) = SumFunctionOnSet(f, T) + f[x]
    <3>1. x \notin T
      BY <1>2
    <3> HIDE DEF G
    <3> QED
      BY <2>1, <2>2, <3>1, SumAdd
  <2>5. SumFunctionOnSet(f, T \cup {x}) = 0
    <3> HIDE DEF G
    <3> DEFINE a == SumFunctionOnSet(f, T \cup {x})
               b == SumFunctionOnSet(f, T)
               c == f[x]
    <3>1. a = b + c /\ b = 0 /\ c = 0
      BY <2>3, <2>4
    <3> HIDE DEF a, b, c
    <3>2. a = 0
      BY <3>1
    <3> QED
      BY <3>2 DEF a
  <2> QED
    BY <1>2, <2>5
<1>3. G \in SUBSET SUBSET S
  OBVIOUS
<1>4. S \in G
  <2> HIDE DEF G
  <2> QED
    BY <1>1, <1>2, <1>3, SubsetInduction
<1> QED
  BY <1>4

-----------------------------------------------------------------------------
(* Arithmetic.                                                             *)

LEMMA MaxOfTwo ==
    ASSUME NEW a \in Int, NEW b \in Int
    PROVE  /\ Max({a, b}) \in {a, b}
           /\ Max({a, b}) >= a /\ Max({a, b}) >= b
<1>1. \E x \in {a, b} : \A y \in {a, b} : x >= y
  OBVIOUS
<1>2. Max({a, b}) \in {a, b} /\ \A y \in {a, b} : Max({a, b}) >= y
  BY <1>1 DEF Max
<1> QED
  BY <1>2

LEMMA MinOfTwo ==
    ASSUME NEW a \in Int, NEW b \in Int
    PROVE  /\ Min({a, b}) \in {a, b}
           /\ Min({a, b}) <= a /\ Min({a, b}) <= b
<1>1. \E x \in {a, b} : \A y \in {a, b} : x <= y
  OBVIOUS
<1>2. Min({a, b}) \in {a, b} /\ \A y \in {a, b} : Min({a, b}) <= y
  BY <1>1 DEF Min
<1> QED
  BY <1>2

\* The quotient of a division.
LEMMA Quotient ==
    ASSUME NEW a \in Nat, NEW b \in Nat \ {0}
    PROVE  /\ a \div b \in Nat
           /\ b * (a \div b) <= a /\ a < b * (a \div b) + b
  OBVIOUS

LEMMA ProductGrows ==
    ASSUME NEW b \in Nat \ {0}, NEW p \in Int, NEW q \in Int, p <= q
    PROVE  b * p \in Int /\ b * q \in Int /\ b * p <= b * q
  OBVIOUS

\* The number of pages is the least one that has room for n rows, and at least one.
LEMMA TotalPages ==
    ASSUME NEW n \in Nat, NEW size \in Nat \ {0}
    PROVE  /\ totalPages(n, size) \in Nat \ {0}
           /\ n <= size * totalPages(n, size)
           /\ size * (totalPages(n, size) - 1) < n \/ totalPages(n, size) = 1
<1> DEFINE m == (n + size - 1) \div size
<1>1. m \in Nat /\ size * m <= n + size - 1 /\ n + size - 1 < size * m + size
  BY Quotient
<1>a. totalPages(n, size) = Max({1, m})
  BY DEF totalPages
<1> HIDE DEF m
<1>b. 1 \in Int /\ m \in Int
  BY <1>1
<1>c. Max({1, m}) \in {1, m} /\ Max({1, m}) >= 1 /\ Max({1, m}) >= m
  BY <1>b, MaxOfTwo, Zenon
<1>2. totalPages(n, size) \in {1, m} /\ totalPages(n, size) >= 1 /\ totalPages(n, size) >= m
  BY <1>a, <1>c
<1>3. CASE totalPages(n, size) = m
  <2>1. size * (m - 1) = size * m - size
    BY <1>1
  <2> QED
    BY <1>1, <1>2, <1>3, <2>1
<1>4. CASE totalPages(n, size) = 1 /\ m = 0
  BY <1>1, <1>4
<1> QED
  BY <1>1, <1>2, <1>3, <1>4

\* The page shown is one of the pages.
LEMMA ValidPage ==
    ASSUME NEW page \in Nat \ {0}, NEW n \in Nat, NEW size \in Nat \ {0}
    PROVE  /\ validPage(page, n, size) \in 1..totalPages(n, size)
           /\ validPage(page, n, size) <= page
<1>1. totalPages(n, size) \in Nat \ {0}
  BY TotalPages
<1> DEFINE total == totalPages(n, size)
           p == Min({page, total})
<1>2. page \in Int /\ total \in Int
  BY <1>1
<1>3. p \in {page, total} /\ p <= page /\ p <= total
  <2> HIDE DEF total
  <2> QED
    BY <1>2, MinOfTwo, Zenon
<1>4. validPage(page, n, size) = p
  BY DEF validPage
<1> HIDE DEF p
<1> QED
  BY <1>1, <1>3, <1>4

-----------------------------------------------------------------------------
(* The rows of a page.                                                     *)

\* rows are those of s after place `from`, as many as fit on a page.
RowsAfter(rows, R, s, from, size) ==
  /\ rows \in Seq(R)
  /\ from >= Len(s) => Len(rows) = 0
  /\ from < Len(s) /\ from + size <= Len(s) => Len(rows) = size
  /\ from < Len(s) /\ Len(s) <= from + size => Len(rows) = Len(s) - from
  /\ \A i \in 1..Len(rows) : rows[i] = s[from + i]

LEMMA SubSeqRows ==
    ASSUME NEW R, NEW s \in Seq(R), NEW from \in Nat, NEW size \in Nat \ {0},
           NEW last \in {from + size, Len(s)}, last <= from + size, last <= Len(s),
           NEW rows, rows = SubSeq(s, from + 1, last)
    PROVE  RowsAfter(rows, R, s, from, size)
<1>1. from + 1 \in Int /\ last \in Int /\ Len(s) \in Nat
  OBVIOUS
<1>2. \A i \in (from + 1)..last : s[i] \in R
  BY <1>1
<1> DEFINE first == from + 1
<1>a. first \in Int
  OBVIOUS
<1>b. /\ SubSeq(s, first, last) \in Seq(R)
      /\ Len(SubSeq(s, first, last)) = IF first <= last THEN last - first + 1 ELSE 0
      /\ \A i \in 1..(last - first + 1) : SubSeq(s, first, last)[i] = s[first + i - 1]
  <2> HIDE DEF first
  <2> QED
    BY <1>1, <1>2, <1>a, SubSeqProperties DEF first
<1>3. /\ rows \in Seq(R)
      /\ Len(rows) = IF from + 1 <= last THEN last - (from + 1) + 1 ELSE 0
      /\ \A i \in 1..(last - (from + 1) + 1) : rows[i] = s[from + 1 + i - 1]
  BY <1>b
<1>4. Len(rows) = IF from < last THEN last - from ELSE 0
  BY <1>1, <1>3
<1>5. ASSUME NEW i \in 1..Len(rows) PROVE rows[i] = s[from + i]
  <2>1. i \in 1..(last - (from + 1) + 1) /\ from + 1 + i - 1 = from + i
    BY <1>1, <1>4
  <2> QED
    BY <1>3, <2>1
<1> QED
  BY <1>1, <1>3, <1>4, <1>5 DEF RowsAfter

\* A page begins after the rows of the pages before it and ends with its size or the list.
LEMMA SliceRows ==
    ASSUME NEW R, NEW s \in Seq(R), NEW page \in Nat \ {0}, NEW size \in Nat \ {0},
           NEW from, from = size * (page - 1)
    PROVE  RowsAfter(slice(s, page, size), R, s, from, size)
<1> DEFINE product == page * size
           len == Len(s)
           last == Min({product, len})
<1>1. from \in Nat /\ (page - 1) * size = from /\ product = from + size
  OBVIOUS
<1>2. slice(s, page, size) = SubSeq(s, from + 1, last)
  BY <1>1 DEF slice
<1>3. product \in Int /\ len \in Int
  OBVIOUS
<1>4. last \in {product, len} /\ last <= product /\ last <= len
  <2> HIDE DEF product, len
  <2> QED
    BY <1>3, MinOfTwo, Zenon
<1>5. last \in {from + size, Len(s)} /\ last <= from + size /\ last <= Len(s)
  BY <1>1, <1>4
<1> DEFINE rows == slice(s, page, size)
<1>6. rows = SubSeq(s, from + 1, last)
  BY <1>2
<1> HIDE DEF last, rows
<1>7. from \in Nat
  BY <1>1
<1>8. RowsAfter(rows, R, s, from, size)
  BY <1>5, <1>6, <1>7, SubSeqRows
<1> QED
  BY <1>8 DEF rows

\* Where there are rows, the page shown has some, whatever page was asked for.
THEOREM PageHasRows ==
    ASSUME NEW R, NEW s \in Seq(R), s # <<>>, NEW page \in Nat \ {0}, NEW size \in Nat \ {0}
    PROVE  slice(s, validPage(page, Len(s), size), size) # <<>>
<1> DEFINE n == totalPages(Len(s), size)
           p == validPage(page, Len(s), size)
<1>1. Len(s) \in Nat /\ Len(s) > 0
  OBVIOUS
<1>2. n \in Nat \ {0} /\ (size * (n - 1) < Len(s) \/ n = 1)
  BY <1>1, TotalPages
<1>3. p \in 1..n
  BY <1>1, ValidPage
<1> HIDE DEF n, p
<1>4. size * (p - 1) < Len(s)
  <2>1. size * (p - 1) \in Int /\ size * (n - 1) \in Int /\ size * (p - 1) <= size * (n - 1)
    BY <1>2, <1>3, ProductGrows
  <2> QED
    BY <1>1, <1>2, <2>1
<1>5. Len(slice(s, p, size)) # 0
  <2> DEFINE from == size * (p - 1)
             rows == slice(s, p, size)
  <2>1. p \in Nat \ {0} /\ from \in Int /\ from < Len(s)
    BY <1>2, <1>3, <1>4
  <2> HIDE DEF rows
  <2>a. RowsAfter(slice(s, p, size), R, s, from, size)
    BY <2>1, SliceRows
  <2>2. /\ from < Len(s) /\ from + size <= Len(s) => Len(rows) = size
        /\ from < Len(s) /\ Len(s) <= from + size => Len(rows) = Len(s) - from
    <3> HIDE DEF from
    <3> QED
      BY <2>a DEF rows, RowsAfter
  <2> HIDE DEF from
  <2>3. Len(rows) # 0
    BY <1>1, <2>1, <2>2
  <2> QED
    BY <2>3 DEF rows
<1> QED
  BY <1>5 DEF p

-----------------------------------------------------------------------------
(* All pages together.                                                     *)

\* A set of numbers up to n has a least one.
LEMMA LeastNumber ==
    ASSUME NEW n \in Nat, NEW K \in SUBSET (0..n), K # {}
    PROVE  \E k \in K : \A j \in K : k <= j
<1> DEFINE G == {1..k : k \in K}
<1>1. IsFiniteSet(1..n)
  BY FS_Interval
<1> DEFINE N == 1..n
<1>2. G \in SUBSET SUBSET N /\ G # {}
  <2>1. \A k \in K : 1..k \subseteq 1..n
    OBVIOUS
  <2> QED
    BY <2>1
<1>3. PICK T \in G : \A U \in G : U \subseteq T => U = T
  <2>1. IsFiniteSet(N)
    BY <1>1
  <2> HIDE DEF G, N
  <2> QED
    BY <1>2, <2>1, MinimalSubset
<1>4. PICK k \in K : T = 1..k
  BY <1>3
<1>5. ASSUME NEW j \in K, ~ k <= j PROVE FALSE
  <2>1. 1..j \in G /\ 1..j \subseteq T
    BY <1>4, <1>5
  <2>2. 1..j = 1..k
    BY <1>3, <1>4, <2>1
  <2>3. k \in 1..k /\ k \notin 1..j
    BY <1>4, <1>5
  <2> QED
    BY <2>2, <2>3
<1> QED
  BY <1>5

\* A sum over the numbers up to k ends with its last term.
LEMMA SumUpTo ==
    ASSUME NEW k \in Nat \ {0}, NEW f, \A p \in 1..k : f[p] \in Nat
    PROVE  SumFunctionOnSet(f, 1..k) = SumFunctionOnSet(f, 1..(k - 1)) + f[k]
<1> DEFINE T == 1..k
           below == 1..(k - 1)
<1>1. 1 \in Int /\ k \in Int /\ k - 1 \in Int
  OBVIOUS
<1>2. IsFiniteSet(T) /\ IsFiniteSet(below)
  BY <1>1, FS_Interval
<1>3. k \in T /\ below = T \ {k} /\ f[k] \in Nat
  OBVIOUS
<1>4. SumFunctionOnSet(f, below) \in Nat
  BY <1>2, SumNat
<1>5. \A p \in T : f[p] \in Nat
  OBVIOUS
<1> HIDE DEF T, below
<1>6. SumFunctionOnSet(f, T) = f[k] + SumFunctionOnSet(f, T \ {k})
  BY <1>2, <1>3, <1>5, SumRemove
<1>7. SumFunctionOnSet(f, T \ {k}) = SumFunctionOnSet(f, below)
  BY <1>3, Zenon
<1>8. SumFunctionOnSet(f, T) = SumFunctionOnSet(f, below) + f[k]
  BY <1>3, <1>4, <1>6, <1>7
<1> QED
  BY <1>8 DEF T, below

rowsPerPage(s, size, n) == [p \in 1..n |-> Len(slice(s, p, size))]

asFarAs(room, len) == IF room <= len THEN room ELSE len

\* The first k pages hold the first size * k rows, as far as there are any.
LEMMA FirstPages ==
    ASSUME NEW R, NEW s \in Seq(R), NEW size \in Nat \ {0}, NEW n \in Nat, NEW page \in 0..n,
           NEW room, room = size * page
    PROVE  SumFunctionOnSet(rowsPerPage(s, size, n), 1..page) = asFarAs(room, Len(s))
<1> DEFINE rowsOn == rowsPerPage(s, size, n)
<1>0. \A p \in 1..n : rowsOn[p] = Len(slice(s, p, size))
  BY DEF rowsPerPage
<1> HIDE DEF rowsOn
<1> DEFINE first(k) == asFarAs(size * k, Len(s))
           K == {k \in 0..n : SumFunctionOnSet(rowsOn, 1..k) # first(k)}
<1> SUFFICES ASSUME K # {} PROVE FALSE
  BY DEF rowsOn
<1>1. Len(s) \in Nat
  OBVIOUS
<1>2. PICK k \in K : \A j \in K : k <= j
  <2>1. K \in SUBSET (0..n)
    OBVIOUS
  <2> HIDE DEF K
  <2> QED
    BY <2>1, LeastNumber
<1>3. k # 0
  <2>1. 1..0 = {} /\ first(0) = 0
    BY <1>1 DEF asFarAs
  <2> QED
    BY <1>2, <2>1, SumEmpty
<1>4. k - 1 \in 0..n /\ k \in 1..n /\ 1..k = (1..(k - 1)) \cup {k} /\ k \notin 1..(k - 1)
  BY <1>2, <1>3
<1>5. SumFunctionOnSet(rowsOn, 1..(k - 1)) = first(k - 1)
  <2>1. k \in Nat /\ ~ k <= k - 1
    BY <1>2
  <2>2. k - 1 \notin K
    <3> HIDE DEF K
    <3> QED
      BY <1>2, <2>1
  <2> QED
    BY <1>4, <2>2
<1> DEFINE from == size * (k - 1)
<1>6. rowsOn[k] = Len(slice(s, k, size))
  BY <1>0, <1>4
<1>7. /\ from \in Nat /\ size * k = from + size
  BY <1>4
<1>8. /\ from >= Len(s) => rowsOn[k] = 0
      /\ from < Len(s) /\ from + size <= Len(s) => rowsOn[k] = size
      /\ from < Len(s) /\ Len(s) <= from + size => rowsOn[k] = Len(s) - from
  <2> DEFINE rows == slice(s, k, size)
  <2>1. k \in Nat \ {0}
    BY <1>4
  <2>2. RowsAfter(rows, R, s, from, size)
    BY <2>1, SliceRows
  <2> HIDE DEF rows, from
  <2>3. /\ from >= Len(s) => Len(rows) = 0
        /\ from < Len(s) /\ from + size <= Len(s) => Len(rows) = size
        /\ from < Len(s) /\ Len(s) <= from + size => Len(rows) = Len(s) - from
    BY <2>2 DEF RowsAfter
  <2> QED
    BY <1>6, <2>3 DEF rows
<1>9. \A p \in 1..n : rowsOn[p] \in Nat
  <2> SUFFICES ASSUME NEW p \in 1..n PROVE rowsOn[p] \in Nat
    OBVIOUS
  <2>1. slice(s, p, size) \in Seq(R)
    BY SliceRows DEF RowsAfter
  <2> QED
    BY <1>0, <2>1
<1>10. SumFunctionOnSet(rowsOn, 1..k) = SumFunctionOnSet(rowsOn, 1..(k - 1)) + rowsOn[k]
  <2>1. k \in Nat \ {0} /\ \A p \in 1..k : rowsOn[p] \in Nat
    BY <1>4, <1>9
  <2> QED
    BY <2>1, SumUpTo
<1>11. SumFunctionOnSet(rowsOn, 1..k) = first(k)
  <2>1. first(k - 1) = (IF from <= Len(s) THEN from ELSE Len(s))
    BY DEF asFarAs
  <2>2. first(k) = (IF from + size <= Len(s) THEN from + size ELSE Len(s))
    BY <1>7 DEF asFarAs
  <2> DEFINE a == rowsOn[k]
             b == first(k - 1)
             c == first(k)
             d == SumFunctionOnSet(rowsOn, 1..k)
             e == SumFunctionOnSet(rowsOn, 1..(k - 1))
  <2>3. /\ d = e + a /\ e = b
        /\ b = (IF from <= Len(s) THEN from ELSE Len(s))
        /\ c = (IF from + size <= Len(s) THEN from + size ELSE Len(s))
    BY <1>5, <1>10, <2>1, <2>2
  <2>4. /\ from >= Len(s) => a = 0
        /\ from < Len(s) /\ from + size <= Len(s) => a = size
        /\ from < Len(s) /\ Len(s) <= from + size => a = Len(s) - from
    BY <1>8
  <2>5. from \in Nat
    BY <1>7
  <2> HIDE DEF a, b, c, d, e, from
  <2>6. d = c
    BY <1>1, <2>3, <2>4, <2>5
  <2> QED
    BY <2>6 DEF c, d
<1> QED
  BY <1>2, <1>11

\* The place of a row: the page that begins at most size - 1 rows before it.
LEMMA PageOfRow ==
    ASSUME NEW len \in Nat, NEW size \in Nat \ {0}, NEW i \in 1..len
    PROVE  \E p \in 1..totalPages(len, size) :
             size * (p - 1) \in Nat /\ size * (p - 1) < i /\ i <= size * (p - 1) + size
<1> DEFINE q == (i - 1) \div size
           n == totalPages(len, size)
           p == q + 1
<1>1. i - 1 \in Nat
  OBVIOUS
<1>2. q \in Nat /\ size * q <= i - 1 /\ i - 1 < size * q + size
  BY <1>1, Quotient
<1>3. n \in Nat \ {0} /\ len <= size * n
  BY TotalPages
<1> HIDE DEF q, n
<1>4. q < n
  <2> SUFFICES ASSUME n <= q PROVE FALSE
    BY <1>2, <1>3
  <2>1. size * n <= size * q /\ size * n \in Int /\ size * q \in Int
    BY <1>2, <1>3, ProductGrows
  <2> QED
    BY <1>2, <1>3, <2>1
<1>5. p \in 1..n /\ size * (p - 1) = size * q
  BY <1>2, <1>3, <1>4
<1>6. size * q \in Nat /\ size * q < i /\ i <= size * q + size
  BY <1>2
<1> HIDE DEF p
<1>7. size * (p - 1) \in Nat /\ size * (p - 1) < i /\ i <= size * (p - 1) + size
  BY <1>5, <1>6
<1> QED
  BY <1>5, <1>7 DEF n

\* The pages of a list hold every row exactly once, in order.
THEOREM PagesShareRows ==
    ASSUME NEW R, NEW s \in Seq(R), NEW size \in Nat \ {0}
    PROVE  PagesPartition(s, size)
<1> DEFINE n == totalPages(Len(s), size)
           rowsOn == [p \in 1..n |-> Len(slice(s, p, size))]
<1>1. Len(s) \in Nat /\ DOMAIN s = 1..Len(s)
  OBVIOUS
<1>2. n \in Nat \ {0} /\ Len(s) <= size * n
  BY <1>1, TotalPages
<1>3. ASSUME NEW i \in DOMAIN s
      PROVE  \E p \in 1..n : /\ i - (p - 1) * size \in DOMAIN slice(s, p, size)
                             /\ slice(s, p, size)[i - (p - 1) * size] = s[i]
  <2>1. i \in 1..Len(s)
    BY <1>1
  <2>2. PICK p \in 1..n : size * (p - 1) \in Nat /\ size * (p - 1) < i /\ i <= size * (p - 1) + size
    BY <1>1, <2>1, PageOfRow
  <2> DEFINE from == size * (p - 1)
             rows == slice(s, p, size)
  <2> HIDE DEF n
  <2>3. p \in Nat \ {0}
    BY <1>2
  <2>4. from \in Nat /\ from < i /\ i <= from + size /\ (p - 1) * size = from
    BY <2>2, <2>3
  <2>a. from = size * (p - 1)
    OBVIOUS
  <2> HIDE DEF from
  <2>e. RowsAfter(rows, R, s, from, size)
    BY <2>3, <2>a, SliceRows
  <2>b. rows \in Seq(R)
    BY <2>e DEF RowsAfter
  <2>c. /\ from < Len(s) /\ from + size <= Len(s) => Len(rows) = size
        /\ from < Len(s) /\ Len(s) <= from + size => Len(rows) = Len(s) - from
    BY <2>e DEF RowsAfter
  <2>5. Len(rows) \in Nat /\ DOMAIN rows = 1..Len(rows)
    BY <2>b
  <2>d. ASSUME NEW k \in 1..Len(rows) PROVE rows[k] = s[from + k]
    <3> HIDE DEF rows
    <3> QED
      BY <2>e, <2>d DEF RowsAfter
  <2> HIDE DEF rows
  <2>6. i - from \in 1..Len(rows)
    <3> DEFINE len == Len(s)
               held == Len(rows)
    <3>1. /\ from < len /\ from + size <= len => held = size
          /\ from < len /\ len <= from + size => held = len - from
          /\ len \in Nat /\ held \in Nat /\ i \in 1..len
      BY <1>1, <2>1, <2>5, <2>c
    <3> HIDE DEF len, held
    <3>2. i - from \in 1..held
      BY <2>4, <3>1
    <3> QED
      BY <3>2 DEF held
  <2>7. i - from \in DOMAIN rows /\ rows[i - from] = s[i]
    <3>1. from + (i - from) = i
      BY <1>1, <2>1, <2>4
    <3> QED
      BY <2>5, <2>6, <2>d, <3>1
  <2>8. i - (p - 1) * size \in DOMAIN rows /\ rows[i - (p - 1) * size] = s[i]
    BY <2>4, <2>7
  <2> QED
    BY <2>2, <2>8 DEF rows
<1>4. SumFunction(rowsOn) = Len(s)
  <2>1. DOMAIN rowsOn = 1..n
    OBVIOUS
  <2> HIDE DEF n
  <2>a. n \in Nat /\ n \in 0..n /\ rowsOn = rowsPerPage(s, size, n)
    BY <1>2 DEF rowsPerPage
  <2> HIDE DEF rowsOn
  <2> DEFINE room == size * n
  <2>b. room = size * n /\ room \in Nat /\ Len(s) <= room
    BY <1>1, <1>2
  <2> HIDE DEF room
  <2>2. SumFunctionOnSet(rowsOn, 1..n) = asFarAs(room, Len(s))
    BY <2>a, <2>b, FirstPages
  <2>3. SumFunctionOnSet(rowsOn, 1..n) = Len(s)
    <3> DEFINE len == Len(s)
    <3>1. len \in Nat /\ len <= room
      BY <1>1, <2>b
    <3> HIDE DEF len
    <3>2. room <= len => room = len
      BY <2>b, <3>1
    <3> QED
      BY <2>2, <3>2 DEF len, asFarAs
  <2> QED
    BY <2>1, <2>3 DEF SumFunction
<1> QED
  BY <1>3, <1>4 DEF PagesPartition

-----------------------------------------------------------------------------
(* Lists that are filtered and sorted.                                     *)

\* A function on the first n numbers is a sequence.
LEMMA FunctionIsList ==
    ASSUME NEW n \in Nat, NEW f, DOMAIN f = 1..n, f = [k \in 1..n |-> f[k]]
    PROVE  f \in Seq({f[k] : k \in 1..n}) /\ Len(f) = n
<1>1. f \in [1..n -> {f[k] : k \in 1..n}]
  OBVIOUS
<1> QED
  BY <1>1

\* A filter keeps as many rows as there are places to keep.
LEMMA RowsAtIsList ==
    ASSUME NEW s, NEW places, IsFiniteSet(places)
    PROVE  /\ Cardinality(places) \in Nat
           /\ DOMAIN rowsAt(s, places) = 1..Cardinality(places)
           /\ Len(rowsAt(s, places)) = Cardinality(places)
<1> DEFINE n == Cardinality(places)
           f == rowsAt(s, places)
<1>1. n \in Nat
  BY FS_CardinalityType
<1>2. DOMAIN f = 1..n /\ f = [k \in 1..n |-> f[k]]
  BY DEF rowsAt
<1> HIDE DEF n, f
<1>3. Len(f) = n
  BY <1>1, <1>2, FunctionIsList
<1> QED
  BY <1>1, <1>2, <1>3 DEF n, f

\* The k-th place of a set of places is one of them: as one walks up the list, the number of
\* places passed grows by one at a place and stays elsewhere.
LEMMA NthPlace ==
    ASSUME NEW n \in Nat, NEW places \in SUBSET (1..n), NEW k \in 1..Cardinality(places)
    PROVE  \E i \in places : Cardinality({j \in places : j <= i}) = k
<1> DEFINE upTo(i) == {j \in places : j <= i}
           K == {i \in 0..n : Cardinality(upTo(i)) >= k}
<1>0. /\ n \in Int /\ n >= 0
      /\ \A j \in places : j \in Int /\ 1 <= j /\ j <= n
  OBVIOUS
<1>1. IsFiniteSet(places) /\ Cardinality(places) \in Nat /\ k \in Int /\ k >= 1
  <2>1. IsFiniteSet(1..n)
    BY <1>0, FS_Interval
  <2>2. IsFiniteSet(places)
    BY <2>1, FS_Subset
  <2>3. Cardinality(places) \in Nat
    BY <2>2, FS_CardinalityType
  <2> QED
    BY <2>2, <2>3
<1>2. \A i \in Int : IsFiniteSet(upTo(i)) /\ Cardinality(upTo(i)) \in Nat
  BY <1>1, FS_Subset, FS_CardinalityType
<1>3. n \in K
  <2>1. upTo(n) = places
    BY <1>0
  <2> QED
    BY <1>1, <2>1
<1>4. PICK i \in K : \A j \in K : i <= j
  <2> HIDE DEF K
  <2>1. K \in SUBSET (0..n)
    BY DEF K
  <2> QED
    BY <1>3, <2>1, LeastNumber
<1>5. i # 0 /\ i \in Int /\ 0 <= i /\ i <= n /\ Cardinality(upTo(i)) >= k
  <2>1. upTo(0) = {}
    <3>1. \A j \in places : ~ j <= 0
      BY <1>0
    <3> QED
      BY <3>1
  <2>2. Cardinality(upTo(0)) = 0
    BY <2>1, FS_EmptySet
  <2>3. Cardinality(upTo(i)) >= k /\ i \in 0..n
    BY <1>4
  <2> QED
    BY <2>2, <2>3, <1>0, <1>1
<1>6. i - 1 \in Int /\ Cardinality(upTo(i - 1)) < k
  <2>1. i - 1 \in 0..n
    BY <1>0, <1>5
  <2> DEFINE p == i - 1
  <2>2. p \notin K
    <3>1. ~ i <= p
      BY <1>5
    <3> HIDE DEF K, p
    <3> QED
      BY <1>4, <3>1
  <2>3. ~ Cardinality(upTo(p)) >= k
    <3> HIDE DEF p
    <3> QED
      BY <2>1, <2>2 DEF p
  <2>4. p \in Int
    BY <2>1
  <2>5. Cardinality(upTo(p)) \in Nat
    <3> HIDE DEF p
    <3> QED
      BY <1>2, <2>4
  <2> HIDE DEF upTo
  <2> QED
    BY <1>1, <2>3, <2>4, <2>5
<1>7. i \in places
  <2> SUFFICES ASSUME i \notin places PROVE FALSE
    OBVIOUS
  <2>1. upTo(i) = upTo(i - 1)
    <3>1. \A j \in places : j <= i <=> j <= i - 1
      BY <1>0, <1>5
    <3> QED
      BY <3>1
  <2> HIDE DEF upTo
  <2>2. Cardinality(upTo(i)) \in Nat
    BY <1>2, <1>5
  <2> QED
    BY <1>1, <1>5, <1>6, <2>1, <2>2
<1>8. Cardinality(upTo(i)) = Cardinality(upTo(i - 1)) + 1
  <2>1. upTo(i) = upTo(i - 1) \cup {i} /\ i \notin upTo(i - 1)
    <3>1. \A j \in places : j <= i <=> j <= i - 1 \/ j = i
      BY <1>0, <1>5
    <3>2. ~ i <= i - 1
      BY <1>5
    <3> QED
      BY <1>7, <3>1, <3>2
  <2> DEFINE p == i - 1
  <2>2. IsFiniteSet(upTo(p))
    <3>1. p \in Int
      BY <1>6
    <3> HIDE DEF p
    <3> QED
      BY <1>2, <3>1
  <2> HIDE DEF upTo
  <2> QED
    BY <2>1, <2>2, FS_AddElement
<1>9. Cardinality(upTo(i)) = k
  <2> HIDE DEF upTo
  <2>1. Cardinality(upTo(i - 1)) \in Nat
    BY <1>2, <1>6
  <2> QED
    BY <1>1, <1>5, <1>6, <1>8, <2>1
<1> QED
  BY <1>7, <1>9

\* What a filter keeps are rows of the list, at the places asked for.
THEOREM RowsAtAreRows ==
    ASSUME NEW R, NEW s \in Seq(R), NEW places \in SUBSET DOMAIN s
    PROVE  /\ IsFiniteSet(places)
           /\ rowsAt(s, places) \in Seq(R)
           /\ \A k \in DOMAIN rowsAt(s, places) : \E i \in places : rowsAt(s, places)[k] = s[i]
<1> DEFINE c == Cardinality(places)
           f == rowsAt(s, places)
           nth(k) == CHOOSE i \in places : Cardinality({j \in places : j <= i}) = k
<1>0. DOMAIN s = 1..Len(s) /\ Len(s) \in Nat
  OBVIOUS
<1>1. IsFiniteSet(places) /\ c \in Nat
  <2>1. IsFiniteSet(1..Len(s))
    BY <1>0, FS_Interval
  <2>2. IsFiniteSet(places)
    BY <1>0, <2>1, FS_Subset
  <2> QED
    BY <2>2, FS_CardinalityType
<1>2. ASSUME NEW k \in 1..c PROVE nth(k) \in places
  <2> HIDE DEF f
  <2>1. \E i \in places : Cardinality({j \in places : j <= i}) = k
    BY <1>0, NthPlace
  <2> QED
    BY <2>1, Zenon
<1>3. f = [k \in 1..c |-> s[nth(k)]]
  BY DEF rowsAt
<1> HIDE DEF f, nth, c
<1>4. \A k \in 1..c : f[k] = s[nth(k)] /\ nth(k) \in places /\ s[nth(k)] \in R
  BY <1>0, <1>2, <1>3
<1>5. DOMAIN f = 1..c
  BY <1>3
<1>6. f \in [1..c -> R]
  BY <1>3, <1>4
<1>7. f \in Seq(R)
  BY <1>1, <1>6
<1> QED
  BY <1>1, <1>4, <1>5, <1>7 DEF f

-----------------------------------------------------------------------------
(* The page buttons.                                                       *)

\* Wherever one is, there are buttons for the first and the last page and for the page's
\* neighbours.
THEOREM ButtonsReach ==
    ASSUME NEW pages \in Nat \ {0}, NEW page \in 1..pages
    PROVE  /\ getPageNumbers(page, pages) \subseteq 1..pages
           /\ ({1, pages} \cup {p \in 1..pages : p + 1 = page \/ p = page + 1})
                \subseteq getPageNumbers(page, pages)
           /\ pageButtons(page, pages) \subseteq 1..pages
<1>1. getPageNumbers(page, pages) \subseteq 1..pages
  BY DEF getPageNumbers
<1>2. {1, pages} \subseteq getPageNumbers(page, pages)
  BY DEF getPageNumbers
<1>3. ASSUME NEW p \in 1..pages, p + 1 = page \/ p = page + 1
      PROVE  p \in getPageNumbers(page, pages)
  BY <1>3 DEF getPageNumbers
<1>4. pageButtons(page, pages) \subseteq 1..pages
  BY <1>1 DEF pageButtons
<1> QED
  BY <1>1, <1>2, <1>3, <1>4

-----------------------------------------------------------------------------
(* A list without one of its members.                                      *)

\* Where the member at place i of the rest was, when the one at j has gone.
Place(j, i) == IF i < j THEN i ELSE i + 1

LEMMA RestOfList ==
    ASSUME NEW R, NEW s \in Seq(R), NEW j \in 1..Len(s)
    PROVE  /\ RemoveAt(s, j) \in Seq(R)
           /\ Len(RemoveAt(s, j)) = Len(s) - 1
           /\ \A i \in 1..(Len(s) - 1) : RemoveAt(s, j)[i] = s[Place(j, i)]
<1> DEFINE before == SubSeq(s, 1, j - 1)
           after == SubSeq(s, j + 1, Len(s))
           n == Len(s)
<1>1. /\ n \in Nat /\ j \in Nat \ {0} /\ j <= n /\ \A i \in 1..n : s[i] \in R
      /\ j - 1 \in Int /\ j + 1 \in Int
  OBVIOUS
<1>2. /\ before \in Seq(R) /\ Len(before) = j - 1
      /\ \A i \in 1..(j - 1) : before[i] = s[i]
  <2>1. \A i \in 1..(j - 1) : s[i] \in R
    BY <1>1
  <2>2. /\ before \in Seq(R)
        /\ Len(before) = IF 1 <= j - 1 THEN (j - 1) - 1 + 1 ELSE 0
        /\ \A i \in 1..((j - 1) - 1 + 1) : before[i] = s[1 + i - 1]
    BY <1>1, <2>1, SubSeqProperties
  <2> HIDE DEF before
  <2> QED
    BY <1>1, <2>2
<1>3. /\ after \in Seq(R) /\ Len(after) = n - j
      /\ \A i \in 1..(n - j) : after[i] = s[i + j]
  <2>1. \A i \in (j + 1)..n : s[i] \in R
    BY <1>1
  <2>2. /\ after \in Seq(R)
        /\ Len(after) = IF j + 1 <= n THEN n - (j + 1) + 1 ELSE 0
        /\ \A i \in 1..(n - (j + 1) + 1) : after[i] = s[(j + 1) + i - 1]
    BY <1>1, <2>1, SubSeqProperties
  <2> HIDE DEF after
  <2>3. \A i \in 1..(n - j) : (j + 1) + i - 1 = i + j /\ i \in 1..(n - (j + 1) + 1)
    BY <1>1
  <2> QED
    BY <1>1, <2>2, <2>3
<1>4. RemoveAt(s, j) = before \o after
  BY DEF RemoveAt
<1> HIDE DEF before, after
<1>5. /\ before \o after \in Seq(R)
      /\ Len(before \o after) = Len(before) + Len(after)
      /\ \A i \in 1..(Len(before) + Len(after)) :
           (before \o after)[i] = IF i <= Len(before) THEN before[i] ELSE after[i - Len(before)]
  BY <1>2, <1>3, ConcatProperties
<1>6. Len(before) + Len(after) = n - 1
  BY <1>1, <1>2, <1>3
<1>7. ASSUME NEW i \in 1..(n - 1) PROVE (before \o after)[i] = s[Place(j, i)]
  <2>1. CASE i < j
    BY <1>1, <1>2, <1>5, <1>6, <2>1 DEF Place
  <2>2. CASE ~(i < j)
    <3>1. i - (j - 1) \in 1..(n - j) /\ (i - (j - 1)) + j = i + 1 /\ ~(i <= j - 1)
      BY <1>1, <2>2
    <3>2. after[i - (j - 1)] = s[i + 1]
      BY <1>3, <3>1
    <3> QED
      BY <1>1, <1>2, <1>5, <1>6, <2>2, <3>1, <3>2 DEF Place
  <2> QED
    BY <2>1, <2>2
<1> QED
  BY <1>4, <1>5, <1>6, <1>7

\* The rest has the other members, each at a place of its own, and no more.
THEOREM OthersStay ==
    ASSUME NEW R, NEW s \in Seq(R), NEW j \in DOMAIN s, NEW rest, rest = RemoveAt(s, j)
    PROVE  /\ rest \in Seq(R)
           /\ \A i \in DOMAIN rest : /\ Place(j, i) \in DOMAIN s \ {j}
                                     /\ rest[i] = s[Place(j, i)]
           /\ \A i, k \in DOMAIN rest : Place(j, i) = Place(j, k) => i = k
           /\ \A k \in DOMAIN s \ {j} : \E i \in DOMAIN rest : k = Place(j, i)
<1>1. /\ j \in 1..Len(s) /\ Len(s) \in Nat /\ DOMAIN s = 1..Len(s)
  OBVIOUS
<1>2. /\ rest \in Seq(R) /\ Len(rest) = Len(s) - 1
      /\ \A i \in 1..(Len(s) - 1) : rest[i] = s[Place(j, i)]
  BY <1>1, RestOfList
<1>3. DOMAIN rest = 1..(Len(s) - 1)
  BY <1>2
<1>4. \A i \in DOMAIN rest : Place(j, i) \in DOMAIN s \ {j}
  BY <1>1, <1>3 DEF Place
<1>5. \A i, k \in DOMAIN rest : Place(j, i) = Place(j, k) => i = k
  BY <1>1, <1>3 DEF Place
<1>6. ASSUME NEW k \in DOMAIN s \ {j} PROVE \E i \in DOMAIN rest : k = Place(j, i)
  <2>1. CASE k < j
    BY <1>1, <1>3, <2>1 DEF Place
  <2>2. CASE ~(k < j)
    <3>1. k - 1 \in DOMAIN rest /\ k = Place(j, k - 1)
      BY <1>1, <1>3, <2>2 DEF Place
    <3> QED
      BY <3>1
  <2> QED
    BY <2>1, <2>2
<1> QED
  BY <1>2, <1>3, <1>4, <1>5, <1>6

-----------------------------------------------------------------------------
(* Sorting.                                                                *)

\* Place i comes before place j: by its key, or by its place where the keys are the same.
Earlier(key, i, j) == key[i] < key[j] \/ (key[i] = key[j] /\ i < j)

Ahead(key, n, i) == {j \in 1..n : j # i /\ Earlier(key, j, i)}

\* Where the row at place i goes.
SortPlace(key, n, i) == Cardinality(Ahead(key, n, i)) + 1

LEMMA AheadCounts ==
    ASSUME NEW n \in Nat, NEW key \in [1..n -> Int], NEW i \in 1..n
    PROVE  /\ IsFiniteSet(Ahead(key, n, i))
           /\ Cardinality(Ahead(key, n, i)) \in Nat
           /\ SortPlace(key, n, i) \in 1..n
<1> DEFINE others == (1..n) \ {i}
<1>1. IsFiniteSet(1..n) /\ Cardinality(1..n) = n
  BY FS_Interval
<1>2. IsFiniteSet(others) /\ Cardinality(others) = n - 1
  BY <1>1, FS_RemoveElement
<1>3. Ahead(key, n, i) \subseteq others
  BY DEF Ahead
<1> HIDE DEF others
<1>4. IsFiniteSet(Ahead(key, n, i)) /\ Cardinality(Ahead(key, n, i)) <= n - 1
  BY <1>2, <1>3, FS_Subset
<1>5. Cardinality(Ahead(key, n, i)) \in Nat
  BY <1>4, FS_CardinalityType
<1> QED
  BY <1>4, <1>5 DEF SortPlace

\* The places keep the order of the keys, and of equal ones that of the list.
LEMMA PlacesInOrder ==
    ASSUME NEW n \in Nat, NEW key \in [1..n -> Int], NEW i \in 1..n, NEW j \in 1..n,
           Earlier(key, i, j)
    PROVE  SortPlace(key, n, i) < SortPlace(key, n, j)
<1> DEFINE mine == Ahead(key, n, i)
           more == mine \cup {i}
           others == Ahead(key, n, j)
<1>1. /\ IsFiniteSet(mine) /\ Cardinality(mine) \in Nat
      /\ IsFiniteSet(others) /\ Cardinality(others) \in Nat
  BY AheadCounts
<1>2. i \notin mine
  BY DEF Ahead
<1>3. more \subseteq others
  <2>1. i \in others
    BY DEF Ahead, Earlier
  <2>2. ASSUME NEW k \in 1..n, k # i, Earlier(key, k, i) PROVE k # j /\ Earlier(key, k, j)
    <3>1. key[i] \in Int /\ key[j] \in Int /\ key[k] \in Int /\ i \in Int /\ j \in Int /\ k \in Int
      OBVIOUS
    <3> QED
      BY <2>2, <3>1 DEF Earlier
  <2> QED
    BY <2>1, <2>2 DEF Ahead
<1> HIDE DEF mine, others
<1>4. Cardinality(more) = Cardinality(mine) + 1
  BY <1>1, <1>2, FS_AddElement
<1>5. Cardinality(more) <= Cardinality(others)
  BY <1>1, <1>3, FS_Subset
<1>6. Cardinality(mine) < Cardinality(others)
  BY <1>1, <1>4, <1>5
<1> QED
  BY <1>1, <1>6 DEF SortPlace, mine, others

\* Sorting moves the rows and drops none: every place is that of exactly one row, and the
\* order of the keys is that of the places.
THEOREM SortPlaces ==
    ASSUME NEW n \in Nat, NEW key \in [1..n -> Int]
    PROVE  /\ \A i \in 1..n : SortPlace(key, n, i) \in 1..n
           /\ \A i, j \in 1..n : SortPlace(key, n, i) = SortPlace(key, n, j) => i = j
           /\ \A k \in 1..n : \E i \in 1..n : SortPlace(key, n, i) = k
           /\ \A i, j \in 1..n :
                SortPlace(key, n, i) < SortPlace(key, n, j) => ~Earlier(key, j, i)
<1> DEFINE N == 1..n
           place == [i \in N |-> SortPlace(key, n, i)]
<1>1. \A i \in 1..n : SortPlace(key, n, i) \in 1..n
  BY AheadCounts
<1>2. ASSUME NEW i \in 1..n, NEW j \in 1..n, i # j
      PROVE  SortPlace(key, n, i) # SortPlace(key, n, j)
  <2>1. Earlier(key, i, j) \/ Earlier(key, j, i)
    <3>1. key[i] \in Int /\ key[j] \in Int /\ i \in Int /\ j \in Int
      OBVIOUS
    <3> QED
      BY <1>2, <3>1 DEF Earlier
  <2>2. SortPlace(key, n, i) < SortPlace(key, n, j) \/ SortPlace(key, n, j) < SortPlace(key, n, i)
    BY <2>1, PlacesInOrder
  <2>3. SortPlace(key, n, i) \in Int /\ SortPlace(key, n, j) \in Int
    BY <1>1
  <2> QED
    BY <2>2, <2>3
<1>3. place \in Injection(N, N)
  BY <1>1, <1>2 DEF Injection, IsInjective
<1>4. IsFiniteSet(N)
  BY FS_Interval
<1>5. place \in Surjection(N, N)
  <2> HIDE DEF place, N
  <2> QED
    BY <1>3, <1>4, FS_Injection
<1>6. \A k \in 1..n : \E i \in 1..n : SortPlace(key, n, i) = k
  BY <1>5 DEF Surjection
<1>7. ASSUME NEW i \in 1..n, NEW j \in 1..n, SortPlace(key, n, i) < SortPlace(key, n, j),
             Earlier(key, j, i)
      PROVE  FALSE
  <2>1. SortPlace(key, n, j) < SortPlace(key, n, i)
    BY <1>7, PlacesInOrder
  <2>2. SortPlace(key, n, i) \in Int /\ SortPlace(key, n, j) \in Int
    BY <1>1
  <2> QED
    BY <1>7, <2>1, <2>2
<1> QED
  BY <1>1, <1>2, <1>6, <1>7

NumbersTo(n) == [i \in 1..n |-> i]

\* Of the list of all places a filter keeps those to keep, each once.
THEOREM PlacesListed ==
    ASSUME NEW n \in Nat, NEW places \in SUBSET (1..n),
           NEW f, f = rowsAt(NumbersTo(n), places)
    PROVE  /\ f \in Seq(places) /\ Len(f) = Cardinality(places)
           /\ IsInjective(f)
           /\ \A i \in places : \E k \in DOMAIN f : f[k] = i
<1> DEFINE c == Cardinality(places)
           upTo(i) == Cardinality({j \in places : j <= i})
           nth(k) == CHOOSE i \in places : upTo(i) = k
           C == 1..c
<1>1. IsFiniteSet(places) /\ c \in Nat
  <2>1. IsFiniteSet(1..n)
    BY FS_Interval
  <2>2. IsFiniteSet(places)
    BY <2>1, FS_Subset
  <2> QED
    BY <2>2, FS_CardinalityType
<1>2. \A k \in C : nth(k) \in places /\ upTo(nth(k)) = k
  <2> TAKE k \in C
  <2>1. \E i \in places : upTo(i) = k
    BY NthPlace
  <2> QED
    BY <2>1
<1>3. f = [k \in C |-> nth(k)]
  <2>1. f = [k \in C |-> NumbersTo(n)[nth(k)]]
    BY DEF rowsAt
  <2> HIDE DEF nth
  <2>2. \A k \in C : NumbersTo(n)[nth(k)] = nth(k)
    BY <1>2 DEF NumbersTo
  <2> QED
    BY <2>1, <2>2
<1> HIDE DEF nth
<1>4. f \in Injection(C, places) /\ IsInjective(f) /\ DOMAIN f = C
  <2>1. DOMAIN f = C /\ f \in [C -> places]
    BY <1>2, <1>3
  <2>2. \A k \in C : upTo(f[k]) = k
    <3> HIDE DEF upTo
    <3> QED
      BY <1>2, <1>3
  <2>3. \A k, l \in C : f[k] = f[l] => k = l
    <3> HIDE DEF upTo
    <3> QED
      BY <2>2
  <2>4. IsInjective(f)
    BY <2>1, <2>3 DEF IsInjective
  <2> QED
    BY <2>1, <2>4 DEF Injection
<1>5. IsFiniteSet(C) /\ Cardinality(C) = c
  BY <1>1, FS_Interval
<1>6. f \in Surjection(C, places)
  BY <1>1, <1>4, <1>5, FS_Injection
<1>7. f \in Seq(places) /\ Len(f) = c
  <2>1. f \in [C -> places]
    BY <1>2, <1>3
  <2> QED
    BY <1>1, <2>1
<1> QED
  BY <1>4, <1>6, <1>7 DEF Surjection

\* The row that comes to place k.
SortedFrom(key, n, k) == CHOOSE i \in 1..n : SortPlace(key, n, i) = k

SortedBy(key, n, f, g) == \A k \in 1..n : g[k] = f[SortedFrom(key, n, k)]

\* The sorted list: at each place the row that goes there, and each row at its place.
THEOREM SortedRows ==
    ASSUME NEW n \in Nat, NEW f, NEW key \in [1..n -> Int],
           NEW g, SortedBy(key, n, f, g)
    PROVE  /\ \A k \in 1..n : \E i \in 1..n : SortPlace(key, n, i) = k /\ g[k] = f[i]
           /\ \A i \in 1..n : SortPlace(key, n, i) \in 1..n /\ g[SortPlace(key, n, i)] = f[i]
<1> DEFINE from(k) == SortedFrom(key, n, k)
<1>1. \A k \in 1..n : from(k) \in 1..n /\ SortPlace(key, n, from(k)) = k
  <2> TAKE k \in 1..n
  <2>1. \E i \in 1..n : SortPlace(key, n, i) = k
    BY SortPlaces
  <2> QED
    BY <2>1 DEF SortedFrom
<1>2. \A k \in 1..n : g[k] = f[from(k)]
  BY DEF SortedBy
<1> HIDE DEF from
<1>3. \A i \in 1..n : SortPlace(key, n, i) \in 1..n
  BY SortPlaces
<1>4. \A i, j \in 1..n : SortPlace(key, n, i) = SortPlace(key, n, j) => i = j
  BY SortPlaces
<1>5. ASSUME NEW i \in 1..n PROVE from(SortPlace(key, n, i)) = i
  BY <1>1, <1>3, <1>4
<1>6. ASSUME NEW i \in 1..n PROVE g[SortPlace(key, n, i)] = f[i]
  <2>1. g[SortPlace(key, n, i)] = f[from(SortPlace(key, n, i))]
    BY <1>2, <1>3
  <2> QED
    BY <1>5, <2>1
<1> QED
  BY <1>1, <1>2, <1>3, <1>6

-----------------------------------------------------------------------------
(* Lists that are merged.                                                  *)

PlaceOf(n, places) == rowsAt(NumbersTo(n), places)

\* What a filter keeps are the rows at the places, each place taken once.
THEOREM KeptPlaces ==
    ASSUME NEW n \in Nat, NEW places \in SUBSET (1..n), NEW s
    PROVE  /\ PlaceOf(n, places) \in Bijection(1..Cardinality(places), places)
           /\ \A k \in 1..Cardinality(places) : rowsAt(s, places)[k] = s[PlaceOf(n, places)[k]]
<1> DEFINE C == 1..Cardinality(places)
           nth(k) == CHOOSE i \in places : Cardinality({j \in places : j <= i}) = k
           f == PlaceOf(n, places)
<1>0. IsFiniteSet(places)
  <2>1. IsFiniteSet(1..n)
    BY FS_Interval
  <2> QED
    BY <2>1, FS_Subset
<1>1. /\ f \in Seq(places) /\ Len(f) = Cardinality(places) /\ IsInjective(f)
      /\ \A i \in places : \E k \in DOMAIN f : f[k] = i
  BY PlacesListed DEF PlaceOf
<1>2. DOMAIN f = C
  BY <1>0, RowsAtIsList DEF PlaceOf
<1>3. f \in Bijection(C, places)
  <2>1. f \in [C -> places]
    BY <1>1, <1>2
  <2> QED
    BY <1>1, <1>2, <2>1 DEF Bijection, Injection, Surjection
<1>4. /\ rowsAt(s, places) = [k \in C |-> s[nth(k)]]
      /\ f = [k \in C |-> NumbersTo(n)[nth(k)]]
  BY DEF rowsAt, PlaceOf
<1>5. ASSUME NEW k \in C PROVE nth(k) \in 1..n
  <2>1. \E i \in places : Cardinality({j \in places : j <= i}) = k
    BY NthPlace
  <2>2. nth(k) \in places
    BY <2>1
  <2> HIDE DEF nth
  <2> QED
    BY <2>2
<1> HIDE DEF nth, f
<1>6. \A k \in C : f[k] = nth(k)
  BY <1>4, <1>5 DEF NumbersTo
<1> QED
  BY <1>3, <1>4, <1>6 DEF f

\* A list with room for each member of a set beside its other rows, that has all of them,
\* has each of them once.
THEOREM WovenOnce ==
    ASSUME NEW n \in Nat, NEW s, NEW A, IsFiniteSet(A),
           NEW places, places = {i \in 1..n : s[i] \notin A},
           Cardinality(places) + Cardinality(A) = n,
           \A a \in A : \E i \in 1..n : s[i] = a
    PROVE  \A i, j \in 1..n : s[i] \in A /\ s[i] = s[j] => i = j
<1> DEFINE Q == (1..n) \ places
           f == [i \in Q |-> s[i]]
<1>1. IsFiniteSet(1..n) /\ Cardinality(1..n) = n
  BY FS_Interval
<1>2. IsFiniteSet(Q) /\ Cardinality(Q) = Cardinality(1..n) - Cardinality((1..n) \cap places)
  BY <1>1, FS_Difference
<1>3. (1..n) \cap places = places
  OBVIOUS
<1>4. Cardinality(Q) = Cardinality(A)
  <2>1. Cardinality(places) \in Nat /\ Cardinality(A) \in Nat
    <3>1. places \in SUBSET (1..n)
      OBVIOUS
    <3>2. IsFiniteSet(places)
      BY <1>1, <3>1, FS_Subset
    <3> QED
      BY <3>2, FS_CardinalityType
  <2>2. Cardinality((1..n) \cap places) = Cardinality(places)
    BY <1>3, Zenon
  <2>3. Cardinality(Q) = n - Cardinality(places)
    BY <1>1, <1>2, <2>2, Zenon
  <2>4. \A p, a, q \in Int : p + a = n /\ q = n - p => q = a
    OBVIOUS
  <2>5. n - Cardinality(places) \in Int
    BY <2>1
  <2> HIDE DEF Q
  <2> QED
    BY <2>1, <2>3, <2>4, <2>5
<1>5. Q = {i \in 1..n : s[i] \in A}
  OBVIOUS
<1>6. f \in Surjection(Q, A)
  BY <1>5 DEF Surjection
<1>7. f \in Injection(Q, A)
  <2> HIDE DEF f, Q
  <2> QED
    BY <1>2, <1>4, <1>6, FS_SurjSameCardinalityImpliesInj
<1>8. \A i, j \in Q : f[i] = f[j] => i = j
  <2> HIDE DEF f, Q
  <2>1. DOMAIN f = Q
    BY <1>7 DEF Injection
  <2> QED
    BY <1>7, <2>1 DEF Injection, IsInjective
<1> QED
  BY <1>5, <1>8

=============================================================================
