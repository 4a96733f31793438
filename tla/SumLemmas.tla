------------------------------ MODULE SumLemmas ------------------------------
(***************************************************************************)
(* What MapThenSumSet computes, for every finite set, and what remainders  *)
(* add up to.  The operator is recursive, so the facts about it need       *)
(* induction over the set; it is put here as the search for a least        *)
(* counterexample, which the library proves to exist.                      *)
(***************************************************************************)
EXTENDS Integers, FiniteSets, FiniteSetsExt, FiniteSetTheorems, WellFoundedInduction, TLAPS

(* The sum of a function over a set. *)
Total(f, S) == MapThenSumSet(LAMBDA x : f[x], S)

-----------------------------------------------------------------------------
(* Least counterexamples *)

LEMMA LeastNatural ==
  ASSUME NEW T, T \subseteq Nat, T # {}
  PROVE  \E m \in T : \A n \in T : m <= n
<1> DEFINE R == {ss \in Nat \X Nat : ss[1] < ss[2]}
<1>1. IsWellFoundedOn(R, Nat)
  BY NatLessThanWellFounded DEF OpToRel
<1>2. \E m \in T : \A n \in T : ~(<<n, m>> \in R)
  BY <1>1, WFMin
<1>3. \A n, m \in Nat : <<n, m>> \in R <=> n < m
  OBVIOUS
<1> HIDE DEF R
<1>4. PICK m \in T : \A n \in T : ~(<<n, m>> \in R)
  BY <1>2
<1>5. \A n \in T : n \in Nat /\ m \in Nat /\ ~(n < m)
  BY <1>3, <1>4
<1>6. \A n \in T : m <= n
  BY <1>5
<1> QED BY <1>6

(* Of the subsets of a finite set that are bad, one has no bad subset.     *)
LEMMA SmallestSubset ==
  ASSUME NEW D, IsFiniteSet(D), NEW Bad \in SUBSET (SUBSET D), Bad # {}
  PROVE  \E S \in Bad : \A T \in SUBSET S : T # S => T \notin Bad
<1> DEFINE sizes == {Cardinality(S) : S \in Bad}
<1>1. \A S \in SUBSET D : IsFiniteSet(S) /\ Cardinality(S) \in Nat
  BY FS_Subset, FS_CardinalityType
<1>2. sizes \subseteq Nat /\ sizes # {}
  BY <1>1
<1> HIDE DEF sizes
<1>3. PICK m \in sizes : \A n \in sizes : m <= n
  BY <1>2, LeastNatural
<1>4. PICK S \in Bad : Cardinality(S) = m
  BY <1>3 DEF sizes
<1>5. ASSUME NEW T \in SUBSET S, T # S, T \in Bad PROVE FALSE
  <2>1. Cardinality(T) < Cardinality(S)
    BY <1>1, <1>5, FS_Subset
  <2>2. Cardinality(T) \in sizes
    BY <1>5 DEF sizes
  <2>3. Cardinality(S) <= Cardinality(T) /\ Cardinality(T) \in Nat /\ Cardinality(S) \in Nat
    BY <1>2, <1>3, <1>4, <2>2
  <2> QED BY <2>1, <2>3
<1> QED BY <1>5

-----------------------------------------------------------------------------
(* The recursion of MapThenSumSet *)

(* One unfolding of the sum over s, when g has the sums of smaller sets.   *)
Unfold(f, s, g) ==
  IF s = {} THEN 0 ELSE LET x == CHOOSE y \in s : TRUE IN f[x] + g[s \ {x}]

Solves(g, f, D) == g = [s \in SUBSET D |-> Unfold(f, s, g)]

LEMMA TotalUnfolds ==
  ASSUME NEW f, NEW S
  PROVE  Total(f, S) = (CHOOSE g : Solves(g, f, S))[S]
BY DEF Total, MapThenSumSet, MapThenFoldSet, Unfold, Solves

LEMMA UnfoldDepends ==
  ASSUME NEW f, NEW s, NEW g, NEW h, \A t \in SUBSET s : t # s => g[t] = h[t]
  PROVE  Unfold(f, s, g) = Unfold(f, s, h)
<1>1. CASE s = {}
  BY <1>1 DEF Unfold
<1>2. CASE s # {}
  <2> DEFINE x == CHOOSE y \in s : TRUE
  <2>1. x \in s
    BY <1>2
  <2>2. g[s \ {x}] = h[s \ {x}]
    BY <2>1
  <2> QED BY <1>2, <2>2 DEF Unfold
<1> QED BY <1>1, <1>2

LEMMA SolutionUnique ==
  ASSUME NEW D, IsFiniteSet(D), NEW f, NEW g, NEW h, Solves(g, f, D), Solves(h, f, D)
  PROVE  \A s \in SUBSET D : g[s] = h[s]
<1> DEFINE Bad == {s \in SUBSET D : g[s] # h[s]}
<1>1. SUFFICES ASSUME Bad # {} PROVE FALSE
  OBVIOUS
<1>2. Bad \in SUBSET (SUBSET D)
  OBVIOUS
<1> HIDE DEF Bad
<1>3. PICK s \in Bad : \A t \in SUBSET s : t # s => t \notin Bad
  BY <1>1, <1>2, SmallestSubset
<1>6. \A t \in SUBSET s : t # s => g[t] = h[t]
  BY <1>2, <1>3 DEF Bad
<1>4. Unfold(f, s, g) = Unfold(f, s, h)
  BY <1>6, UnfoldDepends
<1>5. s \in SUBSET D /\ g[s] = Unfold(f, s, g) /\ h[s] = Unfold(f, s, h)
  BY <1>2 DEF Solves
<1> QED BY <1>3, <1>4, <1>5 DEF Bad

LEMMA SolutionExists ==
  ASSUME NEW D, IsFiniteSet(D), NEW f \in [D -> Int]
  PROVE  \E g \in [SUBSET D -> Int] : Solves(g, f, D)
<1> DEFINE UpToSize(g, n) == \A s \in SUBSET D : Cardinality(s) <= n => g[s] = Unfold(f, s, g)
           Bad == {n \in Nat : ~ \E g \in [SUBSET D -> Int] : UpToSize(g, n)}
<1>1. \A s \in SUBSET D : IsFiniteSet(s) /\ Cardinality(s) \in Nat
  BY FS_Subset, FS_CardinalityType
<1>2. \A g \in [SUBSET D -> Int], s \in SUBSET D : Unfold(f, s, g) \in Int
  <2> SUFFICES ASSUME NEW g \in [SUBSET D -> Int], NEW s \in SUBSET D
               PROVE  Unfold(f, s, g) \in Int
    OBVIOUS
  <2>1. CASE s = {}
    BY <2>1 DEF Unfold
  <2>2. CASE s # {}
    <3> DEFINE x == CHOOSE y \in s : TRUE
    <3>1. x \in s
      BY <2>2
    <3>2. f[x] \in Int /\ g[s \ {x}] \in Int
      BY <3>1
    <3> QED BY <2>2, <3>2 DEF Unfold
  <2> QED BY <2>1, <2>2
<1>3. Bad = {}
  <2> SUFFICES ASSUME Bad # {} PROVE FALSE
    OBVIOUS
  <2>1. PICK m \in Bad : \A n \in Bad : m <= n
    BY LeastNatural
  <2>2. m # 0
    <3> DEFINE z == [s \in SUBSET D |-> 0]
    <3>1. \A s \in SUBSET D : Cardinality(s) <= 0 => s = {}
      BY <1>1, FS_EmptySet
    <3>2. z \in [SUBSET D -> Int] /\ UpToSize(z, 0)
      BY <3>1 DEF Unfold
    <3> QED BY <2>1, <3>2
  <2>0. Bad \subseteq Nat
    OBVIOUS
  <2>3. m - 1 \in Nat /\ m - 1 \notin Bad
    <3> HIDE DEF Bad
    <3> QED BY <2>0, <2>1, <2>2
  <2>4. PICK g \in [SUBSET D -> Int] : UpToSize(g, m - 1)
    BY <2>3
  <2> DEFINE h == [s \in SUBSET D |-> Unfold(f, s, g)]
  <2>5. h \in [SUBSET D -> Int]
    BY <1>2
  <2>6. ASSUME NEW s \in SUBSET D, Cardinality(s) <= m
        PROVE  h[s] = Unfold(f, s, h)
    <3>1. ASSUME NEW t \in SUBSET s, t # s PROVE g[t] = h[t]
      <4>1. Cardinality(t) < Cardinality(s)
        BY <1>1, <3>1, FS_Subset
      <4>2. t \in SUBSET D /\ Cardinality(t) \in Nat /\ Cardinality(s) \in Nat /\ m \in Nat
        BY <1>1, <2>1
      <4>3. Cardinality(t) <= m - 1
        BY <2>6, <4>1, <4>2
      <4> QED BY <2>4, <4>2, <4>3
    <3>2. h[s] = Unfold(f, s, g)
      OBVIOUS
    <3> HIDE DEF h
    <3>3. Unfold(f, s, g) = Unfold(f, s, h)
      BY <3>1, UnfoldDepends
    <3> QED BY <3>2, <3>3
  <2>7. UpToSize(h, m)
    BY <2>6
  <2> QED BY <2>1, <2>5, <2>7
<1>4. PICK g \in [SUBSET D -> Int] : UpToSize(g, Cardinality(D))
  BY <1>1, <1>3
<1>5. \A s \in SUBSET D : Cardinality(s) <= Cardinality(D)
  BY FS_Subset
<1>6. \A s \in SUBSET D : g[s] = Unfold(f, s, g)
  BY <1>4, <1>5
<1>7. g = [s \in SUBSET D |-> Unfold(f, s, g)]
  BY <1>6
<1> QED BY <1>7 DEF Solves

(* A solution over a set has the sums over all its subsets.                *)
LEMMA SolutionIsTotal ==
  ASSUME NEW D, IsFiniteSet(D), NEW f, NEW g, Solves(g, f, D), NEW S \in SUBSET D
  PROVE  Total(f, S) = g[S]
<1> DEFINE h == [s \in SUBSET S |-> g[s]]
<1>0. IsFiniteSet(S)
  BY FS_Subset
<1>1. \A s \in SUBSET S : h[s] = Unfold(f, s, h)
  <2> SUFFICES ASSUME NEW s \in SUBSET S PROVE h[s] = Unfold(f, s, h)
    OBVIOUS
  <2>1. g[s] = Unfold(f, s, g)
    BY DEF Solves
  <2>2. Unfold(f, s, g) = Unfold(f, s, h)
    BY UnfoldDepends
  <2> QED BY <2>1, <2>2
<1>2. Solves(h, f, S)
  BY <1>1 DEF Solves
<1> DEFINE c == CHOOSE k : Solves(k, f, S)
<1>3. Solves(c, f, S)
  BY <1>2
<1>4. c[S] = h[S]
  BY <1>0, <1>2, <1>3, SolutionUnique
<1> QED BY <1>4, TotalUnfolds
-----------------------------------------------------------------------------
(* What the sums over a finite set satisfy *)

LEMMA TotalEmpty == ASSUME NEW f PROVE Total(f, {}) = 0
<1> DEFINE g == [s \in SUBSET {} |-> 0]
<1>1. \A s \in SUBSET {} : s = {}
  OBVIOUS
<1>2. Solves(g, f, {})
  BY <1>1 DEF Solves, Unfold
<1>3. IsFiniteSet({})
  BY FS_EmptySet
<1>4. Total(f, {}) = g[{}]
  BY <1>2, <1>3, SolutionIsTotal
<1> QED BY <1>4

LEMMA TotalInt ==
  ASSUME NEW D, IsFiniteSet(D), NEW f \in [D -> Int], NEW S \in SUBSET D
  PROVE  Total(f, S) \in Int
<1>1. PICK g \in [SUBSET D -> Int] : Solves(g, f, D)
  BY SolutionExists
<1>2. Total(f, S) = g[S]
  BY <1>1, SolutionIsTotal
<1> QED BY <1>1, <1>2

(* The element that the recursion takes out first.                         *)
LEMMA TotalFirst ==
  ASSUME NEW D, IsFiniteSet(D), NEW f \in [D -> Int], NEW S \in SUBSET D, S # {}
  PROVE  \E x \in S : Total(f, S) = f[x] + Total(f, S \ {x})
<1>1. PICK g \in [SUBSET D -> Int] : Solves(g, f, D)
  BY SolutionExists
<1> DEFINE x == CHOOSE y \in S : TRUE
<1>2. x \in S
  OBVIOUS
<1>3. g[S] = f[x] + g[S \ {x}]
  BY <1>1 DEF Solves, Unfold
<1>4. Total(f, S) = g[S] /\ Total(f, S \ {x}) = g[S \ {x}]
  BY <1>1, SolutionIsTotal
<1> QED BY <1>2, <1>3, <1>4

(* Any element may be taken out.                                           *)
LEMMA TotalRemove ==
  ASSUME NEW D, IsFiniteSet(D), NEW f \in [D -> Int], NEW S \in SUBSET D, NEW x \in S
  PROVE  Total(f, S) = f[x] + Total(f, S \ {x})
<1> DEFINE Bad == {s \in SUBSET D : \E y \in s : Total(f, s) # f[y] + Total(f, s \ {y})}
<1>1. SUFFICES ASSUME Bad # {} PROVE FALSE
  OBVIOUS
<1>2. Bad \in SUBSET (SUBSET D)
  OBVIOUS
<1>3. \A s \in SUBSET D :
        s \in Bad <=> \E y \in s : Total(f, s) # f[y] + Total(f, s \ {y})
  OBVIOUS
<1> HIDE DEF Bad
<1>4. PICK s \in Bad : \A t \in SUBSET s : t # s => t \notin Bad
  BY <1>1, <1>2, SmallestSubset
<1>5. PICK y \in s : Total(f, s) # f[y] + Total(f, s \ {y})
  BY <1>2, <1>3, <1>4
<1>6. PICK c \in s : Total(f, s) = f[c] + Total(f, s \ {c})
  BY <1>2, <1>4, <1>5, TotalFirst
<1>7. \A t \in SUBSET s : t # s => \A z \in t : Total(f, t) = f[z] + Total(f, t \ {z})
  BY <1>2, <1>3, <1>4
<1>8. c # y
  BY <1>5, <1>6
<1> DEFINE rest == Total(f, s \ {c, y})
<1>9. Total(f, s \ {c}) = f[y] + rest
  <2>1. (s \ {c}) \ {y} = s \ {c, y}
    OBVIOUS
  <2> QED BY <1>7, <1>8, <2>1
<1>10. Total(f, s \ {y}) = f[c] + rest
  <2>1. (s \ {y}) \ {c} = s \ {c, y}
    OBVIOUS
  <2> QED BY <1>7, <1>8, <2>1
<1>11. f[c] \in Int /\ f[y] \in Int /\ rest \in Int
  BY <1>2, <1>4, TotalInt
<1> HIDE DEF rest
<1> QED BY <1>5, <1>6, <1>9, <1>10, <1>11

(* A sum depends only on the values that it adds up.                       *)
LEMMA TotalSame ==
  ASSUME NEW D, IsFiniteSet(D), NEW f \in [D -> Int], NEW h \in [D -> Int],
         NEW S \in SUBSET D, \A x \in S : f[x] = h[x]
  PROVE  Total(f, S) = Total(h, S)
<1> DEFINE Bad == {s \in SUBSET S : Total(f, s) # Total(h, s)}
<1>1. SUFFICES ASSUME Bad # {} PROVE FALSE
  OBVIOUS
<1>2. Bad \in SUBSET (SUBSET S) /\ IsFiniteSet(S)
  BY FS_Subset
<1>3. \A s \in SUBSET S : s \in Bad <=> Total(f, s) # Total(h, s)
  OBVIOUS
<1> HIDE DEF Bad
<1>4. PICK s \in Bad : \A t \in SUBSET s : t # s => t \notin Bad
  BY <1>1, <1>2, SmallestSubset
<1>5. s \in SUBSET S /\ Total(f, s) # Total(h, s)
  BY <1>2, <1>3, <1>4
<1>6. s # {}
  BY <1>5, TotalEmpty
<1>7. PICK c \in s : Total(f, s) = f[c] + Total(f, s \ {c})
  BY <1>5, <1>6, TotalFirst
<1>8. Total(h, s) = h[c] + Total(h, s \ {c})
  BY <1>5, TotalRemove
<1>9. Total(f, s \ {c}) = Total(h, s \ {c})
  BY <1>3, <1>4, <1>5
<1> QED BY <1>5, <1>7, <1>8, <1>9

(* One value is replaced.                                                  *)
LEMMA TotalChanged ==
  ASSUME NEW D, IsFiniteSet(D), NEW f \in [D -> Int], NEW h \in [D -> Int], NEW x \in D,
         \A y \in D : y # x => h[y] = f[y]
  PROVE  Total(h, D) = Total(f, D) - f[x] + h[x]
<1>1. Total(h, D \ {x}) = Total(f, D \ {x})
  <2>1. D \ {x} \in SUBSET D /\ \A y \in D \ {x} : h[y] = f[y]
    OBVIOUS
  <2> QED BY <2>1, TotalSame
<1>2. Total(h, D) = h[x] + Total(h, D \ {x}) /\ Total(f, D) = f[x] + Total(f, D \ {x})
  BY TotalRemove
<1>3. Total(f, D \ {x}) \in Int /\ f[x] \in Int /\ h[x] \in Int
  BY TotalInt
<1> QED BY <1>1, <1>2, <1>3

(* Counting the elements of a set by one of their features.                *)
LEMMA TotalOfClasses ==
  ASSUME NEW S, IsFiniteSet(S), NEW feature, NEW D, IsFiniteSet(D), NEW f \in [D -> Int],
         \A r \in D : f[r] = Cardinality({s \in S : feature[s] = r}),
         NEW R \in SUBSET D
  PROVE  Total(f, R) = Cardinality({s \in S : feature[s] \in R})
<1> DEFINE of(T) == {s \in S : feature[s] \in T}
           Bad == {T \in SUBSET R : Total(f, T) # Cardinality(of(T))}
<1>1. SUFFICES ASSUME Bad # {} PROVE FALSE
  OBVIOUS
<1>2. Bad \in SUBSET (SUBSET R) /\ IsFiniteSet(R)
  BY FS_Subset
<1>3. \A T \in SUBSET R : T \in Bad <=> Total(f, T) # Cardinality(of(T))
  OBVIOUS
<1> HIDE DEF Bad
<1>4. PICK T \in Bad : \A t \in SUBSET T : t # T => t \notin Bad
  BY <1>1, <1>2, SmallestSubset
<1>5. T \in SUBSET R /\ Total(f, T) # Cardinality(of(T))
  BY <1>2, <1>3, <1>4
<1>6. T # {}
  <2>1. of({}) = {}
    OBVIOUS
  <2> QED BY <1>5, <2>1, TotalEmpty, FS_EmptySet
<1>7. PICK c \in T : Total(f, T) = f[c] + Total(f, T \ {c})
  BY <1>5, <1>6, TotalFirst
<1>8. Total(f, T \ {c}) = Cardinality(of(T \ {c}))
  BY <1>3, <1>4, <1>5
<1>9. f[c] = Cardinality(of({c}))
  <2>1. of({c}) = {s \in S : feature[s] = c}
    OBVIOUS
  <2> QED BY <1>5, <1>7, <2>1
<1>10. of(T) = of({c}) \cup of(T \ {c}) /\ of({c}) \cap of(T \ {c}) = {}
  BY <1>7
<1>11. /\ IsFiniteSet(of({c})) /\ IsFiniteSet(of(T \ {c}))
  BY FS_Subset
<1> HIDE DEF of
<1>12. Cardinality(of(T)) = Cardinality(of({c})) + Cardinality(of(T \ {c}))
  <2>1. /\ Cardinality(of({c})) \in Nat /\ Cardinality(of(T \ {c})) \in Nat
        /\ Cardinality(of({c}) \cap of(T \ {c})) = 0
    BY <1>10, <1>11, FS_CardinalityType, FS_EmptySet
  <2>2. Cardinality(of({c}) \cup of(T \ {c})) =
          Cardinality(of({c})) + Cardinality(of(T \ {c})) - Cardinality(of({c}) \cap of(T \ {c}))
    BY <1>11, FS_Union
  <2>3. Cardinality(of(T)) =
          Cardinality(of({c})) + Cardinality(of(T \ {c})) - Cardinality(of({c}) \cap of(T \ {c}))
    BY <1>10, <2>2
  <2> QED BY <2>1, <2>3
<1> QED BY <1>5, <1>7, <1>8, <1>9, <1>12

(* Nothing adds up to nothing.                                             *)
LEMMA TotalZero ==
  ASSUME NEW D, IsFiniteSet(D), NEW f \in [D -> Int], \A x \in D : f[x] = 0
  PROVE  Total(f, D) = 0
<1> DEFINE Bad == {s \in SUBSET D : Total(f, s) # 0}
<1>1. SUFFICES ASSUME Bad # {} PROVE FALSE
  OBVIOUS
<1>2. Bad \in SUBSET (SUBSET D)
  OBVIOUS
<1>3. \A s \in SUBSET D : s \in Bad <=> Total(f, s) # 0
  OBVIOUS
<1> HIDE DEF Bad
<1>4. PICK s \in Bad : \A t \in SUBSET s : t # s => t \notin Bad
  BY <1>1, <1>2, SmallestSubset
<1>5. s \in SUBSET D /\ Total(f, s) # 0
  BY <1>2, <1>3, <1>4
<1>6. s # {}
  BY <1>5, TotalEmpty
<1>7. PICK c \in s : Total(f, s) = f[c] + Total(f, s \ {c})
  BY <1>5, <1>6, TotalFirst
<1>8. Total(f, s \ {c}) = 0
  BY <1>3, <1>4, <1>5
<1> QED BY <1>5, <1>7, <1>8

(* Naturals add up to a natural.                                           *)
LEMMA TotalNat ==
  ASSUME NEW D, IsFiniteSet(D), NEW f \in [D -> Nat], NEW S \in SUBSET D
  PROVE  Total(f, S) \in Nat
<1> DEFINE Bad == {s \in SUBSET S : Total(f, s) \notin Nat}
<1>1. SUFFICES ASSUME Bad # {} PROVE FALSE
  OBVIOUS
<1>2. Bad \in SUBSET (SUBSET S) /\ IsFiniteSet(S)
  BY FS_Subset
<1>3. \A s \in SUBSET S : s \in Bad <=> Total(f, s) \notin Nat
  OBVIOUS
<1> HIDE DEF Bad
<1>4. PICK s \in Bad : \A t \in SUBSET s : t # s => t \notin Bad
  BY <1>1, <1>2, SmallestSubset
<1>5. s \in SUBSET S /\ Total(f, s) \notin Nat
  BY <1>2, <1>3, <1>4
<1>9. s # {}
  BY <1>5, TotalEmpty
<1>6. PICK c \in s : Total(f, s) = f[c] + Total(f, s \ {c})
  <2>1. f \in [D -> Int]
    OBVIOUS
  <2> QED BY <1>5, <1>9, <2>1, TotalFirst
<1>7. Total(f, s \ {c}) \in Nat
  BY <1>3, <1>4, <1>5
<1>8. f[c] \in Nat
  BY <1>5
<1> QED BY <1>5, <1>6, <1>7, <1>8

-----------------------------------------------------------------------------
(* Remainders *)

(* Quotient and remainder determine each other.                            *)
LEMMA DivisionUnique ==
  ASSUME NEW d \in Nat \ {0}, NEW p \in Nat, NEW q \in Nat,
         NEW r \in 0 .. d - 1, NEW t \in 0 .. d - 1,
         d * p + r = d * q + t
  PROVE  p = q /\ r = t
<1>1. CASE p = q
  BY <1>1
<1>2. CASE p < q
  <2>1. d * (p + 1) <= d * q
    BY <1>2, SMTT(30)
  <2>2. d * (p + 1) = d * p + d
    BY SMTT(30)
  <2>3. d * p \in Nat /\ d * q \in Nat
    BY SMTT(30)
  <2> QED BY <2>1, <2>2, <2>3
<1>3. CASE q < p
  <2>1. d * (q + 1) <= d * p
    BY <1>3, SMTT(30)
  <2>2. d * (q + 1) = d * q + d
    BY SMTT(30)
  <2>3. d * p \in Nat /\ d * q \in Nat
    BY SMTT(30)
  <2> QED BY <2>1, <2>2, <2>3
<1> QED BY <1>1, <1>2, <1>3

LEMMA RemainderOfSum ==
  ASSUME NEW d \in Nat \ {0}, NEW p \in Nat, NEW r \in 0 .. d - 1
  PROVE  (d * p + r) % d = r
<1> DEFINE n == d * p + r
           q == n \div d
           t == n % d
<1>1. d * p \in Nat
  BY SMTT(30)
<1>2. n \in Nat
  BY <1>1
<1> HIDE DEF n
<1>3. q \in Nat /\ t \in 0 .. d - 1 /\ n = d * q + t
  BY <1>2
<1> HIDE DEF q, t
<1>4. r = t
  BY <1>3, DivisionUnique DEF n
<1> QED BY <1>4 DEF n, t

(* A counter that wraps adds up all the same.                              *)
LEMMA RemainderAdds ==
  ASSUME NEW d \in Nat \ {0}, NEW a \in Nat, NEW b \in Nat
  PROVE  ((a % d) + b) % d = (a + b) % d
<1> DEFINE q == a \div d
           r == a % d
           p == (r + b) \div d
           t == (r + b) % d
<1>1. q \in Nat /\ r \in 0 .. d - 1 /\ a = d * q + r
  OBVIOUS
<1>2. r + b \in Nat
  BY <1>1
<1>3. p \in Nat /\ t \in 0 .. d - 1 /\ r + b = d * p + t
  BY <1>2
<1> HIDE DEF q, p, t, r
<1>4. a + b = (d * q + d * p) + t
  <2>1. d * q \in Nat /\ d * p \in Nat
    BY <1>1, <1>3, SMTT(30)
  <2> QED BY <1>1, <1>3, <2>1
<1>5. d * q + d * p = d * (q + p)
  BY <1>1, <1>3, SMTT(30)
<1>6. a + b = d * (q + p) + t
  BY <1>4, <1>5
<1>7. (d * (q + p) + t) % d = t
  <2>1. q + p \in Nat
    BY <1>1, <1>3
  <2> QED BY <1>3, <2>1, RemainderOfSum
<1>8. (a + b) % d = t
  BY <1>6, <1>7
<1> QED BY <1>8 DEF t, r

=============================================================================
