---------------------------------- MODULE Sums ----------------------------------
(***************************************************************************)
(* What the proofs need to know of SumFunctionOnSet and SumFunction, the   *)
(* folds in which the models write SUM and reduce.                         *)
(*                                                                         *)
(* A fold takes the elements in an order that CHOOSE fixes.  These lemmas  *)
(* show that the order does not matter: a sum over a finite set is 0 over  *)
(* the empty one, and any element may be taken out of it.                  *)
(***************************************************************************)
EXTENDS Integers, FiniteSets, Functions, FiniteSetTheorems, WellFoundedInduction, TLAPS

(***************************************************************************)
(* Induction, for a set of numbers and for a set of subsets.               *)
(***************************************************************************)
LEMMA NatSetInduction ==
  ASSUME NEW N \in SUBSET Nat, 0 \in N, \A n \in N : n + 1 \in N
  PROVE  N = Nat
  <1> DEFINE T == Nat \ N
             R == OpToRel(<, Nat)
  <1> SUFFICES ASSUME T # {} PROVE FALSE
    OBVIOUS
  <1>1. PICK x \in T : \A y \in T : ~(<<y, x>> \in R)
    <2>1. IsWellFoundedOn(R, Nat)
      BY NatLessThanWellFounded DEF OpToRel
    <2>2. T \subseteq Nat
      OBVIOUS
    <2> HIDE DEF R, T
    <2> QED BY <2>1, <2>2, WFMin
  <1>2. x \in Nat /\ x # 0 /\ x - 1 \in Nat
    OBVIOUS
  <1>3. <<x - 1, x>> \in R
    BY <1>2 DEF OpToRel
  <1> HIDE DEF R
  <1>4. x - 1 \in N
    BY <1>1, <1>2, <1>3
  <1>5. (x - 1) + 1 = x
    BY <1>2
  <1> QED BY <1>4, <1>5

LEMMA SubsetInduction ==
  ASSUME NEW S, IsFiniteSet(S), NEW G,
         \A T \in SUBSET S : (\A U \in SUBSET T : U # T => U \in G) => T \in G
  PROVE  \A T \in SUBSET S : T \in G
  <1> DEFINE B == (SUBSET S) \ G
             R == StrictSubsetOrdering(S)
             F == FiniteSubsetsOf(S)
  <1> SUFFICES ASSUME B # {} PROVE FALSE
    OBVIOUS
  <1>1. IsWellFoundedOn(R, F)
    BY FS_StrictSubsetOrderingWellFounded
  <1>2. F = SUBSET S
    BY FS_FiniteSubsetsOfFinite
  <1>3. PICK T \in B : \A U \in B : ~(<<U, T>> \in R)
    <2>1. B \subseteq F
      BY <1>2
    <2> HIDE DEF R, F, B
    <2> QED BY <1>1, <2>1, WFMin
  <1>4. \A U \in SUBSET T : U # T => U \in G
    <2> SUFFICES ASSUME NEW U \in SUBSET T, U # T, U \notin G PROVE FALSE
      OBVIOUS
    <2>1. U \in B /\ <<U, T>> \in R
      BY DEF StrictSubsetOrdering
    <2> HIDE DEF R, B
    <2> QED BY <1>3, <2>1
  <1> QED BY <1>4

-------------------------------------------------------------------------------
(***************************************************************************)
(* The recursive function behind a sum.                                    *)
(***************************************************************************)
Chosen(s) == CHOOSE x \in s : TRUE
Defines(h, f, D) ==
  h = [s \in D |-> IF s = {} THEN 0 ELSE f[Chosen(s)] + h[s \ {Chosen(s)}]]
Iter(f, S) == CHOOSE h : Defines(h, f, SUBSET S)

LEMMA SumIter ==
  ASSUME NEW f, NEW S
  PROVE  SumFunctionOnSet(f, S) = Iter(f, S)[S]
  BY DEF SumFunctionOnSet, FoldFunctionOnSet, MapThenFoldSet, Iter, Defines, Chosen

(* Sets of at most n elements are enough for those of n + 1.               *)
LEMMA IterExists ==
  ASSUME NEW S, IsFiniteSet(S), NEW f, \A x \in S : f[x] \in Int
  PROVE  \E h \in [SUBSET S -> Int] : Defines(h, f, SUBSET S)
  <1> DEFINE D(n) == {s \in SUBSET S : Cardinality(s) <= n}
             N == {n \in Nat : \E h \in [D(n) -> Int] : Defines(h, f, D(n))}
  <1>1. \A s \in SUBSET S : IsFiniteSet(s) /\ Cardinality(s) \in Nat
    BY FS_Subset, FS_CardinalityType
  <1>2. \A s \in SUBSET S : s # {} => /\ Chosen(s) \in s /\ s \ {Chosen(s)} \in SUBSET S
                                      /\ Cardinality(s \ {Chosen(s)}) = Cardinality(s) - 1
    <2> SUFFICES ASSUME NEW s \in SUBSET S, s # {}
                 PROVE  /\ Chosen(s) \in s
                        /\ Cardinality(s \ {Chosen(s)}) = Cardinality(s) - 1
      OBVIOUS
    <2>1. Chosen(s) \in s
      BY DEF Chosen
    <2> QED BY <1>1, <2>1, FS_RemoveElement
  <1>3. 0 \in N
    <2>1. \A s \in D(0) : s = {}
      BY <1>1, FS_EmptySet
    <2> DEFINE h == [s \in D(0) |-> 0]
    <2>2. h \in [D(0) -> Int] /\ Defines(h, f, D(0))
      BY <2>1 DEF Defines
    <2> QED BY <2>2
  <1>4. ASSUME NEW n \in N PROVE n + 1 \in N
    <2>1. PICK h \in [D(n) -> Int] : Defines(h, f, D(n))
      OBVIOUS
    <2> DEFINE g == [s \in D(n + 1) |-> IF s = {} THEN 0 ELSE f[Chosen(s)] + h[s \ {Chosen(s)}]]
    <2>2. \A s \in D(n + 1) : s # {} => s \ {Chosen(s)} \in D(n)
      BY <1>1, <1>2
    <2>3. \A s \in D(n) : s \in D(n + 1) /\ g[s] = h[s]
      <3>1. \A s \in D(n) : s \in D(n + 1)
        BY <1>1
      <3>2. \A s \in D(n) : h[s] = IF s = {} THEN 0 ELSE f[Chosen(s)] + h[s \ {Chosen(s)}]
        BY <2>1 DEF Defines
      <3> QED BY <3>1, <3>2
    <2>4. g = [s \in D(n + 1) |-> IF s = {} THEN 0 ELSE f[Chosen(s)] + g[s \ {Chosen(s)}]]
      <3> HIDE DEF D
      <3> QED BY <2>2, <2>3
    <2>5. g \in [D(n + 1) -> Int]
      BY <1>2, <2>2
    <2> HIDE DEF g, D
    <2>6. Defines(g, f, D(n + 1))
      BY <2>4 DEF Defines
    <2> QED BY <2>5, <2>6
  <1>5. N = Nat
    <2> HIDE DEF N
    <2>1. N \subseteq Nat
      BY DEF N
    <2> QED BY <1>3, <1>4, <2>1, NatSetInduction
  <1>6. Cardinality(S) \in N
    BY <1>1, <1>5
  <1>7. D(Cardinality(S)) = SUBSET S
    BY <1>1, FS_Subset
  <1> QED BY <1>6, <1>7

LEMMA IterDefined ==
  ASSUME NEW S, IsFiniteSet(S), NEW f, \A x \in S : f[x] \in Int
  PROVE  /\ \A s \in SUBSET S :
              Iter(f, S)[s] = IF s = {} THEN 0 ELSE f[Chosen(s)] + Iter(f, S)[s \ {Chosen(s)}]
         /\ \A s \in SUBSET S : Iter(f, S)[s] \in Int
  <1> DEFINE h == Iter(f, S)
  <1>1. Defines(h, f, SUBSET S)
    <2>1. \E g : Defines(g, f, SUBSET S)
      BY IterExists
    <2> QED BY <2>1 DEF Iter
  <1> HIDE DEF h
  <1>2. \A s \in SUBSET S : h[s] = IF s = {} THEN 0 ELSE f[Chosen(s)] + h[s \ {Chosen(s)}]
    BY <1>1 DEF Defines
  <1>3. \A s \in SUBSET S : s # {} => Chosen(s) \in s
    BY DEF Chosen
  <1> DEFINE G == {s \in SUBSET S : h[s] \in Int}
  <1>4. ASSUME NEW T \in SUBSET S, \A U \in SUBSET T : U # T => U \in G
        PROVE  T \in G
    <2>1. CASE T = {}
      <3>1. h[T] = 0
        BY <1>2, <2>1
      <3> QED BY <3>1
    <2>2. CASE T # {}
      <3>1. Chosen(T) \in T /\ T \ {Chosen(T)} \in G
        BY <1>3, <1>4, <2>2
      <3>2. h[T] = f[Chosen(T)] + h[T \ {Chosen(T)}]
        BY <1>2, <2>2
      <3> QED BY <3>1, <3>2
    <2> QED BY <2>1, <2>2
  <1>5. \A T \in SUBSET S : T \in G
    <2> HIDE DEF G
    <2> QED BY <1>4, SubsetInduction
  <1> QED BY <1>2, <1>5 DEF h

(* The recursion does not depend on the set it started with.               *)
LEMMA IterSame ==
  ASSUME NEW S, IsFiniteSet(S), NEW f, NEW g,
         \A x \in S : f[x] \in Int /\ g[x] = f[x], NEW R \in SUBSET S
  PROVE  Iter(g, R)[R] = Iter(f, S)[R]
  <1>1. IsFiniteSet(R)
    BY FS_Subset
  <1> DEFINE h == Iter(f, S)
             k == Iter(g, R)
             G == {s \in SUBSET R : k[s] = h[s]}
  <1>2. /\ \A s \in SUBSET S : h[s] = IF s = {} THEN 0 ELSE f[Chosen(s)] + h[s \ {Chosen(s)}]
        /\ \A s \in SUBSET R : k[s] = IF s = {} THEN 0 ELSE g[Chosen(s)] + k[s \ {Chosen(s)}]
    BY <1>1, IterDefined
  <1>3. \A s \in SUBSET S : s # {} => Chosen(s) \in s
    BY DEF Chosen
  <1> HIDE DEF h, k
  <1>4. ASSUME NEW T \in SUBSET R, \A U \in SUBSET T : U # T => U \in G
        PROVE  T \in G
    <2>1. CASE T = {}
      BY <1>2, <2>1
    <2>2. CASE T # {}
      <3>1. Chosen(T) \in T /\ Chosen(T) \in S /\ T \ {Chosen(T)} \in G
        BY <1>3, <1>4, <2>2
      <3>2. /\ h[T] = f[Chosen(T)] + h[T \ {Chosen(T)}]
            /\ k[T] = g[Chosen(T)] + k[T \ {Chosen(T)}]
        BY <1>2, <2>2
      <3> QED BY <3>1, <3>2
    <2> QED BY <2>1, <2>2
  <1>5. \A T \in SUBSET R : T \in G
    <2> HIDE DEF G
    <2> QED BY <1>1, <1>4, SubsetInduction
  <1> QED BY <1>5 DEF h, k

-------------------------------------------------------------------------------
(***************************************************************************)
(* Sums.                                                                   *)
(***************************************************************************)
LEMMA SumType ==
  ASSUME NEW S, IsFiniteSet(S), NEW f, \A x \in S : f[x] \in Int
  PROVE  SumFunctionOnSet(f, S) \in Int
  BY SumIter, IterDefined

LEMMA SumEmpty ==
  ASSUME NEW f
  PROVE  SumFunctionOnSet(f, {}) = 0
  <1>1. IsFiniteSet({})
    BY FS_EmptySet
  <1>2. Iter(f, {})[{}] = 0
    BY <1>1, IterDefined
  <1> QED BY <1>2, SumIter

(* The values outside the set do not matter.                               *)
LEMMA SumSame ==
  ASSUME NEW S, IsFiniteSet(S), NEW f, NEW g, \A x \in S : f[x] \in Int /\ g[x] = f[x]
  PROVE  SumFunctionOnSet(g, S) = SumFunctionOnSet(f, S)
  BY SumIter, IterSame

LEMMA SumPick ==
  ASSUME NEW S, IsFiniteSet(S), NEW f, \A x \in S : f[x] \in Int, NEW T \in SUBSET S, T # {}
  PROVE  /\ Chosen(T) \in T
         /\ SumFunctionOnSet(f, T) = f[Chosen(T)] + SumFunctionOnSet(f, T \ {Chosen(T)})
  <1>1. Chosen(T) \in T /\ T \ {Chosen(T)} \in SUBSET S
    BY DEF Chosen
  <1>2. Iter(f, S)[T] = f[Chosen(T)] + Iter(f, S)[T \ {Chosen(T)}]
    BY IterDefined
  <1>3. \A R \in SUBSET S : SumFunctionOnSet(f, R) = Iter(f, S)[R]
    BY SumIter, IterSame
  <1> QED BY <1>1, <1>2, <1>3

(* Any element may be taken out first.                                     *)
LEMMA SumRemove ==
  ASSUME NEW S, IsFiniteSet(S), NEW f, \A x \in S : f[x] \in Int, NEW x \in S
  PROVE  SumFunctionOnSet(f, S) = f[x] + SumFunctionOnSet(f, S \ {x})
  <1> DEFINE Sum(T) == SumFunctionOnSet(f, T)
             G == {T \in SUBSET S : \A y \in T : Sum(T) = f[y] + Sum(T \ {y})}
  <1>1. \A T \in SUBSET S : Sum(T) \in Int
    BY FS_Subset, SumType
  <1>2. \A T \in SUBSET S : T # {} => Chosen(T) \in T /\ Sum(T) = f[Chosen(T)] + Sum(T \ {Chosen(T)})
    BY SumPick
  <1> HIDE DEF Sum
  <1>3. ASSUME NEW T \in SUBSET S, \A U \in SUBSET T : U # T => U \in G
        PROVE  T \in G
    <2> SUFFICES ASSUME NEW y \in T PROVE Sum(T) = f[y] + Sum(T \ {y})
      OBVIOUS
    <2> DEFINE p == Chosen(T)
    <2>1. p \in T /\ Sum(T) = f[p] + Sum(T \ {p})
      BY <1>2
    <2> HIDE DEF p
    <2>2. CASE y = p
      BY <2>1, <2>2
    <2>3. CASE y # p
      <3>1. T \ {p} \in G /\ y \in T \ {p} /\ T \ {y} \in G /\ p \in T \ {y}
        BY <1>3, <2>1, <2>3
      <3>2. /\ Sum(T \ {p}) = f[y] + Sum((T \ {p}) \ {y})
            /\ Sum(T \ {y}) = f[p] + Sum((T \ {y}) \ {p})
        BY <3>1
      <3>3. (T \ {p}) \ {y} = (T \ {y}) \ {p}
        OBVIOUS
      <3> DEFINE rest == Sum((T \ {y}) \ {p})
      <3>4. f[y] \in Int /\ f[p] \in Int /\ rest \in Int
        BY <1>1, <2>1
      <3>5. Sum(T) = f[p] + (f[y] + rest) /\ Sum(T \ {y}) = f[p] + rest
        BY <2>1, <3>2, <3>3
      <3> HIDE DEF rest
      <3>6. f[p] + (f[y] + rest) = f[y] + (f[p] + rest)
        BY <3>4
      <3> QED BY <3>5, <3>6
    <2> QED BY <2>2, <2>3
  <1>4. \A T \in SUBSET S : T \in G
    <2> HIDE DEF G
    <2> QED BY <1>3, SubsetInduction
  <1> QED BY <1>4 DEF Sum

LEMMA SumAdd ==
  ASSUME NEW S, IsFiniteSet(S), NEW x, x \notin S, NEW f, \A y \in S \cup {x} : f[y] \in Int
  PROVE  SumFunctionOnSet(f, S \cup {x}) = f[x] + SumFunctionOnSet(f, S)
  <1>1. IsFiniteSet(S \cup {x})
    BY FS_AddElement
  <1>2. (S \cup {x}) \ {x} = S
    OBVIOUS
  <1>3. SumFunctionOnSet(f, S \cup {x}) = f[x] + SumFunctionOnSet(f, (S \cup {x}) \ {x})
    BY <1>1, SumRemove
  <1> QED BY <1>2, <1>3

(* A change of one value changes the sum by as much.                       *)
LEMMA SumExcept ==
  ASSUME NEW S, IsFiniteSet(S), NEW x \in S, NEW f, NEW g,
         \A y \in S : f[y] \in Int /\ g[y] \in Int, \A y \in S \ {x} : g[y] = f[y]
  PROVE  SumFunctionOnSet(g, S) = SumFunctionOnSet(f, S) - f[x] + g[x]
  <1> DEFINE rest == SumFunctionOnSet(f, S \ {x})
  <1>1. IsFiniteSet(S \ {x})
    BY FS_RemoveElement
  <1>2. SumFunctionOnSet(g, S \ {x}) = rest
    BY <1>1, SumSame
  <1>3. SumFunctionOnSet(f, S) = f[x] + rest /\ SumFunctionOnSet(g, S) = g[x] + rest
    BY <1>2, SumRemove
  <1>4. rest \in Int
    BY <1>1, SumType
  <1> HIDE DEF rest
  <1> QED BY <1>3, <1>4

(* Sums add up. *)
LEMMA SumPlus ==
  ASSUME NEW S, IsFiniteSet(S), NEW f, NEW g, NEW h,
         \A x \in S : f[x] \in Int /\ g[x] \in Int /\ h[x] = f[x] + g[x]
  PROVE  SumFunctionOnSet(h, S) = SumFunctionOnSet(f, S) + SumFunctionOnSet(g, S)
  <1> DEFINE F(T) == SumFunctionOnSet(f, T)
             K(T) == SumFunctionOnSet(g, T)
             H(T) == SumFunctionOnSet(h, T)
             G == {T \in SUBSET S : H(T) = F(T) + K(T)}
  <1>1. \A T \in SUBSET S : F(T) \in Int /\ K(T) \in Int
    BY FS_Subset, SumType
  <1>2. F({}) = 0 /\ K({}) = 0 /\ H({}) = 0
    BY SumEmpty
  <1>3. \A T \in SUBSET S : T # {} => /\ Chosen(T) \in T
                                      /\ F(T) = f[Chosen(T)] + F(T \ {Chosen(T)})
                                      /\ K(T) = g[Chosen(T)] + K(T \ {Chosen(T)})
                                      /\ H(T) = h[Chosen(T)] + H(T \ {Chosen(T)})
    <2>1. \A x \in S : f[x] \in Int
      OBVIOUS
    <2>2. \A x \in S : g[x] \in Int
      OBVIOUS
    <2>3. \A x \in S : h[x] \in Int
      OBVIOUS
    <2> SUFFICES ASSUME NEW T \in SUBSET S, T # {}
                 PROVE  /\ Chosen(T) \in T
                        /\ F(T) = f[Chosen(T)] + F(T \ {Chosen(T)})
                        /\ K(T) = g[Chosen(T)] + K(T \ {Chosen(T)})
                        /\ H(T) = h[Chosen(T)] + H(T \ {Chosen(T)})
      OBVIOUS
    <2>4. F(T) = f[Chosen(T)] + F(T \ {Chosen(T)})
      BY <2>1, SumPick
    <2>5. K(T) = g[Chosen(T)] + K(T \ {Chosen(T)})
      BY <2>2, SumPick
    <2>6. H(T) = h[Chosen(T)] + H(T \ {Chosen(T)})
      BY <2>3, SumPick
    <2> HIDE DEF F, K, H
    <2> QED BY <2>4, <2>5, <2>6 DEF Chosen
  <1> HIDE DEF F, K, H
  <1>4. ASSUME NEW T \in SUBSET S, \A U \in SUBSET T : U # T => U \in G
        PROVE  T \in G
    <2>1. CASE T = {}
      BY <1>2, <2>1
    <2>2. CASE T # {}
      <3> DEFINE p == Chosen(T)
                 R == T \ {p}
      <3>1. p \in T /\ F(T) = f[p] + F(R) /\ K(T) = g[p] + K(R) /\ H(T) = h[p] + H(R)
        BY <1>3, <2>2
      <3>2. R \in G
        BY <1>4, <3>1
      <3>3. f[p] \in Int /\ g[p] \in Int /\ h[p] = f[p] + g[p] /\ F(R) \in Int /\ K(R) \in Int
        BY <1>1, <3>1
      <3> HIDE DEF p, R
      <3>4. H(R) = F(R) + K(R)
        BY <3>2
      <3>5. H(T) = F(T) + K(T)
        BY <3>1, <3>3, <3>4
      <3> QED BY <3>5
    <2> QED BY <2>1, <2>2
  <1>5. \A T \in SUBSET S : T \in G
    <2> HIDE DEF G
    <2> QED BY <1>4, SubsetInduction
  <1> QED BY <1>5 DEF F, K, H

LEMMA SumScale ==
  ASSUME NEW S, IsFiniteSet(S), NEW f, NEW h, NEW c \in Int,
         \A x \in S : f[x] \in Int /\ h[x] = c * f[x]
  PROVE  SumFunctionOnSet(h, S) = c * SumFunctionOnSet(f, S)
  <1> DEFINE F(T) == SumFunctionOnSet(f, T)
             H(T) == SumFunctionOnSet(h, T)
             G == {T \in SUBSET S : H(T) = c * F(T)}
  <1>1. \A x \in S : f[x] \in Int /\ h[x] \in Int
    OBVIOUS
  <1>2. ASSUME NEW T \in SUBSET S, \A U \in SUBSET T : U # T => U \in G
        PROVE  T \in G
    <2>1. CASE T = {}
      <3>1. F(T) = 0 /\ H(T) = 0
        BY <2>1, SumEmpty
      <3> HIDE DEF F, H
      <3>2. H(T) = c * F(T)
        BY <3>1
      <3> QED BY <3>2 DEF F, H
    <2>2. CASE T # {}
      <3>1. PICK p \in T : TRUE
        BY <2>2
      <3> DEFINE R == T \ {p}
      <3>2. IsFiniteSet(T) /\ IsFiniteSet(R)
        BY FS_Subset
      <3>3. F(T) = f[p] + F(R)
        BY <3>1, <3>2, SumRemove
      <3>4. H(T) = h[p] + H(R)
        BY <1>1, <3>1, <3>2, SumRemove
      <3>5. F(R) \in Int
        BY <3>2, SumType
      <3>6. R \in G
        BY <1>2, <3>1
      <3> HIDE DEF F, H, R
      <3>7. H(R) = c * F(R) /\ h[p] = c * f[p] /\ f[p] \in Int
        BY <3>1, <3>6
      <3>8. c * (f[p] + F(R)) = c * f[p] + c * F(R)
        BY <3>5, <3>7
      <3>9. H(T) = c * F(T)
        BY <3>3, <3>4, <3>7, <3>8
      <3> QED BY <3>9
    <2> QED BY <2>1, <2>2
  <1>3. \A T \in SUBSET S : T \in G
    <2> HIDE DEF G
    <2> QED BY <1>2, SubsetInduction
  <1> QED BY <1>3

LEMMA SumZero ==
  ASSUME NEW S, IsFiniteSet(S), NEW f, \A x \in S : f[x] = 0
  PROVE  SumFunctionOnSet(f, S) = 0
  <1> DEFINE total == SumFunctionOnSet(f, S)
  <1>1. total = total + total
    BY SumPlus
  <1>2. total \in Int
    BY SumType
  <1> HIDE DEF total
  <1>3. total = 0
    BY <1>1, <1>2
  <1> QED BY <1>3 DEF total

(* The elements may be renamed. *)
LEMMA SumImage ==
  ASSUME NEW S, IsFiniteSet(S), NEW f, \A x \in S : f[x] \in Int,
         NEW g, NEW r, \A x \in S : g[r[x]] = f[x], \A x, y \in S : r[x] = r[y] => x = y
  PROVE  SumFunctionOnSet(g, {r[x] : x \in S}) = SumFunctionOnSet(f, S)
  <1> DEFINE Im(T) == {r[x] : x \in T}
             G == {T \in SUBSET S : SumFunctionOnSet(g, Im(T)) = SumFunctionOnSet(f, T)}
  <1>1. ASSUME NEW T \in SUBSET S, \A U \in SUBSET T : U # T => U \in G
        PROVE  T \in G
    <2>1. CASE T = {}
      <3>1. Im(T) = {}
        BY <2>1
      <3> QED BY <2>1, <3>1, SumEmpty
    <2>2. CASE T # {}
      <3>1. PICK p \in T : TRUE
        BY <2>2
      <3> DEFINE R == T \ {p}
      <3>2. IsFiniteSet(T) /\ IsFiniteSet(R)
        BY FS_Subset
      <3>3. IsFiniteSet(Im(R))
        <4> DEFINE m == [x \in R |-> r[x]]
        <4>1. m \in Surjection(R, Im(R))
          BY DEF Surjection
        <4> HIDE DEF m, R, Im
        <4> QED BY <3>2, <4>1, FS_Surjection
      <3>4. Im(T) = Im(R) \cup {r[p]} /\ r[p] \notin Im(R)
        BY <3>1
      <3>5. \A y \in Im(R) \cup {r[p]} : g[y] \in Int
        BY <3>1
      <3> HIDE DEF Im
      <3>6. SumFunctionOnSet(g, Im(R) \cup {r[p]}) = g[r[p]] + SumFunctionOnSet(g, Im(R))
        BY <3>3, <3>4, <3>5, SumAdd
      <3>7. SumFunctionOnSet(f, T) = f[p] + SumFunctionOnSet(f, R)
        BY <3>1, <3>2, SumRemove
      <3>8. R \in G
        BY <1>1, <3>1
      <3>9. SumFunctionOnSet(g, Im(R)) = SumFunctionOnSet(f, R) /\ g[r[p]] = f[p]
        BY <3>1, <3>8
      <3> HIDE DEF R
      <3> QED BY <3>4, <3>6, <3>7, <3>9
    <2> QED BY <2>1, <2>2
  <1>2. \A T \in SUBSET S : T \in G
    <2> HIDE DEF G
    <2> QED BY <1>1, SubsetInduction
  <1> QED BY <1>2

(* A sum over two sets without a common element. *)
LEMMA SumUnion ==
  ASSUME NEW S, NEW R, IsFiniteSet(S), IsFiniteSet(R), S \cap R = {},
         NEW f, \A x \in S \cup R : f[x] \in Int
  PROVE  SumFunctionOnSet(f, S \cup R) = SumFunctionOnSet(f, S) + SumFunctionOnSet(f, R)
  <1> DEFINE Sum(T) == SumFunctionOnSet(f, T)
             G == {T \in SUBSET R : Sum(S \cup T) = Sum(S) + Sum(T)}
  <1>1. ASSUME NEW T \in SUBSET R, \A U \in SUBSET T : U # T => U \in G
        PROVE  T \in G
    <2>1. CASE T = {}
      <3>1. Sum(T) = 0 /\ Sum(S) \in Int
        BY <2>1, SumEmpty, SumType
      <3>2. S \cup T = S
        BY <2>1
      <3>3. Sum(S \cup T) = Sum(S)
        BY <3>2
      <3> HIDE DEF Sum
      <3>4. Sum(S \cup T) = Sum(S) + Sum(T)
        BY <3>1, <3>3
      <3> QED BY <3>4 DEF Sum
    <2>2. CASE T # {}
      <3>1. PICK p \in T : TRUE
        BY <2>2
      <3> DEFINE U == T \ {p}
      <3>2. IsFiniteSet(T) /\ IsFiniteSet(U)
        BY FS_Subset
      <3>3. IsFiniteSet(S \cup U)
        BY <3>2, FS_Union
      <3>4. S \cup T = (S \cup U) \cup {p} /\ p \notin S \cup U
        BY <3>1
      <3>5. Sum((S \cup U) \cup {p}) = f[p] + Sum(S \cup U)
        BY <3>1, <3>3, <3>4, SumAdd
      <3>6. Sum(T) = f[p] + Sum(U)
        BY <3>1, <3>2, SumRemove
      <3>7. U \in G
        BY <1>1, <3>1
      <3>8. Sum(S) \in Int /\ Sum(U) \in Int /\ f[p] \in Int
        BY <3>1, <3>2, SumType
      <3> HIDE DEF Sum, U
      <3>9. Sum(S \cup T) = f[p] + (Sum(S) + Sum(U)) /\ Sum(T) = f[p] + Sum(U)
        BY <3>4, <3>5, <3>6, <3>7
      <3>10. Sum(S \cup T) = Sum(S) + Sum(T)
        BY <3>8, <3>9
      <3> QED BY <3>10
    <2> QED BY <2>1, <2>2
  <1>2. \A T \in SUBSET R : T \in G
    <2> HIDE DEF G
    <2> QED BY <1>1, SubsetInduction
  <1> QED BY <1>2
(* c is the m values of a and then the n values of b. *)
Joined(a, m, b, n, c) ==
  /\ m \in Nat /\ n \in Nat
  /\ \A i \in 1..m : a[i] \in Int /\ c[i] = a[i]
  /\ \A i \in 1..n : b[i] \in Int /\ c[m + i] = b[i]

LEMMA SumConcat ==
  ASSUME NEW a, NEW m, NEW b, NEW n, NEW c, Joined(a, m, b, n, c)
  PROVE  SumFunctionOnSet(c, 1..(m + n)) = SumFunctionOnSet(a, 1..m) + SumFunctionOnSet(b, 1..n)
  <1> USE DEF Joined
  <1> DEFINE r == [i \in 1..n |-> m + i]
             A == 1..m
             B == 1..n
             R == {r[i] : i \in B}
  <1>1. IsFiniteSet(A) /\ IsFiniteSet(B)
    BY FS_Interval
  <1>2. R = (m + 1)..(m + n)
    <2>1. \A j \in (m + 1)..(m + n) : j - m \in B /\ r[j - m] = j
      OBVIOUS
    <2>2. \A j \in (m + 1)..(m + n) : j \in R
      BY <2>1
    <2>3. \A j \in R : j \in (m + 1)..(m + n)
      OBVIOUS
    <2> HIDE DEF R
    <2> QED BY <2>2, <2>3
  <1>3. IsFiniteSet(R)
    <2>1. IsFiniteSet((m + 1)..(m + n))
      BY FS_Interval
    <2> QED BY <1>2, <2>1
  <1>4. A \cap R = {} /\ A \cup R = 1..(m + n)
    BY <1>2
  <1>5. \A x \in A \cup R : c[x] \in Int
    <2>1. \A x \in R : \E i \in 1..n : x = m + i
      OBVIOUS
    <2>2. \A x \in R : c[x] \in Int
      BY <2>1
    <2> QED BY <2>2
  <1>6. \A i \in B : b[i] \in Int /\ c[r[i]] = b[i]
    OBVIOUS
  <1>7. \A i, j \in B : r[i] = r[j] => i = j
    OBVIOUS
  <1>8. \A i \in A : a[i] \in Int /\ c[i] = a[i]
    OBVIOUS
  <1> HIDE DEF r, A, B
  <1>9. SumFunctionOnSet(c, R) = SumFunctionOnSet(b, B)
    <2>1. \A i \in B : b[i] \in Int
      BY <1>6
    <2>2. \A i \in B : c[r[i]] = b[i]
      BY <1>6
    <2>3. SumFunctionOnSet(c, {r[i] : i \in B}) = SumFunctionOnSet(b, B)
      BY <1>1, <1>7, <2>1, <2>2, SumImage
    <2> QED BY <2>3
  <1> HIDE DEF R
  <1>10. SumFunctionOnSet(c, A \cup R) = SumFunctionOnSet(c, A) + SumFunctionOnSet(c, R)
    BY <1>1, <1>3, <1>4, <1>5, SumUnion
  <1>11. SumFunctionOnSet(c, A) = SumFunctionOnSet(a, A)
    BY <1>1, <1>8, SumSame
  <1> QED BY <1>4, <1>9, <1>10, <1>11 DEF A, B

(* A sum with one value that is not 0.                                     *)
LEMMA SumOne ==
  ASSUME NEW S, IsFiniteSet(S), NEW x \in S, NEW f, f[x] \in Int, \A y \in S \ {x} : f[y] = 0
  PROVE  SumFunctionOnSet(f, S) = f[x]
  <1>1. IsFiniteSet(S \ {x})
    BY FS_RemoveElement
  <1>2. SumFunctionOnSet(f, S \ {x}) = 0
    BY <1>1, SumZero
  <1>3. SumFunctionOnSet(f, S) = f[x] + SumFunctionOnSet(f, S \ {x})
    BY SumRemove
  <1> QED BY <1>2, <1>3

(* Values f summed by their keys k and weighed by the key are h, and g are *)
(* the values weighed one by one.                                          *)
KeySum(k, f, D, y) == SumFunctionOnSet([x \in D |-> IF k[x] = y THEN f[x] ELSE 0], D)
Keyed(D, I, k, f, rate, h, g) ==
  /\ IsFiniteSet(D) /\ IsFiniteSet(I)
  /\ \A x \in D : k[x] \in I /\ f[x] \in Int /\ g[x] = rate[k[x]] * f[x]
  /\ \A y \in I : rate[y] \in Int /\ h[y] = rate[y] * KeySum(k, f, D, y)

LEMMA SumByKey ==
  ASSUME NEW D, NEW I, NEW k, NEW f, NEW rate, NEW h, NEW g, Keyed(D, I, k, f, rate, h, g)
  PROVE  SumFunctionOnSet(h, I) = SumFunctionOnSet(g, D)
  <1>0. /\ IsFiniteSet(D) /\ IsFiniteSet(I)
        /\ \A x \in D : k[x] \in I
        /\ \A x \in D : f[x] \in Int
        /\ \A y \in I : rate[y] \in Int
        /\ \A y \in I : h[y] = rate[y] * SumFunctionOnSet([x \in D |-> IF k[x] = y THEN f[x] ELSE 0], D)
        /\ \A x \in D : g[x] = rate[k[x]] * f[x]
    BY DEF Keyed, KeySum
  <1> USE <1>0
  <1> DEFINE m(y) == [x \in D |-> IF k[x] = y THEN f[x] ELSE 0]
             part(T, y) == SumFunctionOnSet(m(y), T)
             w(T) == [y \in I |-> rate[y] * part(T, y)]
             G == {T \in SUBSET D : SumFunctionOnSet(w(T), I) = SumFunctionOnSet(g, T)}
  <1>1. \A y : \A x \in D : m(y)[x] \in Int
    OBVIOUS
  <1>2. \A x \in D : g[x] \in Int
    OBVIOUS
  <1>3. \A T \in SUBSET D : IsFiniteSet(T)
    BY FS_Subset
  <1>4. \A T \in SUBSET D : \A y : part(T, y) \in Int
    <2> HIDE DEF m
    <2> QED BY <1>1, <1>3, SumType
  <1>5. \A T \in SUBSET D : \A y \in I : w(T)[y] \in Int
    <2> HIDE DEF part
    <2> QED BY <1>4
  <1>6. ASSUME NEW T \in SUBSET D, \A U \in SUBSET T : U # T => U \in G
        PROVE  T \in G
    <2>1. CASE T = {}
      <3>1. \A y : part(T, y) = 0
        BY <2>1, SumEmpty
      <3> HIDE DEF part
      <3>2. \A y \in I : w(T)[y] = 0
        BY <3>1
      <3> HIDE DEF w
      <3>3. SumFunctionOnSet(w(T), I) = 0
        BY <3>2, SumZero
      <3> QED BY <2>1, <3>3, SumEmpty
    <2>2. CASE T # {}
      <3>1. PICK p \in T : TRUE
        BY <2>2
      <3> DEFINE R == T \ {p}
                 e == [y \in I |-> rate[y] * m(y)[p]]
      <3>2. \A y : part(T, y) = m(y)[p] + part(R, y)
        <4> HIDE DEF m
        <4> QED BY <1>1, <1>3, SumRemove
      <3>3. R \in G /\ R \in SUBSET D
        BY <1>6, <3>1
      <3>4. \A y \in I : e[y] \in Int /\ w(T)[y] = w(R)[y] + e[y]
        <4> SUFFICES ASSUME NEW y \in I PROVE e[y] \in Int /\ w(T)[y] = w(R)[y] + e[y]
          OBVIOUS
        <4> DEFINE s == m(y)[p]
                   u == part(R, y)
        <4>1. s \in Int /\ u \in Int /\ rate[y] \in Int
          BY <1>1, <1>4, <3>3
        <4>2. part(T, y) = s + u
          BY <3>2
        <4>3. e[y] = rate[y] * s /\ w(R)[y] = rate[y] * u /\ w(T)[y] = rate[y] * part(T, y)
          OBVIOUS
        <4> HIDE DEF s, u, part, w, e, m
        <4>4. rate[y] * (s + u) = rate[y] * u + rate[y] * s
          BY <4>1
        <4> QED BY <4>1, <4>2, <4>3, <4>4
      <3>5. SumFunctionOnSet(e, I) = g[p]
        <4>1. e[k[p]] = g[p] /\ k[p] \in I /\ g[p] \in Int
          BY <1>2
        <4>2. \A y \in I \ {k[p]} : e[y] = 0
          OBVIOUS
        <4> DEFINE q == k[p]
        <4> HIDE DEF e, q
        <4>3. SumFunctionOnSet(e, I) = e[q]
          BY <4>1, <4>2, SumOne DEF q
        <4> QED BY <4>1, <4>3 DEF q
      <3>6. SumFunctionOnSet(w(T), I) = SumFunctionOnSet(w(R), I) + SumFunctionOnSet(e, I)
        <4>1. \A y \in I : w(R)[y] \in Int
          BY <1>5, <3>3
        <4> HIDE DEF w, e
        <4> QED BY <3>4, <4>1, SumPlus
      <3>7. SumFunctionOnSet(g, T) = g[p] + SumFunctionOnSet(g, R)
        BY <1>2, <1>3, <3>1, SumRemove
      <3>8. SumFunctionOnSet(g, R) \in Int /\ g[p] \in Int
        BY <1>2, <1>3, <3>3, SumType
      <3>9. SumFunctionOnSet(w(R), I) = SumFunctionOnSet(g, R)
        BY <3>3
      <3> HIDE DEF w, e, R
      <3>10. SumFunctionOnSet(w(T), I) = SumFunctionOnSet(g, T)
        BY <3>5, <3>6, <3>7, <3>8, <3>9
      <3> QED BY <3>10
    <2> QED BY <2>1, <2>2
  <1>7. \A T \in SUBSET D : T \in G
    <2> HIDE DEF G
    <2> QED BY <1>6, SubsetInduction
  <1>8. SumFunctionOnSet(w(D), I) = SumFunctionOnSet(g, D)
    BY <1>7
  <1>9. \A y \in I : w(D)[y] \in Int /\ h[y] = w(D)[y]
    BY <1>5
  <1> HIDE DEF w
  <1>10. SumFunctionOnSet(h, I) = SumFunctionOnSet(w(D), I)
    BY <1>9, SumSame
  <1> QED BY <1>8, <1>10

(* Sums of f over S and of g over T, which differ at p only: a is what p   *)
(* has in the first one, b what it has in the second.                      *)
Changed(P, p, f, S, a, g, T, b) ==
  /\ IsFiniteSet(P) /\ p \in P /\ S \subseteq P /\ T \subseteq P /\ S \ {p} = T \ {p}
  /\ \A q \in P : f[q] \in Int /\ g[q] \in Int
  /\ \A q \in P \ {p} : g[q] = f[q]
  /\ \/ p \in S /\ a = f[p]
     \/ p \notin S /\ a = 0
  /\ \/ p \in T /\ b = g[p]
     \/ p \notin T /\ b = 0

LEMMA SumChanged ==
  ASSUME NEW P, NEW p, NEW f, NEW S, NEW a, NEW g, NEW T, NEW b, Changed(P, p, f, S, a, g, T, b)
  PROVE  SumFunctionOnSet(g, T) = SumFunctionOnSet(f, S) - a + b
  <1> DEFINE R == S \ {p}
             rest == SumFunctionOnSet(f, R)
  <1>1. /\ IsFiniteSet(S) /\ IsFiniteSet(T) /\ IsFiniteSet(R)
        /\ \A q \in S \cup T \cup {p} : f[q] \in Int /\ g[q] \in Int
    BY FS_Subset DEF Changed
  <1>2. rest \in Int
    BY <1>1, SumType
  <1>3. \A q \in R : f[q] \in Int /\ g[q] = f[q]
    BY DEF Changed
  <1>4. SumFunctionOnSet(g, R) = rest
    BY <1>1, <1>3, SumSame
  <1>5. a \in Int /\ SumFunctionOnSet(f, S) = a + rest
    <2>1. CASE p \in S
      <3>1. SumFunctionOnSet(f, S) = f[p] + rest
        BY <1>1, <2>1, SumRemove
      <3> QED BY <1>1, <2>1, <3>1 DEF Changed
    <2>2. CASE p \notin S
      <3>1. R = S /\ a = 0
        BY <2>2 DEF Changed
      <3>2. SumFunctionOnSet(f, S) = rest
        BY <3>1
      <3> HIDE DEF rest
      <3> QED BY <1>2, <3>1, <3>2
    <2> QED BY <2>1, <2>2
  <1>6. b \in Int /\ SumFunctionOnSet(g, T) = b + rest
    <2>0. R = T \ {p}
      BY DEF Changed
    <2>1. CASE p \in T
      <3>1. SumFunctionOnSet(g, T) = g[p] + SumFunctionOnSet(g, T \ {p})
        BY <1>1, <2>1, SumRemove
      <3> QED BY <1>1, <1>4, <2>0, <2>1, <3>1 DEF Changed
    <2>2. CASE p \notin T
      <3>1. R = T /\ b = 0
        BY <2>0, <2>2 DEF Changed
      <3>2. SumFunctionOnSet(g, T) = rest
        BY <1>4, <3>1
      <3> HIDE DEF rest
      <3> QED BY <1>2, <3>1, <3>2
    <2> QED BY <2>1, <2>2
  <1> HIDE DEF rest
  <1> QED BY <1>2, <1>5, <1>6

(* A part of a sum, as a sum in which the rest counts nothing.             *)
LEMMA SumWhere ==
  ASSUME NEW S, IsFiniteSet(S), NEW T \in SUBSET S, NEW f, \A x \in T : f[x] \in Int,
         NEW g, \A x \in T : g[x] = f[x], \A x \in S \ T : g[x] = 0
  PROVE  SumFunctionOnSet(g, S) = SumFunctionOnSet(f, T)
  <1> DEFINE R == S \ T
  <1>1. IsFiniteSet(T) /\ IsFiniteSet(R)
    BY FS_Subset
  <1>2. S = T \cup R /\ T \cap R = {}
    OBVIOUS
  <1>3. \A x \in T \cup R : g[x] \in Int
    OBVIOUS
  <1>4. \A x \in R : g[x] = 0
    OBVIOUS
  <1> HIDE DEF R
  <1>5. SumFunctionOnSet(g, T \cup R) = SumFunctionOnSet(g, T) + SumFunctionOnSet(g, R)
    BY <1>1, <1>2, <1>3, SumUnion
  <1>6. SumFunctionOnSet(g, R) = 0
    BY <1>1, <1>4, SumZero
  <1>7. SumFunctionOnSet(g, T) = SumFunctionOnSet(f, T) /\ SumFunctionOnSet(f, T) \in Int
    BY <1>1, SumSame, SumType
  <1> QED BY <1>2, <1>5, <1>6, <1>7

LEMMA SumNatural ==
  ASSUME NEW S, IsFiniteSet(S), NEW f, \A x \in S : f[x] \in Nat
  PROVE  SumFunctionOnSet(f, S) \in Nat
  <1> DEFINE G == {T \in SUBSET S : SumFunctionOnSet(f, T) \in Nat}
  <1>1. ASSUME NEW T \in SUBSET S, \A U \in SUBSET T : U # T => U \in G
        PROVE  T \in G
    <2>1. CASE T = {}
      BY <2>1, SumEmpty
    <2>2. CASE T # {}
      <3>1. PICK p \in T : TRUE
        BY <2>2
      <3>2. IsFiniteSet(T)
        BY FS_Subset
      <3>3. SumFunctionOnSet(f, T) = f[p] + SumFunctionOnSet(f, T \ {p})
        BY <3>1, <3>2, SumRemove
      <3>4. T \ {p} \in G
        BY <1>1, <3>1
      <3>5. SumFunctionOnSet(f, T \ {p}) \in Nat /\ f[p] \in Nat
        BY <3>1, <3>4
      <3> QED BY <3>3, <3>5
    <2> QED BY <2>1, <2>2
  <1>2. \A T \in SUBSET S : T \in G
    <2> HIDE DEF G
    <2> QED BY <1>1, SubsetInduction
  <1> QED BY <1>2

LEMMA SumPart ==
  ASSUME NEW S, IsFiniteSet(S), NEW T \in SUBSET S, NEW f, \A x \in S : f[x] \in Nat
  PROVE  SumFunctionOnSet(f, T) <= SumFunctionOnSet(f, S)
  <1> DEFINE R == S \ T
  <1>1. IsFiniteSet(T) /\ IsFiniteSet(R) /\ S = T \cup R /\ T \cap R = {}
    BY FS_Subset
  <1>2. \A x \in T \cup R : f[x] \in Nat
    OBVIOUS
  <1> HIDE DEF R
  <1>3. SumFunctionOnSet(f, S) = SumFunctionOnSet(f, T) + SumFunctionOnSet(f, R)
    BY <1>1, <1>2, SumUnion
  <1>4. SumFunctionOnSet(f, T) \in Nat /\ SumFunctionOnSet(f, R) \in Nat
    BY <1>1, <1>2, SumNatural
  <1> QED BY <1>3, <1>4

(* A sum over two elements, and over one with an element before or after.  *)
LEMMA SumTwo ==
  ASSUME NEW x, NEW y, x # y, NEW f, f[x] \in Int, f[y] \in Int
  PROVE  SumFunctionOnSet(f, {x, y}) = f[x] + f[y]
  <1>1. IsFiniteSet({x, y}) /\ IsFiniteSet({y})
    <2>1. IsFiniteSet({y}) /\ {x, y} = {y} \cup {x}
      BY FS_Singleton
    <2> QED BY <2>1, FS_AddElement
  <1>2. SumFunctionOnSet(f, {x, y}) = f[x] + SumFunctionOnSet(f, {x, y} \ {x})
    BY <1>1, SumRemove
  <1>3. {x, y} \ {x} = {y}
    OBVIOUS
  <1>4. SumFunctionOnSet(f, {y}) = f[y]
    BY <1>1, SumOne
  <1> QED BY <1>2, <1>3, <1>4

(* Greater values have a greater sum.                                      *)
LEMMA SumOrder ==
  ASSUME NEW S, IsFiniteSet(S), NEW f, NEW g,
         \A x \in S : f[x] \in Int /\ g[x] \in Int /\ f[x] <= g[x]
  PROVE  SumFunctionOnSet(f, S) <= SumFunctionOnSet(g, S)
  <1> DEFINE k == [x \in S |-> g[x] - f[x]]
  <1>1. \A x \in S : f[x] \in Int /\ k[x] \in Int /\ g[x] = f[x] + k[x]
    OBVIOUS
  <1>2. \A x \in S : k[x] \in Nat
    OBVIOUS
  <1>3. \A x \in S : f[x] \in Int
    OBVIOUS
  <1> HIDE DEF k
  <1>4. SumFunctionOnSet(g, S) = SumFunctionOnSet(f, S) + SumFunctionOnSet(k, S)
    BY <1>1, SumPlus
  <1>5. SumFunctionOnSet(k, S) \in Nat
    BY <1>2, SumNatural
  <1>6. SumFunctionOnSet(f, S) \in Int
    BY <1>3, SumType
  <1> QED BY <1>4, <1>5, <1>6

===============================================================================
