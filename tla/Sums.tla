-------------------------------- MODULE Sums --------------------------------
(***************************************************************************)
(* Facts about SumFunctionOnSet, the sum of the values of a function over  *)
(* a finite set, which the books of the relay and of the statistics use.   *)
(* The fold it is made of is a recursive function; that there is one, and  *)
(* what it yields, is shown by induction, for which a set of naturals      *)
(* takes the place of a predicate.                                         *)
(***************************************************************************)
EXTENDS FiniteSetsExt, FiniteSetTheorems, WellFoundedInduction, TLAPS

Less == {ss \in Nat \X Nat : ss[1] < ss[2]}

LEMMA LessIsWellFounded == IsWellFoundedOn(Less, Nat)
BY NatLessThanWellFounded DEF OpToRel, Less

LEMMA Induction ==
  ASSUME NEW N \in SUBSET Nat, 0 \in N, \A n \in N : n + 1 \in N
  PROVE  \A n \in Nat : n \in N
<1> SUFFICES ASSUME Nat \ N # {} PROVE FALSE
  OBVIOUS
<1>1. PICK n \in Nat \ N : \A m \in Nat \ N : <<m, n>> \notin Less
  <2> DEFINE T == Nat \ N
  <2>1. T \subseteq Nat /\ T # {} OBVIOUS
  <2> HIDE DEF T
  <2>2. \E n \in T : \A m \in T : <<m, n>> \notin Less BY <2>1, LessIsWellFounded, WFMin
  <2> QED BY <2>2 DEF T
<1>2. n - 1 \in Nat BY <1>1
<1>3. <<n - 1, n>> \in Less BY <1>2 DEF Less
<1>4. n - 1 \in N BY <1>1, <1>2, <1>3
<1> QED BY <1>1, <1>2, <1>4

LEMMA Smaller ==
  ASSUME NEW S, IsFiniteSet(S), NEW s \in SUBSET S, s # {}
  PROVE  /\ IsFiniteSet(s) /\ Cardinality(s) \in Nat \ {0}
         /\ \A x \in s : /\ s \ {x} \in SUBSET S /\ IsFiniteSet(s \ {x})
                         /\ Cardinality(s \ {x}) = Cardinality(s) - 1
<1>1. IsFiniteSet(s) BY FS_Subset
<1>2. Cardinality(s) \in Nat /\ Cardinality(s) # 0 BY <1>1, FS_CardinalityType, FS_EmptySet
<1>3. ASSUME NEW x \in s
      PROVE  IsFiniteSet(s \ {x}) /\ Cardinality(s \ {x}) = Cardinality(s) - 1
  BY <1>1, FS_RemoveElement
<1> QED BY <1>1, <1>2, <1>3

\* A set of subsets of a finite set that has each subset of which it has all
\* that lack one element, the empty one too, has every subset.
LEMMA SetInduction ==
  ASSUME NEW S, IsFiniteSet(S), NEW C \in SUBSET SUBSET S,
         \A s \in SUBSET S : (\A x \in s : s \ {x} \in C) => s \in C
  PROVE  C = SUBSET S
<1> DEFINE N == {n \in Nat : \A s \in SUBSET S : Cardinality(s) <= n => s \in C}
<1>1. 0 \in N
  <2>1. ASSUME NEW s \in SUBSET S, Cardinality(s) <= 0 PROVE s = {}
    BY <2>1, Smaller
  <2>2. {} \in C OBVIOUS
  <2> QED BY <2>1, <2>2
<1>2. ASSUME NEW n \in N PROVE n + 1 \in N
  <2>1. ASSUME NEW s \in SUBSET S, Cardinality(s) <= n + 1, NEW x \in s
        PROVE  s \ {x} \in C
    <3>1. s # {} OBVIOUS
    <3>2. s \ {x} \in SUBSET S /\ Cardinality(s) \in Nat
          /\ Cardinality(s \ {x}) = Cardinality(s) - 1
      BY <3>1, Smaller
    <3>3. Cardinality(s \ {x}) <= n BY <2>1, <3>2
    <3> QED BY <3>2, <3>3
  <2> QED BY <2>1
<1>3. \A n \in Nat : n \in N
  <2>1. N \in SUBSET Nat OBVIOUS
  <2> HIDE DEF N
  <2> QED BY <1>1, <1>2, <2>1, Induction
<1>4. ASSUME NEW s \in SUBSET S PROVE s \in C
  <2>1. Cardinality(s) \in Nat BY FS_Subset, FS_CardinalityType
  <2>2. Cardinality(s) \in N BY <1>3, <2>1
  <2> QED BY <2>1, <2>2
<1> QED BY <1>4

-----------------------------------------------------------------------------
(***************************************************************************)
(* The fold.                                                               *)
(***************************************************************************)
Pick(s) == CHOOSE x \in s : TRUE

Adds(f, S, g) ==
  g = [s \in SUBSET S |-> IF s = {} THEN 0 ELSE f[Pick(s)] + g[s \ {Pick(s)}]]

LEMMA SumIsFold ==
  ASSUME NEW f, NEW S
  PROVE  SumFunctionOnSet(f, S) = (CHOOSE g : Adds(f, S, g))[S]
BY DEF SumFunctionOnSet, FoldFunctionOnSet, MapThenFoldSet, Adds, Pick

LEMMA Picked ==
  ASSUME NEW s, s # {}
  PROVE  Pick(s) \in s
BY DEF Pick

\* The subsets of S with at most n elements.
Small(S, n) == {s \in SUBSET S : Cardinality(s) <= n}

LEMMA SumsExist ==
  ASSUME NEW S, IsFiniteSet(S), NEW f, \A x \in S : f[x] \in Int
  PROVE  \E g \in [SUBSET S -> Int] : Adds(f, S, g)
<1> DEFINE Next(g, s) == IF s = {} THEN 0 ELSE f[Pick(s)] + g[s \ {Pick(s)}]
           Fits(n) == \E g \in [Small(S, n) -> Int] : \A s \in Small(S, n) : g[s] = Next(g, s)
           N == {n \in Nat : Fits(n)}
<1>1. 0 \in N
  <2>1. \A s \in Small(S, 0) : s = {}
    BY FS_Subset, FS_CardinalityType, FS_EmptySet DEF Small
  <2>2. [s \in Small(S, 0) |-> 0] \in [Small(S, 0) -> Int] OBVIOUS
  <2> QED BY <2>1, <2>2
<1>2. ASSUME NEW n \in N PROVE n + 1 \in N
  <2>1. PICK g \in [Small(S, n) -> Int] : \A s \in Small(S, n) : g[s] = Next(g, s)
    OBVIOUS
  <2> DEFINE h == [s \in Small(S, n + 1) |-> Next(g, s)]
  <2>2. ASSUME NEW s \in Small(S, n + 1), s # {}
        PROVE  s \ {Pick(s)} \in Small(S, n) /\ f[Pick(s)] \in Int
    BY <2>2, Picked, Smaller DEF Small
  <2>3. h \in [Small(S, n + 1) -> Int]
    <3>1. \A s \in Small(S, n + 1) : Next(g, s) \in Int BY <2>1, <2>2
    <3> QED BY <3>1
  <2>4. \A s \in Small(S, n) : s \in Small(S, n + 1)
    BY FS_Subset, FS_CardinalityType DEF Small
  <2>5. \A s \in Small(S, n) : h[s] = g[s] BY <2>1, <2>4
  <2>6. \A s \in Small(S, n + 1) : h[s] = Next(h, s) BY <2>2, <2>5
  <2> HIDE DEF h
  <2>7. Fits(n + 1) BY <2>3, <2>6
  <2> QED BY <2>7
<1> HIDE DEF N
<1>3. Cardinality(S) \in Nat /\ Cardinality(S) \in N
  <2>1. N \in SUBSET Nat BY DEF N
  <2>2. \A n \in Nat : n \in N BY <2>1, <1>1, <1>2, Induction
  <2> QED BY <2>2, FS_CardinalityType
<1>4. \A s \in SUBSET S : s \in Small(S, Cardinality(S)) BY FS_Subset DEF Small
<1>5. Small(S, Cardinality(S)) = SUBSET S BY <1>4 DEF Small
<1>6. PICK g \in [SUBSET S -> Int] : \A s \in SUBSET S : g[s] = Next(g, s)
  BY <1>3, <1>5 DEF N
<1>7. g = [s \in SUBSET S |-> Next(g, s)] BY <1>6
<1> QED BY <1>6, <1>7 DEF Adds

\* Two such folds agree where their functions do.
LEMMA FoldsAgree ==
  ASSUME NEW S, NEW T, IsFiniteSet(T), T \subseteq S,
         NEW f, NEW e, \A x \in T : f[x] = e[x],
         NEW g, Adds(f, S, g), NEW h, Adds(e, T, h)
  PROVE  \A s \in SUBSET T : g[s] = h[s]
<1> DEFINE Agree == {s \in SUBSET T : g[s] = h[s]}
<1>1. ASSUME NEW s \in SUBSET T, \A x \in s : s \ {x} \in Agree
      PROVE  s \in Agree
  <2>1. s \in SUBSET S OBVIOUS
  <2>2. CASE s = {} BY <2>1, <2>2 DEF Adds
  <2>3. CASE s # {}
    <3>1. s \ {Pick(s)} \in Agree /\ f[Pick(s)] = e[Pick(s)]
      BY <1>1, <2>3, Picked
    <3>2. g[s] = f[Pick(s)] + g[s \ {Pick(s)}] BY <2>1, <2>3 DEF Adds
    <3>3. h[s] = e[Pick(s)] + h[s \ {Pick(s)}] BY <2>3 DEF Adds
    <3> QED BY <3>1, <3>2, <3>3
  <2> QED BY <2>2, <2>3
<1>2. Agree \in SUBSET SUBSET T OBVIOUS
<1> HIDE DEF Agree
<1>3. Agree = SUBSET T BY <1>1, <1>2, SetInduction
<1> QED BY <1>3 DEF Agree

-----------------------------------------------------------------------------
(***************************************************************************)
(* The sum.                                                                *)
(***************************************************************************)
Summable(f, S) == IsFiniteSet(S) /\ \A x \in S : f[x] \in Int

\* g gives the sum over each subset of S.
SumsUp(f, S, g) ==
  /\ g \in [SUBSET S -> Int]
  /\ Adds(f, S, g)
  /\ \A T \in SUBSET S : SumFunctionOnSet(f, T) = g[T]

LEMMA SumOfFold ==
  ASSUME NEW S, NEW f, Summable(f, S)
  PROVE  \E g : SumsUp(f, S, g)
<1> DEFINE G == CHOOSE g : Adds(f, S, g)
<1>1. Adds(f, S, G) /\ G \in [SUBSET S -> Int]
  <2>1. PICK h \in [SUBSET S -> Int] : Adds(f, S, h) BY SumsExist DEF Summable
  <2>2. Adds(f, S, G) BY <2>1
  <2>3. \A s \in SUBSET S : G[s] = h[s] BY <2>1, <2>2, FoldsAgree DEF Summable
  <2>4. G = [s \in SUBSET S |-> G[s]] BY <2>2 DEF Adds
  <2> HIDE DEF G
  <2> QED BY <2>1, <2>2, <2>3, <2>4
<1> HIDE DEF G
<1>2. ASSUME NEW T \in SUBSET S PROVE SumFunctionOnSet(f, T) = G[T]
  <2> DEFINE H == CHOOSE h : Adds(f, T, h)
  <2>1. IsFiniteSet(T) /\ \A x \in T : f[x] \in Int BY FS_Subset DEF Summable
  <2>2. \E h : Adds(f, T, h) BY <2>1, SumsExist
  <2>3. Adds(f, T, H) BY <2>2
  <2>4. SumFunctionOnSet(f, T) = H[T] BY SumIsFold
  <2> HIDE DEF H
  <2>5. G[T] = H[T] BY <1>1, <2>1, <2>3, FoldsAgree
  <2> QED BY <2>4, <2>5
<1>3. SumsUp(f, S, G) BY <1>1, <1>2 DEF SumsUp
<1> QED BY <1>3

LEMMA SumEmpty == ASSUME NEW f PROVE SumFunctionOnSet(f, {}) = 0
<1>1. Summable(f, {}) BY FS_EmptySet DEF Summable
<1>2. PICK g : SumsUp(f, {}, g) BY <1>1, SumOfFold
<1>3. g[{}] = 0 /\ SumFunctionOnSet(f, {}) = g[{}] BY <1>2 DEF SumsUp, Adds
<1> QED BY <1>3

LEMMA SumInt ==
  ASSUME NEW S, NEW f, Summable(f, S)
  PROVE  SumFunctionOnSet(f, S) \in Int
<1>1. PICK g : SumsUp(f, S, g) BY SumOfFold
<1> QED BY <1>1 DEF SumsUp

\* Functions that agree on a set have the same sum over it.
LEMMA SumSame ==
  ASSUME NEW S, NEW f, NEW e, Summable(f, S), \A x \in S : f[x] = e[x]
  PROVE  SumFunctionOnSet(f, S) = SumFunctionOnSet(e, S)
<1>1. Summable(e, S) BY DEF Summable
<1>2. PICK g : SumsUp(f, S, g) BY SumOfFold
<1>3. PICK h : SumsUp(e, S, h) BY <1>1, SumOfFold
<1>4. g[S] = h[S] BY <1>2, <1>3, FoldsAgree DEF SumsUp, Summable
<1> QED BY <1>2, <1>3, <1>4 DEF SumsUp

\* It does not matter which element is taken first.
LEMMA SumTake ==
  ASSUME NEW S, NEW f, Summable(f, S), NEW x \in S
  PROVE  SumFunctionOnSet(f, S) = f[x] + SumFunctionOnSet(f, S \ {x})
<1>1. PICK g : SumsUp(f, S, g) BY SumOfFold
<1>2. ASSUME NEW s \in SUBSET S, s # {}
      PROVE  /\ g[s] = f[Pick(s)] + g[s \ {Pick(s)}]
             /\ Pick(s) \in s
             /\ \A y \in s : /\ s \ {y} \in SUBSET S /\ Cardinality(s) \in Nat
                             /\ Cardinality(s \ {y}) = Cardinality(s) - 1
  BY <1>1, <1>2, Picked, Smaller DEF SumsUp, Adds, Summable
<1> DEFINE C == {s \in SUBSET S : \A y \in s : g[s] = f[y] + g[s \ {y}]}
<1>3. ASSUME NEW s \in SUBSET S, \A y \in s : s \ {y} \in C
      PROVE  s \in C
  <2> SUFFICES ASSUME NEW y \in s PROVE g[s] = f[y] + g[s \ {y}]
    OBVIOUS
  <2> DEFINE p == Pick(s)
  <2>1. p \in s /\ g[s] = f[p] + g[s \ {p}] BY <1>2
  <2> HIDE DEF p
  <2>2. CASE p = y BY <2>1, <2>2
  <2>3. CASE p # y
    <3>1. g[s \ {p}] = f[y] + g[(s \ {p}) \ {y}]
      <4>1. y \in s \ {p} /\ s \ {p} \in C BY <1>3, <2>1, <2>3
      <4> QED BY <4>1
    <3>2. g[s \ {y}] = f[p] + g[(s \ {y}) \ {p}]
      <4>1. p \in s \ {y} /\ s \ {y} \in C BY <1>3, <2>1, <2>3
      <4> QED BY <4>1
    <3>3. (s \ {p}) \ {y} = (s \ {y}) \ {p} OBVIOUS
    <3>4. f[p] \in Int /\ f[y] \in Int /\ g[(s \ {p}) \ {y}] \in Int
      BY <1>1, <2>1 DEF SumsUp, Summable
    <3>5. g[s \ {y}] = f[p] + g[(s \ {p}) \ {y}] BY <3>2, <3>3
    <3> HIDE DEF C
    <3> QED BY <2>1, <3>1, <3>4, <3>5
  <2> QED BY <2>2, <2>3
<1>4. C \in SUBSET SUBSET S /\ IsFiniteSet(S) BY DEF Summable
<1>5. S \in C
  <2> HIDE DEF C
  <2>1. C = SUBSET S BY <1>3, <1>4, SetInduction
  <2> QED BY <2>1
<1>6. g[S] = f[x] + g[S \ {x}] BY <1>5
<1> QED BY <1>1, <1>6 DEF SumsUp

\* A set with a new element.
LEMMA SumAdd ==
  ASSUME NEW S, NEW f, Summable(f, S), NEW x, x \notin S, f[x] \in Int
  PROVE  /\ Summable(f, S \cup {x})
         /\ SumFunctionOnSet(f, S \cup {x}) = SumFunctionOnSet(f, S) + f[x]
<1>1. Summable(f, S \cup {x}) BY FS_AddElement DEF Summable
<1>2. (S \cup {x}) \ {x} = S OBVIOUS
<1>3. SumFunctionOnSet(f, S \cup {x}) = f[x] + SumFunctionOnSet(f, S)
  BY <1>1, <1>2, SumTake
<1> QED BY <1>1, <1>3, SumInt

\* One value of a function changes.
LEMMA SumBump ==
  ASSUME NEW S, NEW f, Summable(f, S), NEW x \in S, NEW e, e[x] \in Int,
         \A y \in S \ {x} : e[y] = f[y]
  PROVE  SumFunctionOnSet(e, S) = SumFunctionOnSet(f, S) + (e[x] - f[x])
<1>1. Summable(e, S) BY DEF Summable
<1>2. Summable(f, S \ {x}) BY FS_RemoveElement DEF Summable
<1>3. SumFunctionOnSet(f, S) = f[x] + SumFunctionOnSet(f, S \ {x}) BY SumTake
<1>4. SumFunctionOnSet(e, S) = e[x] + SumFunctionOnSet(e, S \ {x})
  BY <1>1, SumTake
<1>5. SumFunctionOnSet(f, S \ {x}) = SumFunctionOnSet(e, S \ {x})
  BY <1>2, SumSame
<1>6. SumFunctionOnSet(f, S \ {x}) \in Int BY <1>2, SumInt
<1>7. f[x] \in Int BY DEF Summable
<1> QED BY <1>3, <1>4, <1>5, <1>6, <1>7

\* Values that are not below others do not add up to less.
LEMMA SumMonotone ==
  ASSUME NEW S, NEW f, Summable(f, S), NEW e, Summable(e, S),
         \A x \in S : f[x] <= e[x]
  PROVE  SumFunctionOnSet(f, S) <= SumFunctionOnSet(e, S)
<1> DEFINE Sum(h, s) == SumFunctionOnSet(h, s)
           C == {s \in SUBSET S : Sum(f, s) <= Sum(e, s)}
<1>1. ASSUME NEW s \in SUBSET S, \A x \in s : s \ {x} \in C
      PROVE  s \in C
  <2>1. CASE s = {} BY <2>1, SumEmpty
  <2>2. CASE s # {}
    <3>1. PICK x \in s : TRUE BY <2>2
    <3>2. Summable(f, s) /\ Summable(e, s) BY FS_Subset DEF Summable
    <3>3. Summable(f, s \ {x}) /\ Summable(e, s \ {x})
      BY <3>2, FS_RemoveElement DEF Summable
    <3>4. Sum(f, s) = f[x] + Sum(f, s \ {x}) /\ Sum(e, s) = e[x] + Sum(e, s \ {x})
      BY <3>2, SumTake
    <3>5. Sum(f, s \ {x}) \in Int /\ Sum(e, s \ {x}) \in Int BY <3>3, SumInt
    <3>6. Sum(f, s \ {x}) <= Sum(e, s \ {x}) BY <1>1
    <3>7. f[x] \in Int /\ e[x] \in Int /\ f[x] <= e[x] BY DEF Summable
    <3> HIDE DEF Sum
    <3>8. Sum(f, s) <= Sum(e, s) BY <3>4, <3>5, <3>6, <3>7
    <3> QED BY <3>8
  <2> QED BY <2>1, <2>2
<1>2. C \in SUBSET SUBSET S /\ IsFiniteSet(S) BY DEF Summable
<1>3. S \in C
  <2> HIDE DEF C
  <2>1. C = SUBSET S BY <1>1, <1>2, SetInduction
  <2> QED BY <2>1
<1> QED BY <1>3

\* A sum of naturals is a natural, and more of them do not add up to less.
LEMMA SumNat ==
  ASSUME NEW S, IsFiniteSet(S), NEW f, \A x \in S : f[x] \in Nat
  PROVE  SumFunctionOnSet(f, S) \in Nat
<1> DEFINE C == {s \in SUBSET S : SumFunctionOnSet(f, s) \in Nat}
<1>1. ASSUME NEW s \in SUBSET S, \A x \in s : s \ {x} \in C
      PROVE  s \in C
  <2>1. CASE s = {} BY <2>1, SumEmpty
  <2>2. CASE s # {}
    <3>1. PICK x \in s : TRUE BY <2>2
    <3>2. Summable(f, s) BY FS_Subset DEF Summable
    <3>3. SumFunctionOnSet(f, s) = f[x] + SumFunctionOnSet(f, s \ {x})
      BY <3>2, SumTake
    <3>4. SumFunctionOnSet(f, s \ {x}) \in Nat /\ f[x] \in Nat BY <1>1
    <3> QED BY <3>3, <3>4
  <2> QED BY <2>1, <2>2
<1>2. C \in SUBSET SUBSET S OBVIOUS
<1>3. S \in C
  <2> HIDE DEF C
  <2>1. C = SUBSET S BY <1>1, <1>2, SetInduction
  <2> QED BY <2>1
<1> QED BY <1>3

LEMMA SumZero ==
  ASSUME NEW S, IsFiniteSet(S), NEW f, \A x \in S : f[x] = 0
  PROVE  SumFunctionOnSet(f, S) = 0
<1> DEFINE C == {s \in SUBSET S : SumFunctionOnSet(f, s) = 0}
<1>1. ASSUME NEW s \in SUBSET S, \A x \in s : s \ {x} \in C
      PROVE  s \in C
  <2>1. CASE s = {} BY <2>1, SumEmpty
  <2>2. CASE s # {}
    <3>1. PICK x \in s : TRUE BY <2>2
    <3>2. Summable(f, s) BY FS_Subset DEF Summable
    <3>3. SumFunctionOnSet(f, s) = f[x] + SumFunctionOnSet(f, s \ {x})
      BY <3>2, SumTake
    <3> QED BY <1>1, <3>3
  <2> QED BY <2>1, <2>2
<1>2. C \in SUBSET SUBSET S OBVIOUS
<1>3. S \in C
  <2> HIDE DEF C
  <2>1. C = SUBSET S BY <1>1, <1>2, SetInduction
  <2> QED BY <2>1
<1> QED BY <1>3
=============================================================================
