----------------------------- MODULE FoldProofs -----------------------------
(***************************************************************************)
(* What the folds of the models are: sums over a set, and lists that are   *)
(* built item by item.  A sum of any finite set of amounts does not depend *)
(* on the order in which they are added, so that one amount that changes   *)
(* changes the sum by as much; a list that is built keeps what each step   *)
(* keeps.  The recursion under a fold is shown to have a solution first,   *)
(* by induction over the size of the set.                                  *)
(***************************************************************************)
EXTENDS Common, FiniteSetTheorems, WellFoundedInduction, TLAPS

\* Induction over the natural numbers, of a set of them.
LEMMA SetInduction ==
  ASSUME NEW T, 0 \in T, \A n \in Nat : n \in T => n + 1 \in T
  PROVE  Nat \subseteq T
<1> SUFFICES ASSUME Nat \ T # {} PROVE FALSE
  OBVIOUS
<1>1. PICK n \in Nat \ T : \A m \in Nat \ T : ~(<<m, n>> \in OpToRel(<, Nat))
  BY WFMin, NatLessThanWellFounded
<1>0. n # 0
  BY <1>1
<1>2. n - 1 \in Nat /\ n - 1 < n /\ (n - 1) + 1 = n
  BY <1>0
<1>3. <<n - 1, n>> \in OpToRel(<, Nat)
  BY <1>2 DEF OpToRel
<1>4. n - 1 \in T
  BY <1>1, <1>2, <1>3
<1> QED  BY <1>1, <1>2, <1>4

One(S) == CHOOSE x \in S : TRUE

\* What the recursion says of a function on a family of sets.
Adds(g, fun, Sets) ==
  \A s \in Sets : g[s] = IF s = {} THEN 0 ELSE fun[One(s)] + g[s \ {One(s)}]

Ints(fun, S) == \A x \in S : fun[x] \in Int
UpTo(S, n) == {s \in SUBSET S : Cardinality(s) <= n}

\* The size of a set without the element that is taken.
LEMMA Smaller ==
  ASSUME NEW S, IsFiniteSet(S), NEW s \in SUBSET S
  PROVE  /\ IsFiniteSet(s) /\ Cardinality(s) \in Nat
         /\ Cardinality(s) = 0 <=> s = {}
         /\ \A x \in s : /\ s \ {x} \in SUBSET S
                         /\ Cardinality(s \ {x}) = Cardinality(s) - 1
         /\ s # {} => One(s) \in s
<1>1. IsFiniteSet(s) /\ Cardinality(s) \in Nat
  BY FS_Subset, FS_CardinalityType
<1>2. Cardinality(s) = 0 <=> s = {}
  BY <1>1, FS_EmptySet
<1>3. \A x \in s : Cardinality(s \ {x}) = Cardinality(s) - 1
  BY <1>1, FS_RemoveElement
<1> QED  BY <1>1, <1>2, <1>3 DEF One

\* The recursion has a solution.
LEMMA AddsExists ==
  ASSUME NEW S, IsFiniteSet(S), NEW fun, Ints(fun, S)
  PROVE  \E g \in [SUBSET S -> Int] : Adds(g, fun, SUBSET S)
<1> DEFINE T == {n \in Nat : \E g \in [UpTo(S, n) -> Int] : Adds(g, fun, UpTo(S, n))}
<1>1. 0 \in T
  <2>1. \A s \in UpTo(S, 0) : s = {}
    BY Smaller DEF UpTo
  <2>2. Adds([s \in UpTo(S, 0) |-> 0], fun, UpTo(S, 0))
    BY <2>1 DEF Adds
  <2>3. [s \in UpTo(S, 0) |-> 0] \in [UpTo(S, 0) -> Int]
    OBVIOUS
  <2> QED  BY <2>2, <2>3
<1>2. ASSUME NEW n \in Nat, n \in T PROVE n + 1 \in T
  <2>1. PICK g \in [UpTo(S, n) -> Int] : Adds(g, fun, UpTo(S, n))
    BY <1>2
  <2> DEFINE h == [s \in UpTo(S, n + 1) |-> IF s = {} THEN 0 ELSE fun[One(s)] + g[s \ {One(s)}]]
  <2>2. ASSUME NEW s \in UpTo(S, n + 1), s # {}
        PROVE  s \ {One(s)} \in UpTo(S, n) /\ fun[One(s)] \in Int
    BY <2>2, Smaller DEF UpTo, Ints
  <2>3. h \in [UpTo(S, n + 1) -> Int]
    BY <2>1, <2>2 DEF Adds
  <2>4. ASSUME NEW s \in UpTo(S, n) PROVE s \in UpTo(S, n + 1) /\ h[s] = g[s]
    <3>1. s \in UpTo(S, n + 1)
      BY Smaller DEF UpTo
    <3> QED  BY <2>1, <3>1 DEF Adds
  <2> HIDE DEF h
  <2>5. ASSUME NEW s \in UpTo(S, n + 1), s # {} PROVE h[s] = fun[One(s)] + h[s \ {One(s)}]
    BY <2>2, <2>4, <2>5 DEF h
  <2>6. {} \in UpTo(S, n + 1) => h[{}] = 0
    BY DEF h
  <2>7. Adds(h, fun, UpTo(S, n + 1))
    BY <2>3, <2>5, <2>6 DEF Adds
  <2> QED  BY <2>3, <2>7
<1>3. Nat \subseteq T
  <2> HIDE DEF T
  <2> QED  BY <1>1, <1>2, SetInduction
<1>4. PICK g \in [UpTo(S, Cardinality(S)) -> Int] : Adds(g, fun, UpTo(S, Cardinality(S)))
  BY <1>3, FS_CardinalityType
<1>5. UpTo(S, Cardinality(S)) = SUBSET S
  BY FS_Subset DEF UpTo
<1> QED  BY <1>4, <1>5

\* It is the only one, on the sets that two such families have in common.
LEMMA AddsUnique ==
  ASSUME NEW S, IsFiniteSet(S), NEW fun, NEW gun, Ints(fun, S),
         \A x \in S : gun[x] = fun[x], NEW Q, NEW R, S \subseteq Q, S \subseteq R,
         NEW g, NEW h, Adds(g, fun, SUBSET Q), Adds(h, gun, SUBSET R)
  PROVE  g[S] = h[S]
<1> DEFINE T == {n \in Nat : \A s \in SUBSET S : Cardinality(s) = n => g[s] = h[s]}
<1>1. 0 \in T
  BY Smaller DEF Adds
<1>2. ASSUME NEW n \in Nat, n \in T PROVE n + 1 \in T
  <2> SUFFICES ASSUME NEW s \in SUBSET S, Cardinality(s) = n + 1 PROVE g[s] = h[s]
    OBVIOUS
  <2>1. s # {} /\ One(s) \in S /\ s \ {One(s)} \in SUBSET S /\ Cardinality(s \ {One(s)}) = n
    BY Smaller
  <2>2. g[s \ {One(s)}] = h[s \ {One(s)}]
    BY <1>2, <2>1
  <2> QED  BY <2>1, <2>2 DEF Adds
<1>3. Nat \subseteq T
  <2> HIDE DEF T
  <2> QED  BY <1>1, <1>2, SetInduction
<1> QED  BY <1>3, FS_CardinalityType

\* In particular, any two agree on the whole set.
LEMMA AddsSame ==
  ASSUME NEW S, IsFiniteSet(S), NEW fun, Ints(fun, S), NEW g, NEW h,
         Adds(g, fun, SUBSET S), Adds(h, fun, SUBSET S)
  PROVE  g[S] = h[S]
BY AddsUnique

\* SumFunctionOnSet is that solution.
LEMMA SumAdds ==
  ASSUME NEW S, IsFiniteSet(S), NEW fun, Ints(fun, S)
  PROVE  \E g \in [SUBSET S -> Int] : Adds(g, fun, SUBSET S) /\ SumFunctionOnSet(fun, S) = g[S]
<1> DEFINE Iter(g) == g = [s \in SUBSET S |-> IF s = {} THEN 0
                                              ELSE fun[One(s)] + g[s \ {One(s)}]]
<1>1. SumFunctionOnSet(fun, S) = (CHOOSE g : Iter(g))[S]
  BY DEF SumFunctionOnSet, FoldFunctionOnSet, MapThenFoldSet, One
<1>2. PICK h \in [SUBSET S -> Int] : Adds(h, fun, SUBSET S)
  BY AddsExists
<1>3. Iter(h)
  BY <1>2 DEF Adds
<1>4. PICK g : Iter(g) /\ SumFunctionOnSet(fun, S) = g[S]
  BY <1>1, <1>3
<1>5. Adds(g, fun, SUBSET S)
  BY <1>4 DEF Adds
<1>6. h[S] = g[S]
  <2> HIDE DEF Iter
  <2> QED  BY <1>2, <1>5, AddsSame
<1> QED  BY <1>2, <1>4, <1>6

-----------------------------------------------------------------------------
(* The laws of sums.                                                       *)

\* Functions that agree have the same sum.
LEMMA SumAgree ==
  ASSUME NEW S, IsFiniteSet(S), NEW fun, NEW gun, Ints(fun, S),
         \A x \in S : gun[x] = fun[x]
  PROVE  SumFunctionOnSet(fun, S) = SumFunctionOnSet(gun, S)
<1>1. Ints(gun, S)
  BY DEF Ints
<1>2. PICK g : Adds(g, fun, SUBSET S) /\ SumFunctionOnSet(fun, S) = g[S]
  BY SumAdds
<1>3. PICK h : Adds(h, gun, SUBSET S) /\ SumFunctionOnSet(gun, S) = h[S]
  BY <1>1, SumAdds
<1> QED  BY <1>2, <1>3, AddsUnique

\* One step of the recursion.
LEMMA SumUnfold ==
  ASSUME NEW S, IsFiniteSet(S), NEW fun, Ints(fun, S)
  PROVE  /\ SumFunctionOnSet(fun, S) \in Int
         /\ SumFunctionOnSet(fun, S) =
              IF S = {} THEN 0 ELSE fun[One(S)] + SumFunctionOnSet(fun, S \ {One(S)})
<1>1. PICK g \in [SUBSET S -> Int] : Adds(g, fun, SUBSET S) /\ SumFunctionOnSet(fun, S) = g[S]
  BY SumAdds
<1>2. S \in SUBSET S
  OBVIOUS
<1>3. S = {} => SumFunctionOnSet(fun, S) = 0
  BY <1>1, <1>2 DEF Adds
<1>4. ASSUME S # {}
      PROVE  SumFunctionOnSet(fun, S) = fun[One(S)] + SumFunctionOnSet(fun, S \ {One(S)})
  <2> DEFINE R == S \ {One(S)}
  <2>1. IsFiniteSet(R) /\ Ints(fun, R)
    BY FS_Subset DEF Ints
  <2>2. PICK h \in [SUBSET R -> Int] : Adds(h, fun, SUBSET R) /\ SumFunctionOnSet(fun, R) = h[R]
    BY <2>1, SumAdds
  <2>3. g[R] = h[R]
    <3>1. R \subseteq S /\ R \subseteq R /\ \A x \in R : fun[x] = fun[x]
      OBVIOUS
    <3> HIDE DEF R
    <3> QED  BY <1>1, <2>1, <2>2, <3>1, AddsUnique
  <2>4. g[S] = fun[One(S)] + g[R]
    BY <1>1, <1>2, <1>4 DEF Adds
  <2> QED  BY <1>1, <2>2, <2>3, <2>4
<1> QED  BY <1>1, <1>3, <1>4

\* The sum of integers is one, and any element may be taken first.
LEMMA SumTake ==
  ASSUME NEW S, IsFiniteSet(S), NEW fun, Ints(fun, S), NEW x \in S
  PROVE  /\ SumFunctionOnSet(fun, S \ {x}) \in Int
         /\ SumFunctionOnSet(fun, S) = fun[x] + SumFunctionOnSet(fun, S \ {x})
<1> DEFINE sum == [s \in SUBSET S |-> SumFunctionOnSet(fun, s)]
           T == {n \in Nat : \A s \in SUBSET S : Cardinality(s) = n =>
                               \A y \in s : sum[s] = fun[y] + sum[s \ {y}]}
<1>0. \A s \in SUBSET S : /\ IsFiniteSet(s) /\ Ints(fun, s) /\ sum[s] \in Int
                          /\ s # {} => sum[s] = fun[One(s)] + sum[s \ {One(s)}]
  <2> SUFFICES ASSUME NEW s \in SUBSET S
               PROVE  /\ IsFiniteSet(s) /\ Ints(fun, s) /\ sum[s] \in Int
                      /\ s # {} => sum[s] = fun[One(s)] + sum[s \ {One(s)}]
    OBVIOUS
  <2>1. IsFiniteSet(s) /\ Ints(fun, s)
    BY FS_Subset DEF Ints
  <2> QED  BY <2>1, SumUnfold
<1>a. \A s \in SUBSET S : sum[s] \in Int
  BY <1>0
<1>b. \A s \in SUBSET S : s # {} => sum[s] = fun[One(s)] + sum[s \ {One(s)}]
  BY <1>0
<1> HIDE DEF sum
<1>1. 0 \in T
  BY Smaller
<1>2. ASSUME NEW n \in Nat, n \in T PROVE n + 1 \in T
  <2> SUFFICES ASSUME NEW s \in SUBSET S, Cardinality(s) = n + 1, NEW y \in s
               PROVE  sum[s] = fun[y] + sum[s \ {y}]
    OBVIOUS
  <2> DEFINE z == One(s)
  <2>1. z \in s /\ sum[s] = fun[z] + sum[s \ {z}]
    <3>1. s # {}
      OBVIOUS
    <3>2. sum[s] = fun[z] + sum[s \ {z}]
      BY <3>1, <1>b
    <3>3. z \in s
      BY <3>1, Smaller
    <3> QED  BY <3>2, <3>3
  <2> HIDE DEF z
  <2>2. CASE z = y
    BY <2>1, <2>2
  <2>3. CASE z # y
    <3>1. y \in s \ {z} /\ z \in s \ {y} /\ (s \ {z}) \ {y} = (s \ {y}) \ {z}
      BY <2>1, <2>3
    <3>2. /\ Cardinality(s \ {z}) = n /\ s \ {z} \in SUBSET S
          /\ Cardinality(s \ {y}) = n /\ s \ {y} \in SUBSET S
      BY <2>1, Smaller
    <3>3. /\ sum[s \ {z}] = fun[y] + sum[(s \ {z}) \ {y}]
          /\ sum[s \ {y}] = fun[z] + sum[(s \ {y}) \ {z}]
      BY <1>2, <3>1, <3>2
    <3>4. fun[y] \in Int /\ fun[z] \in Int /\ sum[(s \ {y}) \ {z}] \in Int
      <4>1. (s \ {y}) \ {z} \in SUBSET S /\ y \in S /\ z \in S
        BY <2>1
      <4>2. fun[y] \in Int /\ fun[z] \in Int
        BY <4>1 DEF Ints
      <4>3. sum[(s \ {y}) \ {z}] \in Int
        BY <1>a, <4>1
      <4> QED  BY <4>2, <4>3
    <3>5. \A a, b, c \in Int : a + (b + c) = b + (a + c)
      OBVIOUS
    <3>6. sum[s] = fun[z] + (fun[y] + sum[(s \ {y}) \ {z}])
      BY <2>1, <3>1, <3>3
    <3>7. sum[s] = fun[y] + (fun[z] + sum[(s \ {y}) \ {z}])
      BY <3>4, <3>5, <3>6
    <3> QED  BY <3>3, <3>7
  <2> QED  BY <2>2, <2>3
<1>3. Nat \subseteq T
  <2> HIDE DEF T
  <2> QED  BY <1>1, <1>2, SetInduction
<1>4. sum[S] = fun[x] + sum[S \ {x}]
  BY <1>3, FS_CardinalityType
<1>5. S \ {x} \in SUBSET S
  OBVIOUS
<1>6. sum[S \ {x}] \in Int
  BY <1>a, <1>5
<1>7. sum[S \ {x}] = SumFunctionOnSet(fun, S \ {x}) /\ sum[S] = SumFunctionOnSet(fun, S)
  BY <1>5 DEF sum
<1> QED  BY <1>4, <1>6, <1>7

\* One amount more, and one amount that changes.
LEMMA SumPut ==
  ASSUME NEW S, IsFiniteSet(S), NEW x, NEW fun, NEW gun, Ints(fun, S),
         gun[x] \in Int, \A y \in S \ {x} : gun[y] = fun[y]
  PROVE  /\ SumFunctionOnSet(gun, S \union {x}) \in Int
         /\ SumFunctionOnSet(gun, S \union {x}) =
              SumFunctionOnSet(fun, S) + gun[x] - (IF x \in S THEN fun[x] ELSE 0)
<1> DEFINE R == S \ {x}
<1>1. IsFiniteSet(R) /\ IsFiniteSet(S \union {x}) /\ (S \union {x}) \ {x} = R
  BY FS_Subset, FS_AddElement
<1>2. Ints(gun, S \union {x}) /\ Ints(fun, R)
  BY DEF Ints
<1>3. SumFunctionOnSet(gun, S \union {x}) = gun[x] + SumFunctionOnSet(gun, R)
  BY <1>1, <1>2, SumTake
<1>4. SumFunctionOnSet(fun, R) = SumFunctionOnSet(gun, R) /\ SumFunctionOnSet(fun, R) \in Int
  BY <1>1, <1>2, SumAgree, SumUnfold
<1>5. CASE x \in S
  <2>1. SumFunctionOnSet(fun, S) = fun[x] + SumFunctionOnSet(fun, R) /\ fun[x] \in Int
    BY <1>5, SumTake DEF Ints
  <2> QED  BY <1>3, <1>4, <1>5, <2>1
<1>6. CASE x \notin S
  <2>1. R = S
    BY <1>6
  <2>2. SumFunctionOnSet(gun, S \union {x}) = SumFunctionOnSet(fun, S) + gun[x] - 0
    <3>1. \A a, b \in Int : a + b = b + a - 0
      OBVIOUS
    <3>2. gun[x] \in Int
      OBVIOUS
    <3> QED  BY <1>3, <1>4, <2>1, <3>1, <3>2
  <2>3. gun[x] \in Int
    OBVIOUS
  <2>4. (IF x \in S THEN fun[x] ELSE 0) = 0
    BY <1>6
  <2>5. /\ SumFunctionOnSet(fun, S) \in Int
        /\ SumFunctionOnSet(gun, S \union {x}) =
             SumFunctionOnSet(fun, S) + gun[x] - (IF x \in S THEN fun[x] ELSE 0)
    BY <1>4, <2>1, <2>2, <2>4
  <2> QED  BY <2>2, <2>3, <2>5
<1> QED  BY <1>5, <1>6
\* The sum of nothing but zeros.
LEMMA ZeroSum ==
  ASSUME NEW S, IsFiniteSet(S), NEW fun, \A x \in S : fun[x] = 0
  PROVE  SumFunctionOnSet(fun, S) = 0
<1> DEFINE T == {n \in Nat : \A s \in SUBSET S : Cardinality(s) = n => SumFunctionOnSet(fun, s) = 0}
<1>0. ASSUME NEW s \in SUBSET S
      PROVE  /\ SumFunctionOnSet(fun, s) \in Int
             /\ SumFunctionOnSet(fun, s) =
                  IF s = {} THEN 0 ELSE fun[One(s)] + SumFunctionOnSet(fun, s \ {One(s)})
  <2>1. IsFiniteSet(s) /\ Ints(fun, s)
    BY FS_Subset DEF Ints
  <2> QED  BY <2>1, SumUnfold
<1>1. 0 \in T
  BY <1>0, Smaller
<1>2. ASSUME NEW n \in Nat, n \in T PROVE n + 1 \in T
  <2> SUFFICES ASSUME NEW s \in SUBSET S, Cardinality(s) = n + 1
               PROVE  SumFunctionOnSet(fun, s) = 0
    OBVIOUS
  <2>1. s # {} /\ One(s) \in S /\ s \ {One(s)} \in SUBSET S /\ Cardinality(s \ {One(s)}) = n
    BY Smaller
  <2>2. SumFunctionOnSet(fun, s \ {One(s)}) = 0
    BY <1>2, <2>1
  <2> QED  BY <1>0, <2>1, <2>2
<1>3. Nat \subseteq T
  <2> HIDE DEF T
  <2> QED  BY <1>1, <1>2, SetInduction
<1> QED  BY <1>3, FS_CardinalityType

-----------------------------------------------------------------------------
(* Lists that are built item by item.                                      *)

\* The largest of finitely many numbers is one of them.
LEMMA MaxMember ==
  ASSUME NEW S, IsFiniteSet(S), S # {}, S \subseteq Int
  PROVE  Max(S) \in S /\ \A y \in S : Max(S) >= y
<1> DEFINE T == {n \in Nat : \A s \in SUBSET S : s # {} /\ Cardinality(s) = n =>
                               \E x \in s : \A y \in s : x >= y}
<1>1. 0 \in T
  BY Smaller
<1>2. ASSUME NEW n \in Nat, n \in T PROVE n + 1 \in T
  <2> SUFFICES ASSUME NEW s \in SUBSET S, s # {}, Cardinality(s) = n + 1
               PROVE  \E x \in s : \A y \in s : x >= y
    OBVIOUS
  <2>1. PICK z \in s : TRUE
    OBVIOUS
  <2>2. s \ {z} \in SUBSET S /\ Cardinality(s \ {z}) = n
    <3>1. s \ {z} \in SUBSET S /\ Cardinality(s \ {z}) = Cardinality(s) - 1
      BY Smaller
    <3> QED  BY <3>1
  <2>3. CASE s \ {z} = {}
    <3>1. \A y \in s : y = z
      BY <2>3
    <3> QED  BY <3>1
  <2>4. CASE s \ {z} # {}
    <3>1. PICK x \in s \ {z} : \A y \in s \ {z} : x >= y
      BY <1>2, <2>2, <2>4
    <3>2. x \in Int /\ z \in Int /\ \A y \in s : y \in Int
      OBVIOUS
    <3>3. CASE x >= z
      BY <3>1, <3>2, <3>3
    <3>4. CASE z >= x
      BY <3>1, <3>2, <3>4
    <3> QED  BY <3>2, <3>3, <3>4
  <2> QED  BY <2>3, <2>4
<1> HIDE DEF T
<1>3. Nat \subseteq T
  BY <1>1, <1>2, SetInduction
<1>4. Cardinality(S) \in T
  BY <1>3, FS_CardinalityType
<1>5. \E x \in S : \A y \in S : x >= y
  BY <1>4 DEF T
<1> QED  BY <1>5 DEF Max

\* Where a fold takes the last of the first positions, and what is left.
LEMMA LastPosition ==
  ASSUME NEW n \in Nat
  PROVE  /\ \A s \in SUBSET (1..n) : /\ IsFiniteSet(s)
                                     /\ s # {} => Max(s) \in s /\ Max(s) \in 1..n
         /\ \A k \in 1..n : Max(1..k) = k /\ (1..k) \ {Max(1..k)} = 1..(k - 1)
<1>1. ASSUME NEW s \in SUBSET (1..n)
      PROVE  IsFiniteSet(s) /\ (s # {} => Max(s) \in s /\ Max(s) \in 1..n)
  <2>1. IsFiniteSet(1..n)
    BY FS_Interval
  <2>2. IsFiniteSet(s)
    BY <2>1, FS_Subset
  <2>3. s \subseteq Int
    OBVIOUS
  <2>4. s # {} => Max(s) \in s
    BY <2>2, <2>3, MaxMember
  <2> QED  BY <2>2, <2>4
<1>2. ASSUME NEW k \in 1..n PROVE Max(1..k) = k /\ (1..k) \ {Max(1..k)} = 1..(k - 1)
  <2>0. IsFiniteSet(1..k)
    BY FS_Interval
  <2>1. IsFiniteSet(1..k) /\ 1..k # {} /\ 1..k \subseteq Int /\ k \in 1..k
    BY <2>0
  <2>2. Max(1..k) \in 1..k /\ Max(1..k) >= k
    BY <2>1, MaxMember
  <2>3. Max(1..k) = k
    BY <2>2
  <2> QED  BY <2>3
<1> QED  BY <1>1, <1>2

\* What the recursion says of a function on the sets of positions.
Unfolds(g, n, base, step) ==
  \A s \in SUBSET (1..n) :
    g[s] = IF s = {} THEN base ELSE step[<<Max(s), g[s \ {Max(s)}]>>]

\* The recursion of a fold over positions has a solution, whatever the step.
LEMMA FoldExists ==
  ASSUME NEW n \in Nat, NEW X, NEW base \in X, NEW step \in [(1..n) \X X -> X]
  PROVE  \E g \in [SUBSET (1..n) -> X] : Unfolds(g, n, base, step)
<1> DEFINE S == 1..n
           Solves(g, m) == \A s \in UpTo(S, m) :
             g[s] = IF s = {} THEN base ELSE step[<<Max(s), g[s \ {Max(s)}]>>]
           T == {m \in Nat : \E g \in [UpTo(S, m) -> X] : Solves(g, m)}
<1>0. /\ IsFiniteSet(S)
      /\ \A s \in SUBSET S : s # {} => Max(s) \in s /\ Max(s) \in 1..n
  BY FS_Interval, LastPosition
<1> HIDE DEF S
<1>1. 0 \in T
  <2>1. \A s \in UpTo(S, 0) : s = {}
    BY <1>0, Smaller DEF UpTo
  <2>2. [s \in UpTo(S, 0) |-> base] \in [UpTo(S, 0) -> X]
    OBVIOUS
  <2> QED  BY <2>1, <2>2
<1>2. ASSUME NEW m \in Nat, m \in T PROVE m + 1 \in T
  <2>1. PICK g \in [UpTo(S, m) -> X] : Solves(g, m)
    BY <1>2
  <2> DEFINE h == [s \in UpTo(S, m + 1) |->
                     IF s = {} THEN base ELSE step[<<Max(s), g[s \ {Max(s)}]>>]]
  <2>2. ASSUME NEW s \in UpTo(S, m + 1), s # {}
        PROVE  /\ s \ {Max(s)} \in UpTo(S, m) /\ Max(s) \in 1..n
               /\ step[<<Max(s), g[s \ {Max(s)}]>>] \in X
    <3>1. s \in SUBSET S /\ Cardinality(s) <= m + 1
      BY DEF UpTo
    <3>2. Max(s) \in s /\ Max(s) \in 1..n
      BY <1>0, <2>2, <3>1
    <3>3. /\ s \ {Max(s)} \in SUBSET S /\ Cardinality(s) \in Nat
          /\ Cardinality(s \ {Max(s)}) = Cardinality(s) - 1
      BY <1>0, <3>1, <3>2, Smaller
    <3>4. s \ {Max(s)} \in UpTo(S, m)
      BY <3>1, <3>3 DEF UpTo
    <3> QED  BY <3>2, <3>4
  <2>3. h \in [UpTo(S, m + 1) -> X]
    BY <2>2
  <2>4. ASSUME NEW s \in UpTo(S, m) PROVE s \in UpTo(S, m + 1) /\ h[s] = g[s]
    <3>1. s \in UpTo(S, m + 1)
      BY <1>0, Smaller DEF UpTo
    <3> QED  BY <2>1, <3>1
  <2> HIDE DEF h
  <2>5. ASSUME NEW s \in UpTo(S, m + 1), s # {}
        PROVE  h[s] = step[<<Max(s), h[s \ {Max(s)}]>>]
    BY <2>2, <2>4, <2>5 DEF h
  <2>6. {} \in UpTo(S, m + 1) => h[{}] = base
    BY DEF h
  <2>7. Solves(h, m + 1)
    BY <2>5, <2>6
  <2> HIDE DEF Solves
  <2>8. \E f \in [UpTo(S, m + 1) -> X] : Solves(f, m + 1)
    BY <2>3, <2>7
  <2> QED  BY <2>8
<1>3. Nat \subseteq T
  <2> HIDE DEF T
  <2> QED  BY <1>1, <1>2, SetInduction
<1>4. PICK g \in [UpTo(S, Cardinality(S)) -> X] : Solves(g, Cardinality(S))
  BY <1>0, <1>3, FS_CardinalityType
<1>5. UpTo(S, Cardinality(S)) = SUBSET S
  BY <1>0, FS_Subset DEF UpTo
<1> QED  BY <1>4, <1>5 DEF S, Unfolds

\* What every step of a fold keeps holds at its end.
LEMMA FoldKeeps ==
  ASSUME NEW n \in Nat, NEW X, NEW step, NEW g, NEW Good \in [0..n -> SUBSET X],
         g[{}] \in Good[0],
         \A k \in 1..n : g[1..(k - 1)] \in X => g[1..k] = step[<<k, g[1..(k - 1)]>>],
         \A k \in 1..n : \A x \in Good[k - 1] : step[<<k, x>>] \in Good[k]
  PROVE  g[1..n] \in Good[n]
<1> DEFINE T == {m \in Nat : m <= n => g[1..m] \in Good[m]}
<1>1. 0 \in T
  <2>1. 1..0 = {}
    OBVIOUS
  <2> QED  BY <2>1
<1>2. ASSUME NEW m \in Nat, m \in T PROVE m + 1 \in T
  <2> SUFFICES ASSUME m + 1 <= n PROVE g[1..(m + 1)] \in Good[m + 1]
    OBVIOUS
  <2>1. m + 1 \in 1..n /\ (m + 1) - 1 = m /\ m \in 0..n /\ g[1..m] \in Good[m]
    BY <1>2
  <2>2. g[1..m] \in X
    BY <2>1
  <2>3. g[1..(m + 1)] = step[<<m + 1, g[1..m]>>]
    BY <2>1, <2>2
  <2> QED  BY <2>1, <2>3
<1>3. Nat \subseteq T
  <2> HIDE DEF T
  <2> QED  BY <1>1, <1>2, SetInduction
<1> QED  BY <1>3

\* The items of a list with one more, and whether they differ.
LEMMA AppendItems ==
  ASSUME NEW S, NEW list \in Seq(S), NEW x \in S
  PROVE  /\ Append(list, x) \in Seq(S)
         /\ ToSet(Append(list, x)) = ToSet(list) \union {x}
         /\ IsInjective(list) /\ x \notin ToSet(list) => IsInjective(Append(list, x))
<1> DEFINE new == Append(list, x)
           n == Len(list)
<1>1. /\ n \in Nat /\ DOMAIN list = 1..n /\ DOMAIN new = 1..(n + 1) /\ new[n + 1] = x
      /\ \A i \in 1..n : new[i] = list[i]
  OBVIOUS
<1>2. 1..(n + 1) = (1..n) \union {n + 1}
  BY <1>1
<1> HIDE DEF new, n
<1>3. ToSet(new) = ToSet(list) \union {x}
  BY <1>1, <1>2 DEF ToSet
<1>4. IsInjective(list) /\ x \notin ToSet(list) => IsInjective(new)
  BY <1>1, <1>2 DEF ToSet, IsInjective
<1>5. new \in Seq(S)
  BY DEF new
<1> QED  BY <1>3, <1>4, <1>5 DEF new

\* A list that is longer by the items of another.
LEMMA ListsJoined ==
  ASSUME NEW S, NEW list \in Seq(S), NEW more \in Seq(S), IsInjective(list), IsInjective(more)
  PROVE  /\ list \o more \in Seq(S) /\ ToSet(list \o more) = ToSet(list) \union ToSet(more)
         /\ ToSet(list) \cap ToSet(more) = {} => IsInjective(list \o more)
<1> DEFINE m == Len(list)
           k == Len(more)
           new == list \o more
<1>1. /\ m \in Nat /\ k \in Nat /\ DOMAIN list = 1..m /\ DOMAIN more = 1..k
      /\ DOMAIN new = 1..(m + k)
      /\ \A i \in 1..(m + k) : new[i] = IF i <= m THEN list[i] ELSE more[i - m]
  OBVIOUS
<1>2. new \in Seq(S)
  OBVIOUS
<1> HIDE DEF m, k, new
<1>3. \A i \in 1..(m + k) : i \in 1..m \/ (i - m \in 1..k /\ ~(i <= m))
  BY <1>1
<1>4. \A i \in 1..m : i \in 1..(m + k) /\ i <= m
  BY <1>1
<1>5. \A i \in 1..k : i + m \in 1..(m + k) /\ ~(i + m <= m) /\ (i + m) - m = i
  BY <1>1
<1>6. ToSet(new) = ToSet(list) \union ToSet(more)
  <2>1. ToSet(new) \subseteq ToSet(list) \union ToSet(more)
    BY <1>1, <1>3, <1>4 DEF ToSet
  <2>2. ToSet(list) \subseteq ToSet(new)
    BY <1>1, <1>4 DEF ToSet
  <2>3. ToSet(more) \subseteq ToSet(new)
    <3> SUFFICES ASSUME NEW i \in 1..k PROVE more[i] \in ToSet(new)
      BY <1>1 DEF ToSet
    <3>1. new[i + m] = more[i] /\ i + m \in DOMAIN new
      BY <1>1, <1>5
    <3> QED  BY <3>1 DEF ToSet
  <2> QED  BY <2>1, <2>2, <2>3
<1>7. ASSUME ToSet(list) \cap ToSet(more) = {} PROVE IsInjective(new)
  <2> SUFFICES ASSUME NEW i \in 1..(m + k), NEW j \in 1..(m + k), new[i] = new[j] PROVE i = j
    BY <1>1 DEF IsInjective
  <2>1. CASE i \in 1..m /\ j \in 1..m
    BY <1>1, <1>4, <2>1 DEF IsInjective
  <2>2. CASE i - m \in 1..k /\ ~(i <= m) /\ j - m \in 1..k /\ ~(j <= m)
    <3>1. more[i - m] = more[j - m]
      BY <1>1, <2>2
    <3>2. i - m = j - m
      BY <1>1, <2>2, <3>1 DEF IsInjective
    <3> QED  BY <1>1, <3>2
  <2>3. CASE i \in 1..m /\ j - m \in 1..k /\ ~(j <= m)
    <3>1. list[i] = more[j - m]
      BY <1>1, <1>4, <2>3
    <3> QED  BY <1>1, <1>7, <2>3, <3>1 DEF ToSet
  <2>4. CASE j \in 1..m /\ i - m \in 1..k /\ ~(i <= m)
    <3>1. list[j] = more[i - m]
      BY <1>1, <1>4, <2>4
    <3> QED  BY <1>1, <1>7, <2>4, <3>1 DEF ToSet
  <2> QED  BY <1>3, <2>1, <2>2, <2>3, <2>4
<1> QED  BY <1>2, <1>6, <1>7 DEF new

\* What is filtered out of a list is gone, the others stay, each as often.
LEMMA FilterOutList ==
  ASSUME NEW S, NEW list \in Seq(S), NEW items
  PROVE  /\ FilterOut(list, items) \in Seq(S)
         /\ ToSet(FilterOut(list, items)) = ToSet(list) \ items
         /\ IsInjective(list) => IsInjective(FilterOut(list, items))
<1> DEFINE n == Len(list)
           X == Seq(S)
           Next(k, y) == IF list[k] \in items THEN y ELSE Append(y, list[k])
           step == [p \in (1..n) \X X |-> Next(p[1], p[2])]
           Solves(g) == g = [s \in SUBSET (1..n) |->
                               IF s = {} THEN << >> ELSE Next(Max(s), g[s \ {Max(s)}])]
           Kept(k, y) == /\ ToSet(y) = {list[i] : i \in 1..k} \ items
                         /\ IsInjective(list) => IsInjective(y)
           Good == [k \in 0..n |-> {y \in X : Kept(k, y)}]
<1>1. n \in Nat /\ DOMAIN list = 1..n /\ \A k \in 1..n : list[k] \in S
  OBVIOUS
<1>2. FilterOut(list, items) = (CHOOSE g : Solves(g))[1..n]
  BY <1>1 DEF FilterOut, FoldLeft, MapThenFoldSet
<1>3. \A k \in 1..n : \A y \in X : Next(k, y) \in X
  BY <1>1
<1>4. PICK f \in [SUBSET (1..n) -> X] : Unfolds(f, n, << >>, step)
  <2>1. step \in [(1..n) \X X -> X] /\ << >> \in X
    BY <1>3
  <2>2. n \in Nat
    BY <1>1
  <2> HIDE DEF step, n, X
  <2> QED  BY <2>1, <2>2, FoldExists, Zenon
<1>5. Solves(f)
  <2>1. ASSUME NEW s \in SUBSET (1..n), s # {}
        PROVE  step[<<Max(s), f[s \ {Max(s)}]>>] = Next(Max(s), f[s \ {Max(s)}])
    <3>1. Max(s) \in 1..n /\ f[s \ {Max(s)}] \in X
      BY <1>1, <2>1, LastPosition
    <3> HIDE DEF Next, n, X
    <3> QED  BY <3>1
  <2> HIDE DEF step, Next
  <2> QED  BY <1>4, <2>1 DEF Unfolds
<1>6. PICK g : Solves(g) /\ FilterOut(list, items) = g[1..n]
  BY <1>2, <1>5
<1>7. g[{}] = << >>
  BY <1>6
<1>8. \A k \in 1..n : g[1..k] = Next(k, g[1..(k - 1)])
  <2> SUFFICES ASSUME NEW k \in 1..n PROVE g[1..k] = Next(k, g[1..(k - 1)])
    OBVIOUS
  <2>1. 1..k \in SUBSET (1..n) /\ 1..k # {}
    BY <1>1
  <2>2. Max(1..k) = k /\ (1..k) \ {Max(1..k)} = 1..(k - 1)
    BY <1>1, LastPosition
  <2> HIDE DEF Next
  <2> QED  BY <1>6, <2>1, <2>2
<1>9. \A k \in 1..n : g[1..(k - 1)] \in X => g[1..k] = step[<<k, g[1..(k - 1)]>>]
  <2> HIDE DEF Next, X, n
  <2> QED  BY <1>8
<1>10. << >> \in Good[0]
  BY DEF ToSet, IsInjective
<1>11. ASSUME NEW k \in 1..n, NEW y \in Good[k - 1] PROVE step[<<k, y>>] \in Good[k]
  <2>1. /\ k \in 1..n /\ k - 1 \in 0..n /\ k \in 0..n /\ 1..k = (1..(k - 1)) \union {k}
        /\ y \in X /\ Kept(k - 1, y)
    BY <1>1, <1>11
  <2>2. step[<<k, y>>] = Next(k, y) /\ Next(k, y) \in X
    <3>1. k \in 1..n /\ y \in X /\ Next(k, y) \in X
      BY <1>3, <2>1
    <3> HIDE DEF Next, X, n
    <3> QED  BY <3>1
  <2>3. CASE list[k] \in items
    <3>1. Next(k, y) = y
      BY <2>3
    <3>2. {list[i] : i \in 1..k} \ items = {list[i] : i \in 1..(k - 1)} \ items
      BY <2>1, <2>3
    <3> QED  BY <2>1, <2>2, <3>1, <3>2
  <2>4. CASE list[k] \notin items
    <3>1. Next(k, y) = Append(y, list[k])
      BY <2>4
    <3>2. ToSet(Append(y, list[k])) = ToSet(y) \union {list[k]}
      BY <1>1, <2>1, AppendItems
    <3>3. {list[i] : i \in 1..k} \ items = ({list[i] : i \in 1..(k - 1)} \ items) \union {list[k]}
      BY <2>1, <2>4
    <3>4. ASSUME IsInjective(list) PROVE IsInjective(Append(y, list[k]))
      <4>1. list[k] \notin {list[i] : i \in 1..(k - 1)}
        BY <1>1, <3>4 DEF IsInjective
      <4>2. IsInjective(y) /\ list[k] \notin ToSet(y)
        BY <2>1, <3>4, <4>1
      <4> QED  BY <1>1, <2>1, <4>2, AppendItems
    <3>5. Kept(k, Next(k, y))
      BY <2>1, <3>1, <3>2, <3>3, <3>4
    <3> QED  BY <2>1, <2>2, <3>5
  <2> QED  BY <2>3, <2>4
<1>12. g[1..n] \in Good[n]
  <2>1. Good \in [0..n -> SUBSET X]
    OBVIOUS
  <2> HIDE DEF Good, step, X, n
  <2> QED  BY <1>1, <1>7, <1>9, <1>10, <1>11, <2>1, FoldKeeps
<1>13. {list[i] : i \in 1..n} = ToSet(list)
  BY <1>1 DEF ToSet
<1>14. g[1..n] \in X /\ Kept(n, g[1..n])
  <2>1. n \in 0..n
    BY <1>1
  <2> HIDE DEF Kept, X, n
  <2> QED  BY <1>12, <2>1
<1> QED  BY <1>6, <1>13, <1>14

\* One item is added, unless it is there.
LEMMA ItemAdded ==
  ASSUME NEW S, NEW list \in Seq(S), IsInjective(list), NEW x \in S
  PROVE  /\ AddIfNotIncludes(list, x) \in Seq(S) /\ IsInjective(AddIfNotIncludes(list, x))
         /\ ToSet(AddIfNotIncludes(list, x)) = ToSet(list) \union {x}
<1>1. Contains(list, x) <=> x \in ToSet(list)
  BY DEF Contains, ToSet
<1>2. CASE x \in ToSet(list)
  <2>1. AddIfNotIncludes(list, x) = list
    BY <1>1, <1>2 DEF AddIfNotIncludes
  <2> QED  BY <1>2, <2>1
<1>3. CASE x \notin ToSet(list)
  <2>1. AddIfNotIncludes(list, x) = Append(list, x)
    BY <1>1, <1>3 DEF AddIfNotIncludes
  <2> QED  BY <1>3, <2>1, AppendItems
<1> QED  BY <1>2, <1>3

\* The smallest of finitely many positions is one of them.
LEMMA MinMember ==
  ASSUME NEW S \in SUBSET Nat, S # {}
  PROVE  Min(S) \in S
<1>1. PICK n \in S : \A m \in S : ~(<<m, n>> \in OpToRel(<, Nat))
  BY WFMin, NatLessThanWellFounded
<1>2. ASSUME NEW m \in S PROVE n <= m
  <2>1. m \in Nat /\ n \in Nat /\ ~(<<m, n>> \in OpToRel(<, Nat))
    BY <1>1
  <2>2. m < n => <<m, n>> \in OpToRel(<, Nat)
    BY <2>1 DEF OpToRel
  <2>3. ~(m < n)
    BY <2>1, <2>2
  <2>4. \A a, b \in Nat : ~(a < b) => b <= a
    OBVIOUS
  <2> QED  BY <2>1, <2>3, <2>4
<1> QED  BY <1>2 DEF Min

\* An item is removed, and what follows it: nothing new comes in.
LEMMA ItemRemoved ==
  ASSUME NEW S, NEW list \in Seq(S), IsInjective(list), NEW x \in S
  PROVE  /\ RemoveIfIncludes(list, x) \in Seq(S) /\ IsInjective(RemoveIfIncludes(list, x))
         /\ ToSet(RemoveIfIncludes(list, x)) \subseteq ToSet(list) \ {x}
<1>1. Contains(list, x) <=> x \in ToSet(list)
  BY DEF Contains, ToSet
<1>2. CASE x \notin ToSet(list)
  <2>1. RemoveIfIncludes(list, x) = list
    BY <1>1, <1>2 DEF RemoveIfIncludes
  <2> QED  BY <1>2, <2>1
<1>3. CASE x \in ToSet(list)
  <2> DEFINE I == {i \in 1..Len(list) : list[i] = x}
             k == SelectInSeq(list, LAMBDA y : y = x)
             new == SubSeq(list, 1, k - 1)
  <2>1. I # {} /\ I \subseteq Nat
    BY <1>3 DEF ToSet
  <2>2. k = Min(I)
    BY <2>1 DEF SelectInSeq
  <2>3. k \in 1..Len(list) /\ list[k] = x
    BY <2>1, <2>2, MinMember
  <2> HIDE DEF k
  <2>4. RemoveIfIncludes(list, x) = new
    BY <1>1, <1>3 DEF RemoveIfIncludes, k
  <2>5. /\ new \in Seq(S) /\ DOMAIN new = 1..(k - 1)
        /\ \A i \in 1..(k - 1) : new[i] = list[i] /\ i \in DOMAIN list /\ i # k
    BY <2>3
  <2> HIDE DEF new
  <2>6. k \in DOMAIN list
    BY <2>3
  <2>7. IsInjective(new)
    BY <2>5 DEF IsInjective
  <2>8. ToSet(new) \subseteq ToSet(list) \ {x}
    BY <2>3, <2>5, <2>6 DEF IsInjective, ToSet
  <2> QED  BY <2>4, <2>5, <2>7, <2>8
<1> QED  BY <1>2, <1>3

\* A batch of items is added to a list.
LEMMA BatchAdded ==
  ASSUME NEW S, NEW list \in Seq(S), IsInjective(list), NEW batch \in Seq(S)
  PROVE  /\ FoldLeft(AddIfNotIncludes, list, batch) \in Seq(S)
         /\ IsInjective(FoldLeft(AddIfNotIncludes, list, batch))
         /\ ToSet(FoldLeft(AddIfNotIncludes, list, batch)) = ToSet(list) \union ToSet(batch)
<1> DEFINE n == Len(batch)
           X == {y \in Seq(S) : IsInjective(y)}
           Next(k, y) == AddIfNotIncludes(y, batch[k])
           step == [p \in (1..n) \X X |-> Next(p[1], p[2])]
           Solves(g) == g = [s \in SUBSET (1..n) |->
                               IF s = {} THEN list ELSE Next(Max(s), g[s \ {Max(s)}])]
           Taken(k) == {batch[i] : i \in 1..k}
           Good == [k \in 0..n |-> {y \in X : ToSet(y) = ToSet(list) \union Taken(k)}]
<1>1. /\ n \in Nat /\ DOMAIN batch = 1..n /\ list \in X
      /\ \A k \in 1..n : batch[k] \in S
  OBVIOUS
<1>2. FoldLeft(AddIfNotIncludes, list, batch) = (CHOOSE g : Solves(g))[1..n]
  BY <1>1 DEF FoldLeft, MapThenFoldSet
<1>3. ASSUME NEW k \in 1..n, NEW y \in X
      PROVE  Next(k, y) \in X /\ ToSet(Next(k, y)) = ToSet(y) \union {batch[k]}
  BY <1>1, <1>3, ItemAdded
<1>4. PICK f \in [SUBSET (1..n) -> X] : Unfolds(f, n, list, step)
  <2>1. step \in [(1..n) \X X -> X]
    BY <1>3
  <2>2. n \in Nat /\ list \in X
    BY <1>1
  <2> HIDE DEF step, n, X
  <2> QED  BY <2>1, <2>2, FoldExists, Zenon
<1>5. Solves(f)
  <2>1. ASSUME NEW s \in SUBSET (1..n), s # {}
        PROVE  step[<<Max(s), f[s \ {Max(s)}]>>] = Next(Max(s), f[s \ {Max(s)}])
    <3>1. Max(s) \in 1..n /\ f[s \ {Max(s)}] \in X
      BY <1>1, <2>1, LastPosition
    <3> HIDE DEF Next, n, X
    <3> QED  BY <3>1
  <2> HIDE DEF step, Next
  <2> QED  BY <1>4, <2>1 DEF Unfolds
<1>6. PICK g : Solves(g) /\ FoldLeft(AddIfNotIncludes, list, batch) = g[1..n]
  BY <1>2, <1>5
<1>7. g[{}] = list
  BY <1>6
<1>8. \A k \in 1..n : g[1..k] = Next(k, g[1..(k - 1)])
  <2> SUFFICES ASSUME NEW k \in 1..n PROVE g[1..k] = Next(k, g[1..(k - 1)])
    OBVIOUS
  <2>1. 1..k \in SUBSET (1..n) /\ 1..k # {}
    BY <1>1
  <2>2. Max(1..k) = k /\ (1..k) \ {Max(1..k)} = 1..(k - 1)
    BY <1>1, LastPosition
  <2> HIDE DEF Next
  <2> QED  BY <1>6, <2>1, <2>2
<1>9. \A k \in 1..n : g[1..(k - 1)] \in X => g[1..k] = step[<<k, g[1..(k - 1)]>>]
  <2> HIDE DEF Next, X, n
  <2> QED  BY <1>8
<1>10. list \in Good[0]
  BY <1>1
<1>11. ASSUME NEW k \in 1..n, NEW y \in Good[k - 1] PROVE step[<<k, y>>] \in Good[k]
  <2>1. k \in 1..n /\ k - 1 \in 0..n /\ k \in 0..n /\ 1..k = (1..(k - 1)) \union {k}
    BY <1>1, <1>11
  <2>2. Taken(k) = Taken(k - 1) \union {batch[k]}
    BY <2>1
  <2> HIDE DEF Next, X, n, Taken
  <2>3. y \in X /\ ToSet(y) = ToSet(list) \union Taken(k - 1)
    BY <1>11, <2>1
  <2>4. Next(k, y) \in X /\ ToSet(Next(k, y)) = ToSet(list) \union Taken(k)
    BY <1>3, <2>2, <2>3
  <2>5. step[<<k, y>>] = Next(k, y)
    BY <2>3
  <2> QED  BY <2>1, <2>4, <2>5
<1>12. g[1..n] \in Good[n]
  <2>1. Good \in [0..n -> SUBSET X]
    OBVIOUS
  <2> HIDE DEF Good, step, X, n
  <2> QED  BY <1>1, <1>7, <1>9, <1>10, <1>11, <2>1, FoldKeeps
<1>13. Taken(n) = ToSet(batch)
  BY <1>1 DEF ToSet
<1>14. g[1..n] \in X /\ ToSet(g[1..n]) = ToSet(list) \union Taken(n)
  <2>1. n \in 0..n
    BY <1>1
  <2> HIDE DEF X, n, Taken
  <2> QED  BY <1>12, <2>1
<1> QED  BY <1>6, <1>13, <1>14

\* A batch of items is removed from a list.
LEMMA BatchRemoved ==
  ASSUME NEW S, NEW list \in Seq(S), IsInjective(list), NEW batch \in Seq(S)
  PROVE  /\ FoldLeft(RemoveIfIncludes, list, batch) \in Seq(S)
         /\ IsInjective(FoldLeft(RemoveIfIncludes, list, batch))
         /\ ToSet(FoldLeft(RemoveIfIncludes, list, batch)) \subseteq ToSet(list) \ ToSet(batch)
<1> DEFINE n == Len(batch)
           X == {y \in Seq(S) : IsInjective(y)}
           Next(k, y) == RemoveIfIncludes(y, batch[k])
           step == [p \in (1..n) \X X |-> Next(p[1], p[2])]
           Solves(g) == g = [s \in SUBSET (1..n) |->
                               IF s = {} THEN list ELSE Next(Max(s), g[s \ {Max(s)}])]
           Taken(k) == {batch[i] : i \in 1..k}
           Good == [k \in 0..n |-> {y \in X : ToSet(y) \subseteq ToSet(list) \ Taken(k)}]
<1>1. /\ n \in Nat /\ DOMAIN batch = 1..n /\ list \in X
      /\ \A k \in 1..n : batch[k] \in S
  OBVIOUS
<1>2. FoldLeft(RemoveIfIncludes, list, batch) = (CHOOSE g : Solves(g))[1..n]
  BY <1>1 DEF FoldLeft, MapThenFoldSet
<1>3. ASSUME NEW k \in 1..n, NEW y \in X
      PROVE  Next(k, y) \in X /\ ToSet(Next(k, y)) \subseteq ToSet(y) \ {batch[k]}
  BY <1>1, <1>3, ItemRemoved
<1>4. PICK f \in [SUBSET (1..n) -> X] : Unfolds(f, n, list, step)
  <2>1. step \in [(1..n) \X X -> X]
    BY <1>3
  <2>2. n \in Nat /\ list \in X
    BY <1>1
  <2> HIDE DEF step, n, X
  <2> QED  BY <2>1, <2>2, FoldExists, Zenon
<1>5. Solves(f)
  <2>1. ASSUME NEW s \in SUBSET (1..n), s # {}
        PROVE  step[<<Max(s), f[s \ {Max(s)}]>>] = Next(Max(s), f[s \ {Max(s)}])
    <3>1. Max(s) \in 1..n /\ f[s \ {Max(s)}] \in X
      BY <1>1, <2>1, LastPosition
    <3> HIDE DEF Next, n, X
    <3> QED  BY <3>1
  <2> HIDE DEF step, Next
  <2> QED  BY <1>4, <2>1 DEF Unfolds
<1>6. PICK g : Solves(g) /\ FoldLeft(RemoveIfIncludes, list, batch) = g[1..n]
  BY <1>2, <1>5
<1>7. g[{}] = list
  BY <1>6
<1>8. \A k \in 1..n : g[1..k] = Next(k, g[1..(k - 1)])
  <2> SUFFICES ASSUME NEW k \in 1..n PROVE g[1..k] = Next(k, g[1..(k - 1)])
    OBVIOUS
  <2>1. 1..k \in SUBSET (1..n) /\ 1..k # {}
    BY <1>1
  <2>2. Max(1..k) = k /\ (1..k) \ {Max(1..k)} = 1..(k - 1)
    BY <1>1, LastPosition
  <2> HIDE DEF Next
  <2> QED  BY <1>6, <2>1, <2>2
<1>9. \A k \in 1..n : g[1..(k - 1)] \in X => g[1..k] = step[<<k, g[1..(k - 1)]>>]
  <2> HIDE DEF Next, X, n
  <2> QED  BY <1>8
<1>10. list \in Good[0]
  BY <1>1
<1>11. ASSUME NEW k \in 1..n, NEW y \in Good[k - 1] PROVE step[<<k, y>>] \in Good[k]
  <2>1. k \in 1..n /\ k - 1 \in 0..n /\ k \in 0..n /\ 1..k = (1..(k - 1)) \union {k}
    BY <1>1, <1>11
  <2>2. Taken(k) = Taken(k - 1) \union {batch[k]}
    BY <2>1
  <2> HIDE DEF Next, X, n, Taken
  <2>3. y \in X /\ ToSet(y) \subseteq ToSet(list) \ Taken(k - 1)
    BY <1>11, <2>1
  <2>4. Next(k, y) \in X /\ ToSet(Next(k, y)) \subseteq ToSet(list) \ Taken(k)
    BY <1>3, <2>2, <2>3
  <2>5. step[<<k, y>>] = Next(k, y)
    BY <2>3
  <2> QED  BY <2>1, <2>4, <2>5
<1>12. g[1..n] \in Good[n]
  <2>1. Good \in [0..n -> SUBSET X]
    OBVIOUS
  <2> HIDE DEF Good, step, X, n
  <2> QED  BY <1>1, <1>7, <1>9, <1>10, <1>11, <2>1, FoldKeeps
<1>13. Taken(n) = ToSet(batch)
  BY <1>1 DEF ToSet
<1>14. g[1..n] \in X /\ ToSet(g[1..n]) \subseteq ToSet(list) \ Taken(n)
  <2>1. n \in 0..n
    BY <1>1
  <2> HIDE DEF X, n, Taken
  <2> QED  BY <1>12, <2>1
<1> QED  BY <1>6, <1>13, <1>14
=============================================================================
