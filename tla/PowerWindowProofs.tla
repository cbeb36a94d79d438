------------------------- MODULE PowerWindowProofs -------------------------
(***************************************************************************)
(* Lemmas about finite sums, and about the operators of PowerWindow: what  *)
(* a list of readings becomes, for every list, window and hold time.       *)
(***************************************************************************)
EXTENDS PowerWindow, FiniteSetTheorems, TLAPS

-----------------------------------------------------------------------------
(* Induction over the subsets of a finite set.  What is to be shown of them *)
(* is given as the set of those that have it.                               *)

LEMMA LeastNatural ==
    ASSUME NEW N, N \subseteq Nat, N # {}
    PROVE  \E n \in N : \A m \in N : n <= m
<1>1. PICK n \in N : \A m \in N : <<m, n>> \notin OpToRel(<, Nat)
  BY NatLessThanWellFounded, WFMin, Zenon
<1>2. \A m \in N : ~(m < n)
  <2> SUFFICES ASSUME NEW m \in N, m < n PROVE FALSE
    OBVIOUS
  <2>1. <<m, n>> \in OpToRel(<, Nat)
    BY Zenon DEF OpToRel
  <2> QED
    BY <1>1, <2>1
<1> QED
  BY <1>2

LEMMA SmallestSubset ==
    ASSUME NEW S, IsFiniteSet(S), NEW Bad \in SUBSET SUBSET S, Bad # {}
    PROVE  \E T \in Bad : \A U \in Bad : U \subseteq T => U = T
<1> DEFINE Sizes == {Cardinality(T) : T \in Bad}
<1>1. \A T \in SUBSET S : IsFiniteSet(T) /\ Cardinality(T) \in Nat
  BY FS_Subset, FS_CardinalityType
<1>2. Sizes \subseteq Nat /\ Sizes # {}
  BY <1>1
<1>3. PICK n \in Sizes : \A m \in Sizes : n <= m
  <2> HIDE DEF Sizes
  <2> QED
    BY <1>2, LeastNatural
<1>4. \A m \in Sizes : ~(m < n)
  BY <1>2, <1>3
<1>5. PICK T \in Bad : Cardinality(T) = n
  BY <1>3
<1>6. ASSUME NEW U \in Bad, U \subseteq T PROVE U = T
  <2>1. Cardinality(U) <= n /\ Cardinality(U) >= n
    <3>1. IsFiniteSet(T) /\ U \in SUBSET T
      BY <1>1, <1>5, <1>6
    <3>2. Cardinality(U) <= Cardinality(T)
      BY <3>1, FS_Subset
    <3>3. ~(Cardinality(U) < n) /\ Cardinality(U) \in Nat /\ n \in Nat
      BY <1>1, <1>2, <1>4
    <3> QED
      BY <1>5, <3>2, <3>3
  <2>2. Cardinality(U) = Cardinality(T)
    BY <1>1, <1>2, <1>5, <2>1
  <2> QED
    BY <1>1, <1>6, <2>2, FS_Subset
<1> QED
  BY <1>5, <1>6

LEMMA SubsetInduction ==
    ASSUME NEW S, IsFiniteSet(S), NEW Good \in SUBSET SUBSET S,
           \A T \in SUBSET S : (\A U \in SUBSET T : U # T => U \in Good) => T \in Good
    PROVE  \A T \in SUBSET S : T \in Good
<1> SUFFICES ASSUME NEW R \in SUBSET S, R \notin Good PROVE FALSE
  OBVIOUS
<1> DEFINE Bad == (SUBSET S) \ Good
<1>1. Bad \in SUBSET SUBSET S /\ Bad # {}
  OBVIOUS
<1>2. PICK T \in Bad : \A U \in Bad : U \subseteq T => U = T
  <2> HIDE DEF Bad
  <2> QED
    BY <1>1, SmallestSubset
<1>3. \A U \in SUBSET T : U # T => U \in Good
  BY <1>2
<1> QED
  BY <1>2, <1>3

LEMMA NaturalInduction ==
    ASSUME NEW Good \in SUBSET Nat, 0 \in Good, \A n \in Good : n + 1 \in Good
    PROVE  \A n \in Nat : n \in Good
<1> SUFFICES ASSUME NEW k \in Nat, k \notin Good PROVE FALSE
  OBVIOUS
<1> DEFINE Bad == Nat \ Good
<1>1. PICK n \in Bad : \A m \in Bad : n <= m
  <2>1. Bad \subseteq Nat /\ Bad # {}
    OBVIOUS
  <2> HIDE DEF Bad
  <2> QED
    BY <2>1, LeastNatural
<1>2. n # 0 /\ n \in Nat
  OBVIOUS
<1>3. n - 1 \in Good
  BY <1>1, <1>2
<1> QED
  BY <1>2, <1>3

-----------------------------------------------------------------------------
(* Sums.  SumFunctionOnSet(f, S) adds the values of f on S in an order that *)
(* nothing is known of; that the order does not matter is shown here.       *)

Chosen(s) == CHOOSE x \in s : TRUE

LEMMA ChosenIn == ASSUME NEW s, s # {} PROVE Chosen(s) \in s
BY DEF Chosen

Unrolled(f, g, s) == IF s = {} THEN 0 ELSE f[Chosen(s)] + g[s \ {Chosen(s)}]

IsSum(f, S, g) == g = [s \in SUBSET S |-> Unrolled(f, g, s)]

LEMMA SumExists ==
    ASSUME NEW S, IsFiniteSet(S), NEW f, \A x \in S : f[x] \in Int
    PROVE  \E g \in [SUBSET S -> Int] : IsSum(f, S, g)
<1> DEFINE Upto(n) == {s \in SUBSET S : Cardinality(s) <= n}
           Good == {n \in Nat : \E g \in [Upto(n) -> Int] :
                                  \A s \in Upto(n) : g[s] = Unrolled(f, g, s)}
<1>1. \A s \in SUBSET S : IsFiniteSet(s) /\ Cardinality(s) \in Nat
  BY FS_Subset, FS_CardinalityType
<1>2. 0 \in Good
  <2> DEFINE g == [s \in Upto(0) |-> 0]
  <2>1. \A s \in Upto(0) : s = {}
    <3> SUFFICES ASSUME NEW s \in Upto(0) PROVE s = {}
      OBVIOUS
    <3>1. IsFiniteSet(s) /\ Cardinality(s) = 0
      BY <1>1
    <3> QED
      BY <3>1, FS_EmptySet
  <2>2. g \in [Upto(0) -> Int] /\ \A s \in Upto(0) : g[s] = Unrolled(f, g, s)
    BY <2>1 DEF Unrolled
  <2> QED
    BY <2>2
<1>3. ASSUME NEW n \in Good PROVE n + 1 \in Good
  <2>1. PICK g \in [Upto(n) -> Int] : \A s \in Upto(n) : g[s] = Unrolled(f, g, s)
    OBVIOUS
  <2> DEFINE h == [s \in Upto(n + 1) |-> Unrolled(f, g, s)]
  <2>2. ASSUME NEW s \in Upto(n + 1), s # {}
        PROVE  s \ {Chosen(s)} \in Upto(n) /\ Chosen(s) \in S
    <3>1. Chosen(s) \in s
      BY <2>2, ChosenIn
    <3>2. Cardinality(s \ {Chosen(s)}) = Cardinality(s) - 1
      BY <1>1, <3>1, FS_RemoveElement
    <3>3. s \ {Chosen(s)} \in SUBSET S
      OBVIOUS
    <3> QED
      BY <1>1, <3>1, <3>2, <3>3
  <2>3. \A s \in Upto(n) : s \in Upto(n + 1) /\ h[s] = g[s]
    <3> SUFFICES ASSUME NEW s \in Upto(n) PROVE s \in Upto(n + 1) /\ h[s] = g[s]
      OBVIOUS
    <3>1. s \in Upto(n + 1)
      BY <1>1
    <3> QED
      BY <2>1, <3>1
  <2>4. h \in [Upto(n + 1) -> Int]
    <3> SUFFICES ASSUME NEW s \in Upto(n + 1) PROVE Unrolled(f, g, s) \in Int
      OBVIOUS
    <3> QED
      BY <2>1, <2>2 DEF Unrolled
  <2>5. \A s \in Upto(n + 1) : h[s] = Unrolled(f, h, s)
    <3> SUFFICES ASSUME NEW s \in Upto(n + 1)
                 PROVE  Unrolled(f, g, s) = Unrolled(f, h, s)
      OBVIOUS
    <3>1. s # {} => g[s \ {Chosen(s)}] = h[s \ {Chosen(s)}]
      BY <2>2, <2>3
    <3> HIDE DEF h
    <3> QED
      BY <3>1 DEF Unrolled
  <2>6. n + 1 \in Nat
    OBVIOUS
  <2> HIDE DEF h
  <2> QED
    BY <2>4, <2>5, <2>6
<1>4. Cardinality(S) \in Good
  <2> HIDE DEF Good
  <2>1. Good \in SUBSET Nat
    BY DEF Good
  <2> QED
    BY <1>1, <1>2, <1>3, <2>1, NaturalInduction
<1>5. PICK g \in [Upto(Cardinality(S)) -> Int] :
        \A s \in Upto(Cardinality(S)) : g[s] = Unrolled(f, g, s)
  BY <1>4
<1>6. Upto(Cardinality(S)) = SUBSET S
  BY <1>1, FS_Subset
<1>7. g \in [SUBSET S -> Int] /\ IsSum(f, S, g)
  BY <1>5, <1>6 DEF IsSum
<1> QED
  BY <1>7

(* Two such functions agree where what they sum does.                       *)
LEMMA SumUnique ==
    ASSUME NEW S, IsFiniteSet(S), NEW f, NEW g, NEW a, NEW b, NEW T \in SUBSET S,
           IsSum(f, S, a), IsSum(g, T, b), \A x \in T : f[x] = g[x]
    PROVE  \A s \in SUBSET T : a[s] = b[s]
<1> DEFINE Good == {s \in SUBSET T : a[s] = b[s]}
<1>1. IsFiniteSet(T)
  BY FS_Subset
<1>2. ASSUME NEW s \in SUBSET T, \A u \in SUBSET s : u # s => u \in Good
      PROVE  s \in Good
  <2>1. a[s] = Unrolled(f, a, s) /\ b[s] = Unrolled(g, b, s)
    BY DEF IsSum
  <2>2. ASSUME s # {}
        PROVE  /\ f[Chosen(s)] = g[Chosen(s)]
               /\ a[s \ {Chosen(s)}] = b[s \ {Chosen(s)}]
    <3>1. Chosen(s) \in s
      BY <2>2, ChosenIn
    <3>2. s \ {Chosen(s)} \in SUBSET s /\ s \ {Chosen(s)} # s
      BY <3>1
    <3> QED
      BY <1>2, <3>1, <3>2
  <2> QED
    BY <2>1, <2>2 DEF Unrolled
<1>3. Good \in SUBSET SUBSET T
  OBVIOUS
<1>4. \A s \in SUBSET T : s \in Good
  <2> HIDE DEF Good
  <2> QED
    BY <1>1, <1>2, <1>3, SubsetInduction
<1> QED
  BY <1>4

LEMMA SumIs ==
    ASSUME NEW S, IsFiniteSet(S), NEW f, \A x \in S : f[x] \in Int
    PROVE  \E g : IsSum(f, S, g) /\ SumFunctionOnSet(f, S) = g[S]
<1>1. \E g : g = [s \in SUBSET S |->
                    IF s = {} THEN 0
                    ELSE LET x == CHOOSE x \in s : TRUE IN f[x] + g[s \ {x}]]
  <2>1. PICK h : IsSum(f, S, h)
    BY SumExists
  <2> QED
    BY <2>1 DEF IsSum, Unrolled, Chosen
<1>2. \E g : /\ SumFunctionOnSet(f, S) = g[S]
             /\ g = [s \in SUBSET S |->
                      IF s = {} THEN 0
                      ELSE LET x == CHOOSE x \in s : TRUE IN f[x] + g[s \ {x}]]
  BY <1>1 DEF SumFunctionOnSet, FoldFunctionOnSet, MapThenFoldSet
<1> QED
  BY <1>2 DEF IsSum, Unrolled, Chosen

(* What is needed of sums: their type, the empty sum, taking one element    *)
(* out, and that only the values on the set count.                          *)
LEMMA SumSame ==
    ASSUME NEW S, IsFiniteSet(S), NEW f, NEW g,
           \A x \in S : f[x] \in Int /\ f[x] = g[x]
    PROVE  SumFunctionOnSet(f, S) = SumFunctionOnSet(g, S)
<1>1. PICK a : IsSum(f, S, a) /\ SumFunctionOnSet(f, S) = a[S]
  BY SumIs
<1>2. PICK b : IsSum(g, S, b) /\ SumFunctionOnSet(g, S) = b[S]
  BY SumIs
<1>3. \A s \in SUBSET S : a[s] = b[s]
  BY <1>1, <1>2, SumUnique
<1> QED
  BY <1>1, <1>2, <1>3

LEMMA SumSubsets ==
    ASSUME NEW S, IsFiniteSet(S), NEW f, \A x \in S : f[x] \in Int
    PROVE  \E g : /\ g \in [SUBSET S -> Int] /\ IsSum(f, S, g)
                  /\ \A T \in SUBSET S : SumFunctionOnSet(f, T) = g[T]
<1>1. PICK g \in [SUBSET S -> Int] : IsSum(f, S, g)
  BY SumExists
<1>2. ASSUME NEW T \in SUBSET S PROVE SumFunctionOnSet(f, T) = g[T]
  <2>1. IsFiniteSet(T)
    BY FS_Subset
  <2>2. PICK b : IsSum(f, T, b) /\ SumFunctionOnSet(f, T) = b[T]
    BY <2>1, SumIs
  <2>3. \A s \in SUBSET T : g[s] = b[s]
    BY <1>1, <2>2, SumUnique
  <2> QED
    BY <2>2, <2>3
<1> QED
  BY <1>1, <1>2

LEMMA SumType ==
    ASSUME NEW S, IsFiniteSet(S), NEW f, \A x \in S : f[x] \in Int
    PROVE  SumFunctionOnSet(f, S) \in Int
<1>1. PICK g : IsSum(f, S, g) /\ SumFunctionOnSet(f, S) = g[S]
  BY SumIs
<1>2. PICK h \in [SUBSET S -> Int] : IsSum(f, S, h)
  BY SumExists
<1>3. g[S] = h[S]
  BY <1>1, <1>2, SumUnique
<1> QED
  BY <1>1, <1>2, <1>3

LEMMA SumEmpty == ASSUME NEW f PROVE SumFunctionOnSet(f, {}) = 0
<1>1. PICK S : S = {}
  OBVIOUS
<1>2. IsFiniteSet(S)
  BY <1>1, FS_EmptySet
<1>d. \A x \in S : f[x] \in Int
  BY <1>1
<1>3. PICK g : IsSum(f, S, g) /\ SumFunctionOnSet(f, S) = g[S]
  BY <1>2, <1>d, SumIs
<1>4. g[S] = Unrolled(f, g, S)
  BY <1>3 DEF IsSum
<1> QED
  BY <1>1, <1>3, <1>4 DEF Unrolled

LEMMA SumTake ==
    ASSUME NEW S, IsFiniteSet(S), NEW f, \A x \in S : f[x] \in Int, NEW x \in S
    PROVE  SumFunctionOnSet(f, S) = f[x] + SumFunctionOnSet(f, S \ {x})
<1>1. PICK g : /\ g \in [SUBSET S -> Int] /\ IsSum(f, S, g)
               /\ \A T \in SUBSET S : SumFunctionOnSet(f, T) = g[T]
  BY SumSubsets
<1> DEFINE Good == {T \in SUBSET S : \A y \in T : g[T] = f[y] + g[T \ {y}]}
<1>2. ASSUME NEW T \in SUBSET S, \A U \in SUBSET T : U # T => U \in Good
      PROVE  T \in Good
  <2> SUFFICES ASSUME NEW y \in T PROVE g[T] = f[y] + g[T \ {y}]
    OBVIOUS
  <2>1. PICK z : z = Chosen(T)
    OBVIOUS
  <2>2. z \in T /\ g[T] = f[z] + g[T \ {z}]
    BY <1>1, <2>1, ChosenIn DEF IsSum, Unrolled
  <2>3. CASE y # z
    <3>1. T \ {y} \in Good /\ T \ {z} \in Good
      BY <1>2, <2>2
    <3>2. PICK U : U = (T \ {z}) \ {y} /\ U = (T \ {y}) \ {z}
      OBVIOUS
    <3>3. g[T \ {z}] = f[y] + g[U] /\ g[T \ {y}] = f[z] + g[U]
      BY <2>2, <2>3, <3>1, <3>2
    <3>4. g[U] \in Int /\ f[y] \in Int /\ f[z] \in Int
      BY <1>1, <2>2, <3>2
    <3>5. f[z] + (f[y] + g[U]) = f[y] + (f[z] + g[U])
      BY <3>4
    <3> QED
      BY <2>2, <3>3, <3>5
  <2> QED
    BY <2>2, <2>3
<1>3. Good \in SUBSET SUBSET S
  OBVIOUS
<1>4. S \in Good
  <2> HIDE DEF Good
  <2> QED
    BY <1>2, <1>3, SubsetInduction
<1>5. g[S] = f[x] + g[S \ {x}]
  BY <1>4
<1> QED
  BY <1>1, <1>5

LEMMA SumMonotone ==
    ASSUME NEW S, IsFiniteSet(S), NEW f, NEW g,
           \A x \in S : f[x] \in Int /\ g[x] \in Int /\ f[x] <= g[x]
    PROVE  SumFunctionOnSet(f, S) <= SumFunctionOnSet(g, S)
<1> DEFINE Good == {T \in SUBSET S : SumFunctionOnSet(f, T) <= SumFunctionOnSet(g, T)}
<1>1. ASSUME NEW T \in SUBSET S, \A U \in SUBSET T : U # T => U \in Good
      PROVE  T \in Good
  <2>1. CASE T = {}
    BY <2>1, SumEmpty
  <2>2. ASSUME NEW x \in T PROVE T \in Good
    <3>1. PICK U : U = T \ {x}
      OBVIOUS
    <3>2. IsFiniteSet(T) /\ IsFiniteSet(U) /\ U \in Good
      BY <1>1, <3>1, FS_Subset
    <3>3. /\ SumFunctionOnSet(f, T) = f[x] + SumFunctionOnSet(f, U)
          /\ SumFunctionOnSet(g, T) = g[x] + SumFunctionOnSet(g, U)
      BY <3>1, <3>2, SumTake
    <3>4. SumFunctionOnSet(f, U) \in Int /\ SumFunctionOnSet(g, U) \in Int
      BY <3>2, SumType
    <3>5. f[x] \in Int /\ g[x] \in Int /\ f[x] <= g[x]
      OBVIOUS
    <3> QED
      BY <3>2, <3>3, <3>4, <3>5
  <2> QED
    BY <2>1, <2>2
<1>2. Good \in SUBSET SUBSET S
  OBVIOUS
<1>3. S \in Good
  <2> HIDE DEF Good
  <2> QED
    BY <1>1, <1>2, SubsetInduction
<1> QED
  BY <1>3

LEMMA SumPlus ==
    ASSUME NEW S, IsFiniteSet(S), NEW f, NEW g, NEW h,
           \A x \in S : f[x] \in Int /\ g[x] \in Int /\ h[x] = f[x] + g[x]
    PROVE  SumFunctionOnSet(h, S) = SumFunctionOnSet(f, S) + SumFunctionOnSet(g, S)
<1> DEFINE Good == {T \in SUBSET S : SumFunctionOnSet(h, T) =
                        SumFunctionOnSet(f, T) + SumFunctionOnSet(g, T)}
<1>1. ASSUME NEW T \in SUBSET S, \A U \in SUBSET T : U # T => U \in Good
      PROVE  T \in Good
  <2>1. CASE T = {}
    BY <2>1, SumEmpty
  <2>2. ASSUME NEW x \in T PROVE T \in Good
    <3>1. PICK U : U = T \ {x}
      OBVIOUS
    <3>2. IsFiniteSet(T) /\ IsFiniteSet(U) /\ U \in Good
      BY <1>1, <3>1, FS_Subset
    <3>d. \A y \in T : f[y] \in Int /\ g[y] \in Int /\ h[y] \in Int
      OBVIOUS
    <3>3. /\ SumFunctionOnSet(f, T) = f[x] + SumFunctionOnSet(f, U)
          /\ SumFunctionOnSet(g, T) = g[x] + SumFunctionOnSet(g, U)
          /\ SumFunctionOnSet(h, T) = h[x] + SumFunctionOnSet(h, U)
      BY <3>1, <3>2, <3>d, SumTake
    <3>4. SumFunctionOnSet(f, U) \in Int /\ SumFunctionOnSet(g, U) \in Int
      BY <3>2, SumType
    <3>5. f[x] \in Int /\ g[x] \in Int /\ h[x] = f[x] + g[x]
      OBVIOUS
    <3>6. SumFunctionOnSet(h, U) = SumFunctionOnSet(f, U) + SumFunctionOnSet(g, U)
      BY <3>2
    <3> QED
      BY <3>3, <3>4, <3>5, <3>6
  <2> QED
    BY <2>1, <2>2
<1>2. Good \in SUBSET SUBSET S
  OBVIOUS
<1>3. S \in Good
  <2> HIDE DEF Good
  <2> QED
    BY <1>1, <1>2, SubsetInduction
<1> QED
  BY <1>3

(* Only what is not zero counts.                                            *)
LEMMA SumSupport ==
    ASSUME NEW S, IsFiniteSet(S), NEW f, NEW T \in SUBSET S,
           \A x \in S : f[x] \in Int, \A x \in S \ T : f[x] = 0
    PROVE  SumFunctionOnSet(f, S) = SumFunctionOnSet(f, T)
<1> DEFINE Good == {U \in SUBSET S : T \subseteq U =>
                        SumFunctionOnSet(f, U) = SumFunctionOnSet(f, T)}
<1>1. ASSUME NEW U \in SUBSET S, \A V \in SUBSET U : V # U => V \in Good
      PROVE  U \in Good
  <2>1. CASE ~(T \subseteq U) \/ T = U
    BY <2>1
  <2>2. ASSUME NEW x \in U \ T, T \subseteq U PROVE U \in Good
    <3>1. PICK V : V = U \ {x}
      OBVIOUS
    <3>2. IsFiniteSet(U) /\ IsFiniteSet(V) /\ V \in Good /\ T \subseteq V
      BY <1>1, <2>2, <3>1, FS_Subset
    <3>3. SumFunctionOnSet(f, U) = f[x] + SumFunctionOnSet(f, V)
      BY <3>1, <3>2, SumTake
    <3>4. SumFunctionOnSet(f, V) \in Int
      BY <3>2, SumType
    <3> QED
      BY <3>2, <3>3, <3>4
  <2> QED
    BY <2>1, <2>2
<1>2. Good \in SUBSET SUBSET S
  OBVIOUS
<1>3. S \in Good
  <2> HIDE DEF Good
  <2> QED
    BY <1>1, <1>2, SubsetInduction
<1> QED
  BY <1>3

LEMMA SumOfZeros ==
    ASSUME NEW S, IsFiniteSet(S), NEW f, \A x \in S : f[x] = 0
    PROVE  SumFunctionOnSet(f, S) = 0
<1>1. PICK T : T = {}
  OBVIOUS
<1>2. T \in SUBSET S /\ \A x \in S : f[x] \in Int
  BY <1>1
<1>3. \A x \in S \ T : f[x] = 0
  OBVIOUS
<1>4. SumFunctionOnSet(f, S) = SumFunctionOnSet(f, T)
  BY <1>2, <1>3, SumSupport
<1> QED
  BY <1>1, <1>4, SumEmpty

LEMMA SumOfOne ==
    ASSUME NEW S, IsFiniteSet(S), NEW f, NEW x \in S, f[x] \in Int,
           \A y \in S \ {x} : f[y] = 0
    PROVE  SumFunctionOnSet(f, S) = f[x]
<1>1. PICK U : U = S \ {x}
  OBVIOUS
<1>2. IsFiniteSet(U) /\ \A y \in S : f[y] \in Int
  BY <1>1, FS_Subset
<1>3. SumFunctionOnSet(f, S) = f[x] + SumFunctionOnSet(f, U)
  BY <1>1, <1>2, SumTake
<1>4. SumFunctionOnSet(f, U) = 0
  BY <1>1, <1>2, SumOfZeros
<1> QED
  BY <1>3, <1>4

(* A table is summed by its rows or by its columns.                         *)
IsTable(S, T, F, C, a, b) ==
    /\ IsFiniteSet(S) /\ IsFiniteSet(T)
    /\ \A x \in S : \A t \in T : F[x][t] \in Int /\ C[t][x] = F[x][t]
    /\ \A x \in S : a[x] = SumFunctionOnSet(F[x], T)
    /\ \A t \in T : b[t] = SumFunctionOnSet(C[t], S)

LEMMA SumSwap ==
    ASSUME NEW S, NEW T, NEW F, NEW C, NEW a, NEW b, IsTable(S, T, F, C, a, b)
    PROVE  SumFunctionOnSet(a, S) = SumFunctionOnSet(b, T)
<1> USE DEF IsTable
<1> DEFINE Part(U) == [t \in T |-> SumFunctionOnSet(C[t], U)]
           Good == {U \in SUBSET S :
                      SumFunctionOnSet(a, U) = SumFunctionOnSet(Part(U), T)}
<1>1. ASSUME NEW U \in SUBSET S, \A V \in SUBSET U : V # U => V \in Good
      PROVE  U \in Good
  <2>0. IsFiniteSet(U)
    BY FS_Subset
  <2>1. CASE U = {}
    <3>1. \A t \in T : Part(U)[t] = 0
      BY <2>1, SumEmpty
    <3>2. PICK p : p = Part(U)
      OBVIOUS
    <3>3. SumFunctionOnSet(p, T) = 0
      BY <3>1, <3>2, SumOfZeros
    <3> QED
      BY <2>1, <3>2, <3>3, SumEmpty
  <2>2. ASSUME NEW x \in U PROVE U \in Good
    <3>1. PICK V : V = U \ {x}
      OBVIOUS
    <3>2. IsFiniteSet(V) /\ V \in Good /\ x \in S
      BY <1>1, <2>0, <3>1, FS_Subset
    <3>3. ASSUME NEW t \in T
          PROVE  /\ SumFunctionOnSet(C[t], U) = F[x][t] + SumFunctionOnSet(C[t], V)
                 /\ SumFunctionOnSet(C[t], V) \in Int
      <4>1. \A y \in U : C[t][y] \in Int
        OBVIOUS
      <4>2. PICK f : f = C[t]
        OBVIOUS
      <4>3. SumFunctionOnSet(f, U) = f[x] + SumFunctionOnSet(f, V)
        BY <2>0, <3>1, <4>1, <4>2, SumTake
      <4>4. SumFunctionOnSet(f, V) \in Int
        BY <3>1, <3>2, <4>1, <4>2, SumType
      <4> QED
        BY <3>2, <4>2, <4>3, <4>4
    <3>4. \A y \in U : a[y] \in Int
      <4> SUFFICES ASSUME NEW y \in U PROVE SumFunctionOnSet(F[y], T) \in Int
        OBVIOUS
      <4>1. PICK f : f = F[y]
        OBVIOUS
      <4>2. \A t \in T : f[t] \in Int
        BY <4>1
      <4> QED
        BY <4>1, <4>2, SumType
    <3>5. SumFunctionOnSet(a, U) = a[x] + SumFunctionOnSet(a, V)
      BY <2>0, <3>1, <3>4, SumTake
    <3>6. PICK p, q, r : p = Part(U) /\ q = Part(V) /\ r = F[x]
      OBVIOUS
    <3>7. \A t \in T : r[t] \in Int /\ q[t] \in Int /\ p[t] = r[t] + q[t]
      BY <3>2, <3>3, <3>6
    <3>8. SumFunctionOnSet(p, T) = SumFunctionOnSet(r, T) + SumFunctionOnSet(q, T)
      BY <3>7, SumPlus
    <3>9. SumFunctionOnSet(a, V) = SumFunctionOnSet(q, T)
      BY <3>2, <3>6
    <3> QED
      BY <3>2, <3>5, <3>6, <3>8, <3>9
  <2> QED
    BY <2>1, <2>2
<1>2. Good \in SUBSET SUBSET S
  OBVIOUS
<1>3. S \in Good
  <2> HIDE DEF Good
  <2> QED
    BY <1>1, <1>2, SubsetInduction
<1>4. PICK p : p = Part(S)
  OBVIOUS
<1>5. \A t \in T : p[t] \in Int /\ p[t] = b[t]
  <2> SUFFICES ASSUME NEW t \in T PROVE SumFunctionOnSet(C[t], S) \in Int
    BY <1>4
  <2>1. PICK f : f = C[t]
    OBVIOUS
  <2>2. \A x \in S : f[x] \in Int
    BY <2>1
  <2> QED
    BY <2>1, <2>2, SumType
<1>6. SumFunctionOnSet(p, T) = SumFunctionOnSet(b, T)
  BY <1>5, SumSame
<1> QED
  BY <1>3, <1>4, <1>6

(* The sum over two sets that share nothing.                                *)
LEMMA SumUnion ==
    ASSUME NEW S, IsFiniteSet(S), NEW T, IsFiniteSet(T), S \cap T = {},
           NEW f, \A x \in S \cup T : f[x] \in Int
    PROVE  SumFunctionOnSet(f, S \cup T) = SumFunctionOnSet(f, S) + SumFunctionOnSet(f, T)
<1>1. PICK U : U = S \cup T
  OBVIOUS
<1>2. IsFiniteSet(U)
  BY <1>1, FS_Union
<1>3. PICK g : g = [x \in U |-> IF x \in S THEN f[x] ELSE 0]
  OBVIOUS
<1>4. PICK h : h = [x \in U |-> IF x \in T THEN f[x] ELSE 0]
  OBVIOUS
<1>5. \A x \in U : f[x] \in Int /\ g[x] \in Int /\ h[x] \in Int /\ f[x] = g[x] + h[x]
  BY <1>1, <1>3, <1>4
<1>6. SumFunctionOnSet(f, U) = SumFunctionOnSet(g, U) + SumFunctionOnSet(h, U)
  BY <1>2, <1>5, SumPlus
<1>7. SumFunctionOnSet(g, U) = SumFunctionOnSet(f, S)
  <2>1. S \in SUBSET U /\ \A x \in U \ S : g[x] = 0
    BY <1>1, <1>3
  <2>2. SumFunctionOnSet(g, U) = SumFunctionOnSet(g, S)
    BY <1>2, <1>5, <2>1, SumSupport
  <2>3. \A x \in S : g[x] \in Int /\ g[x] = f[x]
    BY <1>1, <1>3
  <2> QED
    BY <2>2, <2>3, SumSame
<1>8. SumFunctionOnSet(h, U) = SumFunctionOnSet(f, T)
  <2>1. T \in SUBSET U /\ \A x \in U \ T : h[x] = 0
    BY <1>1, <1>4
  <2>2. SumFunctionOnSet(h, U) = SumFunctionOnSet(h, T)
    BY <1>2, <1>5, <2>1, SumSupport
  <2>3. \A x \in T : h[x] \in Int /\ h[x] = f[x]
    BY <1>1, <1>4
  <2> QED
    BY <2>2, <2>3, SumSame
<1> QED
  BY <1>1, <1>6, <1>7, <1>8

(* A sum is the sum of its parts, when each term belongs to one part.       *)
IsGrouping(S, P, f, of, a) ==
    /\ IsFiniteSet(S) /\ IsFiniteSet(P)
    /\ \A x \in S : f[x] \in Int /\ of[x] \in P
    /\ \A p \in P : a[p] = SumFunctionOnSet(f, {x \in S : of[x] = p})

LEMMA SumGrouped ==
    ASSUME NEW S, NEW P, NEW f, NEW of, NEW a, IsGrouping(S, P, f, of, a)
    PROVE  SumFunctionOnSet(a, P) = SumFunctionOnSet(f, S)
<1>0. /\ IsFiniteSet(S) /\ IsFiniteSet(P)
      /\ \A x \in S : f[x] \in Int /\ of[x] \in P
      /\ \A p \in P : a[p] = SumFunctionOnSet(f, {x \in S : of[x] = p})
  BY DEF IsGrouping
<1>1. PICK F : F = [p \in P |-> [x \in S |-> IF of[x] = p THEN f[x] ELSE 0]]
  OBVIOUS
<1>2. PICK C : C = [x \in S |-> [p \in P |-> IF of[x] = p THEN f[x] ELSE 0]]
  OBVIOUS
<1>3. PICK b : b = [x \in S |-> f[x]]
  OBVIOUS
<1>4. \A p \in P : \A x \in S :
        /\ F[p][x] = (IF of[x] = p THEN f[x] ELSE 0) /\ C[x][p] = F[p][x] /\ F[p][x] \in Int
  BY <1>0, <1>1, <1>2
<1>5. ASSUME NEW p \in P PROVE a[p] = SumFunctionOnSet(F[p], S)
  <2>1. PICK Q : Q = {x \in S : of[x] = p}
    OBVIOUS
  <2>2. PICK g : g = F[p]
    OBVIOUS
  <2>3. /\ Q \in SUBSET S /\ \A x \in S : g[x] \in Int
        /\ \A x \in S \ Q : g[x] = 0
        /\ \A x \in Q : g[x] \in Int /\ g[x] = f[x]
    BY <1>4, <2>1, <2>2
  <2>4. SumFunctionOnSet(g, S) = SumFunctionOnSet(g, Q)
    BY <1>0, <2>3, SumSupport
  <2>5. IsFiniteSet(Q)
    BY <1>0, <2>3, FS_Subset
  <2>6. SumFunctionOnSet(g, Q) = SumFunctionOnSet(f, Q)
    BY <2>3, <2>5, SumSame
  <2>7. a[p] = SumFunctionOnSet(f, Q)
    BY <1>0, <2>1
  <2> QED
    BY <2>2, <2>4, <2>6, <2>7
<1>6. ASSUME NEW x \in S PROVE b[x] = SumFunctionOnSet(C[x], P)
  <2>1. PICK g : g = C[x]
    OBVIOUS
  <2>2. PICK p \in P : p = of[x]
    BY <1>0
  <2>3. g[p] = f[x] /\ g[p] \in Int /\ \A y \in P \ {p} : g[y] = 0
    BY <1>0, <1>4, <2>1, <2>2
  <2>4. SumFunctionOnSet(g, P) = g[p]
    BY <1>0, <2>3, SumOfOne
  <2> QED
    BY <1>3, <2>1, <2>3, <2>4
<1>7. IsTable(P, S, F, C, a, b)
  BY <1>0, <1>4, <1>5, <1>6 DEF IsTable
<1>8. SumFunctionOnSet(a, P) = SumFunctionOnSet(b, S)
  BY <1>7, SumSwap
<1>9. SumFunctionOnSet(b, S) = SumFunctionOnSet(f, S)
  BY <1>0, <1>3, SumSame
<1> QED
  BY <1>8, <1>9

(* A constant on a part of a range of units of time.                        *)
LEMMA SumOfRange ==
    ASSUME NEW u \in Int, NEW v \in Int, u <= v, NEW f,
           NEW c \in Int, NEW x \in Int, NEW y \in Int,
           \A t \in u..(v - 1) : f[t] = IF x <= t /\ t < y THEN c ELSE 0
    PROVE  SumFunctionOnSet(f, u..(v - 1)) =
             c * LaterOf(0, EarlierOf(y, v) - LaterOf(x, u))
<1> DEFINE Length(w) == LaterOf(0, EarlierOf(y, w) - LaterOf(x, u))
           Good == {n \in Nat : u + n <= v =>
                      SumFunctionOnSet(f, u..(u + n - 1)) = c * Length(u + n)}
<1>1. 0 \in Good
  <2>1. u..(u + 0 - 1) = {}
    OBVIOUS
  <2>2. Length(u + 0) = 0
    BY DEF LaterOf, EarlierOf
  <2>3. SumFunctionOnSet(f, u..(u + 0 - 1)) = 0
    BY <2>1, SumEmpty
  <2> QED
    BY <2>2, <2>3
<1>2. ASSUME NEW n \in Good PROVE n + 1 \in Good
  <2> SUFFICES ASSUME u + (n + 1) <= v
               PROVE  SumFunctionOnSet(f, u..(u + (n + 1) - 1)) = c * Length(u + (n + 1))
    OBVIOUS
  <2>1. PICK S, U, w : S = u..(u + (n + 1) - 1) /\ U = u..(u + n - 1) /\ w = u + n
    OBVIOUS
  <2>2. w \in S /\ U = S \ {w} /\ IsFiniteSet(S) /\ S \subseteq u..(v - 1) /\ w \in Int
    <3>1. \A t : t \in U <=> t \in S \ {w}
      BY <2>1
    <3>2. IsFiniteSet(S)
      BY <2>1, FS_Interval
    <3>3. w \in S /\ S \subseteq u..(v - 1) /\ w \in Int
      BY <2>1
    <3> QED
      BY <3>1, <3>2, <3>3
  <2>3. \A t \in S : f[t] \in Int
    BY <2>2
  <2>4. SumFunctionOnSet(f, S) = f[w] + SumFunctionOnSet(f, U)
    BY <2>2, <2>3, SumTake
  <2>5. SumFunctionOnSet(f, U) = c * Length(w)
    BY <2>1
  <2>6. f[w] = IF x <= w /\ w < y THEN c ELSE 0
    BY <2>2
  <2>7. /\ Length(w) \in Int
        /\ Length(w + 1) = Length(w) + (IF x <= w /\ w < y THEN 1 ELSE 0)
    BY <2>1, <2>2 DEF LaterOf, EarlierOf
  <2>8. PICK k \in Int : k = Length(w)
    BY <2>7
  <2>9. c * (k + 1) = c * k + c /\ c * k \in Int
    OBVIOUS
  <2>10. w + 1 = u + (n + 1)
    BY <2>1
  <2>11. SumFunctionOnSet(f, S) = c * Length(w + 1)
    <3> HIDE DEF Length
    <3> QED
      BY <2>4, <2>5, <2>6, <2>7, <2>8, <2>9
  <2> QED
    BY <2>1, <2>10, <2>11
<1>3. v - u \in Good
  <2> HIDE DEF Good
  <2>1. Good \in SUBSET Nat
    BY DEF Good
  <2> QED
    BY <1>1, <1>2, <2>1, NaturalInduction
<1>4. u + (v - u) = v
  OBVIOUS
<1> QED
  BY <1>3, <1>4

(* The sum of a constant.                                                   *)
IsConstant(u, v, f, c) ==
    u \in Int /\ v \in Int /\ u <= v /\ c \in Int /\ \A t \in u..(v - 1) : f[t] = c

LEMMA SumOfConstant ==
    ASSUME NEW u, NEW v, NEW f, NEW c, IsConstant(u, v, f, c)
    PROVE  SumFunctionOnSet(f, u..(v - 1)) = c * (v - u)
<1>1. u \in Int /\ v \in Int /\ u <= v /\ c \in Int
  BY DEF IsConstant
<1>2. \A t \in u..(v - 1) : f[t] = IF u <= t /\ t < v THEN c ELSE 0
  BY DEF IsConstant
<1>3. SumFunctionOnSet(f, u..(v - 1)) = c * LaterOf(0, EarlierOf(v, v) - LaterOf(u, u))
  BY <1>1, <1>2, SumOfRange
<1>4. LaterOf(0, EarlierOf(v, v) - LaterOf(u, u)) = v - u
  BY <1>1 DEF LaterOf, EarlierOf
<1> QED
  BY <1>3, <1>4

-----------------------------------------------------------------------------
(* The least and the greatest of some times.                                *)

LEMMA LeastTime ==
    ASSUME NEW S, IsFiniteSet(S), S \subseteq Int, S # {}
    PROVE  Min(S) \in S /\ \A y \in S : Min(S) <= y
<1> DEFINE Good == {T \in SUBSET S : T # {} => \E x \in T : \A y \in T : x <= y}
<1>1. ASSUME NEW T \in SUBSET S, \A U \in SUBSET T : U # T => U \in Good
      PROVE  T \in Good
  <2> SUFFICES ASSUME NEW z \in T PROVE \E x \in T : \A y \in T : x <= y
    OBVIOUS
  <2>1. T \ {z} \in Good
    BY <1>1
  <2>2. CASE T \ {z} = {}
    BY <2>2
  <2>3. CASE T \ {z} # {}
    <3>1. PICK x \in T \ {z} : \A y \in T \ {z} : x <= y
      BY <2>1, <2>3
    <3>2. CASE x <= z
      BY <3>1, <3>2
    <3>3. CASE z <= x
      BY <3>1, <3>3
    <3>4. x \in Int /\ z \in Int
      BY <3>1
    <3> QED
      BY <3>2, <3>3, <3>4
  <2> QED
    BY <2>2, <2>3
<1>2. Good \in SUBSET SUBSET S
  OBVIOUS
<1>3. S \in Good
  <2> HIDE DEF Good
  <2>1. \A T \in SUBSET S : T \in Good
    BY <1>1, <1>2, SubsetInduction
  <2> QED
    BY <2>1
<1>4. \E x \in S : \A y \in S : x <= y
  BY <1>3
<1> QED
  BY <1>4 DEF Min

LEMMA GreatestTime ==
    ASSUME NEW S, IsFiniteSet(S), S \subseteq Int, S # {}
    PROVE  Max(S) \in S /\ \A y \in S : Max(S) >= y
<1> DEFINE Good == {T \in SUBSET S : T # {} => \E x \in T : \A y \in T : x >= y}
<1>1. ASSUME NEW T \in SUBSET S, \A U \in SUBSET T : U # T => U \in Good
      PROVE  T \in Good
  <2> SUFFICES ASSUME NEW z \in T PROVE \E x \in T : \A y \in T : x >= y
    OBVIOUS
  <2>1. T \ {z} \in Good
    BY <1>1
  <2>2. CASE T \ {z} = {}
    BY <2>2
  <2>3. CASE T \ {z} # {}
    <3>1. PICK x \in T \ {z} : \A y \in T \ {z} : x >= y
      BY <2>1, <2>3
    <3>2. CASE x >= z
      BY <3>1, <3>2
    <3>3. CASE z >= x
      BY <3>1, <3>3
    <3>4. x \in Int /\ z \in Int
      BY <3>1
    <3> QED
      BY <3>2, <3>3, <3>4
  <2> QED
    BY <2>2, <2>3
<1>2. Good \in SUBSET SUBSET S
  OBVIOUS
<1>3. S \in Good
  <2> HIDE DEF Good
  <2>1. \A T \in SUBSET S : T \in Good
    BY <1>1, <1>2, SubsetInduction
  <2> QED
    BY <2>1
<1>4. \E x \in S : \A y \in S : x >= y
  BY <1>3
<1> QED
  BY <1>4 DEF Max

LEMMA LesserTime ==
    ASSUME NEW a \in Int, NEW b \in Int
    PROVE  /\ Min({a, b}) = EarlierOf(a, b) /\ Max({a, b}) = LaterOf(a, b)
<1>1. IsFiniteSet({a, b})
  <2>1. IsFiniteSet({} \cup {a}) /\ IsFiniteSet(({} \cup {a}) \cup {b})
    BY FS_EmptySet, FS_AddElement
  <2>2. ({} \cup {a}) \cup {b} = {a, b}
    OBVIOUS
  <2> QED
    BY <2>1, <2>2
<1>2. PICK S : S = {a, b}
  OBVIOUS
<1>3. S \subseteq Int /\ S # {} /\ IsFiniteSet(S)
  BY <1>1, <1>2
<1>4. Min(S) \in S /\ (\A y \in S : Min(S) <= y) /\ Max(S) \in S /\ (\A y \in S : Max(S) >= y)
  BY <1>3, LeastTime, GreatestTime
<1>5. /\ Min(S) \in {a, b} /\ Min(S) <= a /\ Min(S) <= b
      /\ Max(S) \in {a, b} /\ Max(S) >= a /\ Max(S) >= b
  BY <1>2, <1>4
<1> QED
  BY <1>2, <1>5 DEF EarlierOf, LaterOf

(* A hold time is none or longer than nothing.                              *)
IsHold(hold) == hold = Null \/ (hold \in Int /\ hold > 0)

LEMMA HoldType ==
    ASSUME NEW expected, expected = Null \/ expected \in Int
    PROVE  IsHold(HoldSeconds(expected))
<1> SUFFICES ASSUME expected # Null, expected \in Int, expected > 0
             PROVE  /\ HoldSeconds(expected) \in Int
                    /\ HoldSeconds(expected) > 0
  BY DEF HoldSeconds, IsHold
<1>1. PICK m \in Int : m = HoldFactor * expected
  BY HoldAssumption
<1>2. PICK n : n = Max({m, MinHold})
  OBVIOUS
<1>3. n = LaterOf(m, MinHold)
  BY <1>2, LesserTime, HoldAssumption
<1>4. n \in Int /\ n > 0
  BY <1>3, HoldAssumption DEF LaterOf
<1>5. Min({n, MaxHold}) = EarlierOf(n, MaxHold)
  BY <1>4, LesserTime, HoldAssumption
<1>6. HoldSeconds(expected) = EarlierOf(n, MaxHold)
  BY <1>1, <1>2, <1>5 DEF HoldSeconds
<1> QED
  BY <1>4, <1>6, HoldAssumption DEF EarlierOf

(* Hours begin at multiples of their length.                                *)
LEMMA HourOfTime ==
    ASSUME NEW t \in Int
    PROVE  /\ HourOf(t) \in Int
           /\ HourOf(t) <= t /\ t < HourOf(t) + Hour
           /\ \A u \in Int : HourOf(t) <= u /\ u < HourOf(t) + Hour
                               => HourOf(u) = HourOf(t)
<1>1. Hour \in Int /\ Hour > 0
  BY HourAssumption
<1>2. ASSUME NEW u \in Int
      PROVE  /\ u \div Hour \in Int
             /\ (u \div Hour) * Hour <= u /\ u < (u \div Hour) * Hour + Hour
  BY <1>1
<1>3. \A u \in Int : HourOf(u) \in Int
  BY <1>1, <1>2 DEF HourOf
<1>4. \A u \in Int : HourOf(u) <= u /\ u < HourOf(u) + Hour
  BY <1>2 DEF HourOf
<1>5. ASSUME NEW u \in Int, HourOf(t) <= u, u < HourOf(t) + Hour
      PROVE  HourOf(u) = HourOf(t)
  <2>1. PICK p \in Int : p = t \div Hour
    BY <1>2
  <2>2. PICK q \in Int : q = u \div Hour
    BY <1>2
  <2>3. HourOf(t) = p * Hour /\ HourOf(u) = q * Hour
    BY <2>1, <2>2 DEF HourOf
  <2>4. q * Hour < (p + 1) * Hour /\ p * Hour < (q + 1) * Hour
    BY <1>1, <1>3, <1>4, <1>5, <2>3
  <2>5. q < p + 1 /\ p < q + 1
    BY <1>1, <2>4
  <2> QED
    BY <2>3, <2>5
<1> QED
  BY <1>3, <1>4, <1>5

-----------------------------------------------------------------------------
(* The intervals of a list of samples: each begins at a sample and ends     *)
(* before the next or with the hold time, and where a sample stands there   *)
(* is one.                                                                  *)

LEMMA NextSample ==
    ASSUME NEW p, DOMAIN p \subseteq Int, IsFiniteSet(DOMAIN p),
           NEW hold, IsHold(hold),
           NEW s \in DOMAIN p, NEW v \in DOMAIN p, s < v
    PROVE  \E r \in DOMAIN p :
             /\ s < r /\ \A u \in DOMAIN p : s < u => r <= u
             /\ IntervalFrom(p, s, hold) =
                  [from |-> s, power |-> p[s],
                   to |-> IF hold = Null THEN r ELSE EarlierOf(r, s + hold)]
<1>1. PICK L : L = {u \in DOMAIN p : s < u}
  OBVIOUS
<1>2. L \in SUBSET DOMAIN p /\ L # {} /\ L \subseteq Int
  BY <1>1
<1>3. IsFiniteSet(L)
  BY <1>2, FS_Subset
<1>4. PICK r : r = Min(L)
  OBVIOUS
<1>5. r \in L /\ \A y \in L : r <= y
  BY <1>2, <1>3, <1>4, LeastTime
<1>6. hold # Null => Min({r, s + hold}) = EarlierOf(r, s + hold)
  BY <1>1, <1>5, LesserTime DEF IsHold
<1>7. IntervalFrom(p, s, hold) =
        [from |-> s, power |-> p[s],
         to |-> IF hold = Null THEN r ELSE Min({r, s + hold})]
  BY <1>1, <1>4 DEF IntervalFrom
<1> QED
  BY <1>1, <1>5, <1>6, <1>7

LEMMA IntervalsAre ==
    ASSUME NEW p, DOMAIN p \subseteq Int, IsFiniteSet(DOMAIN p),
           NEW hold, IsHold(hold), NEW i \in Intervals(p, hold)
    PROVE  /\ i.from \in DOMAIN p /\ i.to \in Int /\ i.from < i.to
           /\ i = IntervalFrom(p, i.from, hold)
           /\ i = [from |-> i.from, power |-> p[i.from], to |-> i.to]
           /\ \E u \in DOMAIN p : i.to <= u
           /\ \A u \in DOMAIN p : u <= i.from \/ i.to <= u
           /\ hold # Null => i.to <= i.from + hold
<1>1. PICK s \in DOMAIN p, v \in DOMAIN p : s < v /\ i = IntervalFrom(p, s, hold)
  BY DEF Intervals
<1>2. PICK r \in DOMAIN p :
        /\ s < r /\ \A u \in DOMAIN p : s < u => r <= u
        /\ i = [from |-> s, power |-> p[s],
                to |-> IF hold = Null THEN r ELSE EarlierOf(r, s + hold)]
  BY <1>1, NextSample
<1>3. i.from = s /\ i.to = (IF hold = Null THEN r ELSE EarlierOf(r, s + hold))
  BY <1>2
<1>4. i.to \in Int /\ s < i.to /\ i.to <= r /\ (hold # Null => i.to <= s + hold)
  BY <1>2, <1>3 DEF IsHold, EarlierOf
<1>5. i = [from |-> i.from, power |-> p[i.from], to |-> i.to]
  BY <1>2, <1>3
<1>6. \A u \in DOMAIN p : u <= s \/ i.to <= u
  BY <1>2, <1>4
<1> QED
  BY <1>1, <1>3, <1>4, <1>5, <1>6

LEMMA IntervalsFinite ==
    ASSUME NEW p, IsFiniteSet(DOMAIN p), NEW hold
    PROVE  IsFiniteSet(Intervals(p, hold))
<1>1. PICK L : L = {s \in DOMAIN p : \E u \in DOMAIN p : s < u}
  OBVIOUS
<1>2. IsFiniteSet(L)
  BY <1>1, FS_Subset
<1>3. PICK f : f = [s \in L |-> IntervalFrom(p, s, hold)]
  OBVIOUS
<1>4. f \in Surjection(L, Intervals(p, hold))
  BY <1>1, <1>3 DEF Surjection, Intervals
<1> QED
  BY <1>2, <1>4, FS_Surjection

LEMMA IntervalThere ==
    ASSUME NEW p, DOMAIN p \subseteq Int, IsFiniteSet(DOMAIN p),
           NEW hold, IsHold(hold),
           NEW s \in DOMAIN p, NEW t \in Int, NEW v \in DOMAIN p,
           s <= t, t < v, \A u \in DOMAIN p : u <= t => u <= s,
           hold # Null => t < s + hold
    PROVE  \E i \in Intervals(p, hold) : i.from = s /\ i.from <= t /\ t < i.to
<1>1. s < v /\ s \in Int /\ v \in Int
  OBVIOUS
<1>2. PICK r \in DOMAIN p :
        /\ s < r /\ \A u \in DOMAIN p : s < u => r <= u
        /\ IntervalFrom(p, s, hold) =
             [from |-> s, power |-> p[s],
              to |-> IF hold = Null THEN r ELSE EarlierOf(r, s + hold)]
  BY <1>1, NextSample
<1>3. IntervalFrom(p, s, hold) \in Intervals(p, hold)
  BY <1>1 DEF Intervals
<1>4. t < r
  BY <1>1, <1>2
<1>5. PICK i : i = IntervalFrom(p, s, hold)
  OBVIOUS
<1>6. i.from = s /\ i.to = (IF hold = Null THEN r ELSE EarlierOf(r, s + hold))
  BY <1>2, <1>5
<1>7. t < i.to
  BY <1>4, <1>6 DEF EarlierOf
<1> QED
  BY <1>3, <1>5, <1>6, <1>7

LEMMA OneInterval ==
    ASSUME NEW p, DOMAIN p \subseteq Int, IsFiniteSet(DOMAIN p),
           NEW hold, IsHold(hold),
           NEW i \in Intervals(p, hold), NEW j \in Intervals(p, hold), NEW t \in Int,
           i.from <= t, t < i.to, j.from <= t, t < j.to
    PROVE  i = j
<1>1. /\ i.from \in DOMAIN p /\ i.to \in Int /\ i = IntervalFrom(p, i.from, hold)
      /\ \A u \in DOMAIN p : u <= i.from \/ i.to <= u
  BY IntervalsAre
<1>2. /\ j.from \in DOMAIN p /\ j.to \in Int /\ j = IntervalFrom(p, j.from, hold)
      /\ \A u \in DOMAIN p : u <= j.from \/ j.to <= u
  BY IntervalsAre
<1>3. i.from = j.from
  BY <1>1, <1>2
<1> QED
  BY <1>1, <1>2, <1>3

-----------------------------------------------------------------------------
(* Samples of a window, the last of them held, as intervals: each begins at *)
(* one of the samples and stays in the window, and every unit of the window *)
(* where a sample stands lies in one.                                       *)

IsHeld(p, end, hold, last, until) ==
    /\ \A u \in DOMAIN p : u <= last
    /\ until = IF hold = Null THEN end ELSE EarlierOf(end, last + hold)
    /\ CarryOut(p, end, hold) =
         IF until <= last THEN p
         ELSE [t \in DOMAIN p \cup {until} |-> IF t = until THEN p[last] ELSE p[t]]

LEMMA LastHeld ==
    ASSUME NEW p, NEW start \in Int, NEW end \in Int, NEW hold, IsHold(hold),
           DOMAIN p \subseteq start..end, DOMAIN p # {}
    PROVE  \E last \in DOMAIN p : \E until \in Int : IsHeld(p, end, hold, last, until)
<1> DEFINE last == Max(DOMAIN p)
           until == IF hold = Null THEN end ELSE Min({end, last + hold})
<1>1. CarryOut(p, end, hold) =
        IF until <= last THEN p
        ELSE [t \in DOMAIN p \cup {until} |-> IF t = until THEN p[last] ELSE p[t]]
  BY Zenon DEF CarryOut
<1>2. IsFiniteSet(DOMAIN p) /\ DOMAIN p \subseteq Int
  <2>1. PICK S : S = DOMAIN p
    OBVIOUS
  <2>2. S \in SUBSET (start..end) /\ S \subseteq Int
    BY <2>1
  <2>3. IsFiniteSet(S)
    BY <2>2, FS_Interval, FS_Subset
  <2> QED
    BY <2>1, <2>2, <2>3
<1>3. last \in DOMAIN p /\ last \in Int /\ \A u \in DOMAIN p : u <= last
  <2>1. PICK S : S = DOMAIN p
    OBVIOUS
  <2>2. Max(S) \in S /\ \A u \in S : Max(S) >= u
    BY <1>2, <2>1, GreatestTime
  <2>3. last \in DOMAIN p /\ \A u \in DOMAIN p : last >= u
    BY <2>1, <2>2
  <2> HIDE DEF last
  <2> QED
    BY <1>2, <2>3
<1> HIDE DEF last
<1>4. hold # Null => Min({end, last + hold}) = EarlierOf(end, last + hold)
  BY <1>3, LesserTime DEF IsHold
<1>5. until = IF hold = Null THEN end ELSE EarlierOf(end, last + hold)
  BY <1>4
<1> HIDE DEF until
<1>6. until \in Int
  BY <1>3, <1>5 DEF EarlierOf, IsHold
<1>7. IsHeld(p, end, hold, last, until)
  BY <1>1, <1>3, <1>5 DEF IsHeld
<1> QED
  BY <1>3, <1>6, <1>7

LEMMA HeldDomain ==
    ASSUME NEW p, NEW start \in Int, NEW end \in Int, NEW hold, IsHold(hold),
           DOMAIN p \subseteq start..end, p = [s \in DOMAIN p |-> p[s]],
           NEW q, q = CarryOut(p, end, hold)
    PROVE  /\ DOMAIN q \subseteq start..end /\ IsFiniteSet(DOMAIN q)
           /\ DOMAIN p \subseteq DOMAIN q
           /\ \A s \in DOMAIN p : q[s] = p[s]
           /\ \A s \in DOMAIN q \ DOMAIN p : \A u \in DOMAIN q : u <= s
<1>1. DOMAIN q \subseteq start..end /\ DOMAIN p \subseteq DOMAIN q
      /\ (\A s \in DOMAIN p : q[s] = p[s])
      /\ \A s \in DOMAIN q \ DOMAIN p : \A u \in DOMAIN q : u <= s
  <2>1. CASE DOMAIN p = {}
    BY <2>1 DEF CarryOut
  <2>2. CASE DOMAIN p # {}
    <3>0. PICK last \in DOMAIN p, until \in Int : IsHeld(p, end, hold, last, until)
      BY <2>2, LastHeld
    <3>1. /\ \A u \in DOMAIN p : u <= last
          /\ until = IF hold = Null THEN end ELSE EarlierOf(end, last + hold)
          /\ q = IF until <= last THEN p
                 ELSE [t \in DOMAIN p \cup {until} |->
                         IF t = until THEN p[last] ELSE p[t]]
      BY <3>0 DEF IsHeld
    <3>2. CASE until <= last
      BY <3>1, <3>2
    <3>3. CASE ~(until <= last)
      <4>1. q = [t \in DOMAIN p \cup {until} |-> IF t = until THEN p[last] ELSE p[t]]
        BY <3>1, <3>3
      <4>2. until > last /\ until \notin DOMAIN p
        BY <3>1, <3>3
      <4>3. start <= until /\ until <= end
        BY <3>1, <4>2 DEF EarlierOf, IsHold
      <4> QED
        BY <3>1, <4>1, <4>2, <4>3
    <3> QED
      BY <3>2, <3>3
  <2> QED
    BY <2>1, <2>2
<1>2. IsFiniteSet(DOMAIN q)
  <2>1. DOMAIN q \in SUBSET (start..end)
    BY <1>1
  <2> QED
    BY <2>1, FS_Interval, FS_Subset
<1> QED
  BY <1>1, <1>2

LEMMA HeldIntervals ==
    ASSUME NEW p, NEW start \in Int, NEW end \in Int, NEW hold, IsHold(hold),
           DOMAIN p \subseteq start..end, p = [s \in DOMAIN p |-> p[s]],
           NEW q, q = CarryOut(p, end, hold), NEW i \in Intervals(q, hold)
    PROVE  /\ i.from \in DOMAIN p /\ i.to \in Int /\ i.from < i.to /\ i.to <= end
           /\ i = [from |-> i.from, power |-> p[i.from], to |-> i.to]
           /\ \A u \in DOMAIN p : u <= i.from \/ i.to <= u
           /\ hold # Null => i.to <= i.from + hold
<1>1. /\ DOMAIN q \subseteq start..end /\ IsFiniteSet(DOMAIN q)
      /\ DOMAIN p \subseteq DOMAIN q
      /\ \A s \in DOMAIN p : q[s] = p[s]
      /\ \A s \in DOMAIN q \ DOMAIN p : \A u \in DOMAIN q : u <= s
  BY HeldDomain
<1>2. DOMAIN q \subseteq Int
  BY <1>1
<1>3. /\ i.from \in DOMAIN q /\ i.to \in Int /\ i.from < i.to
      /\ i = [from |-> i.from, power |-> q[i.from], to |-> i.to]
      /\ \E u \in DOMAIN q : i.to <= u
      /\ \A u \in DOMAIN q : u <= i.from \/ i.to <= u
      /\ hold # Null => i.to <= i.from + hold
  BY <1>1, <1>2, IntervalsAre
<1>4. PICK u \in DOMAIN q : i.to <= u
  BY <1>3
<1>5. i.from \in DOMAIN p /\ i.to <= end
  BY <1>1, <1>2, <1>3, <1>4
<1> QED
  BY <1>1, <1>3, <1>5

LEMMA HeldThere ==
    ASSUME NEW p, NEW start \in Int, NEW end \in Int, NEW hold, IsHold(hold),
           DOMAIN p \subseteq start..end, p = [s \in DOMAIN p |-> p[s]],
           NEW q, q = CarryOut(p, end, hold),
           NEW s \in DOMAIN p, NEW t \in Int, s <= t, t < end,
           \A u \in DOMAIN p : u <= t => u <= s,
           hold # Null => t < s + hold
    PROVE  \E i \in Intervals(q, hold) : i.from = s /\ i.from <= t /\ t < i.to
<1>1. /\ DOMAIN q \subseteq start..end /\ IsFiniteSet(DOMAIN q)
      /\ DOMAIN p \subseteq DOMAIN q
  BY HeldDomain
<1>2. DOMAIN q \subseteq Int /\ s \in DOMAIN q
  BY <1>1
<1>0. PICK last \in DOMAIN p, until \in Int : IsHeld(p, end, hold, last, until)
  BY LastHeld
<1>3. /\ \A u \in DOMAIN p : u <= last
      /\ until = IF hold = Null THEN end ELSE EarlierOf(end, last + hold)
      /\ q = IF until <= last THEN p
             ELSE [x \in DOMAIN p \cup {until} |->
                     IF x = until THEN p[last] ELSE p[x]]
  BY <1>0 DEF IsHeld
<1>4. \/ last = s
      \/ t < last
  BY <1>2, <1>1, <1>3
<1>5. t < last \/ t < until
  BY <1>1, <1>2, <1>3, <1>4 DEF EarlierOf, IsHold
<1>6. \E v \in DOMAIN q : t < v
  <2>1. CASE until <= last
    BY <1>1, <1>2, <1>3, <1>5, <2>1
  <2>2. CASE ~(until <= last)
    <3>1. DOMAIN q = DOMAIN p \cup {until}
      BY <1>3, <2>2
    <3> QED
      BY <1>5, <3>1
  <2> QED
    BY <2>1, <2>2
<1>7. PICK v \in DOMAIN q : t < v
  BY <1>6
<1>8. ASSUME NEW u \in DOMAIN q, u <= t PROVE u <= s
  <2>1. CASE u \in DOMAIN p
    BY <1>8, <2>1
  <2>2. CASE u \notin DOMAIN p
    <3>1. u = until /\ until > last
      BY <1>3, <2>2
    <3> QED
      BY <1>2, <1>1, <1>3, <1>5, <1>8, <3>1
  <2> QED
    BY <2>1, <2>2
<1> QED
  BY <1>1, <1>2, <1>7, <1>8, IntervalThere

-----------------------------------------------------------------------------
(* The readings of a window, one for each time, saved last.  The list that  *)
(* is read is a function of finitely many positions.                        *)

AreSaved(raw) ==
    /\ IsFiniteSet(DOMAIN raw) /\ DOMAIN raw \subseteq Int
    /\ \A i \in DOMAIN raw : raw[i].ts \in Int

AreReadings(q, raw, start, end) ==
    /\ DOMAIN q \subseteq start..end /\ q = [s \in DOMAIN q |-> q[s]]
    /\ \A s \in DOMAIN q : \E i \in DOMAIN raw :
         /\ raw[i].ts = s /\ q[s] = raw[i].power
         /\ \A j \in DOMAIN raw : raw[j].ts = s => j <= i
    /\ \A i \in DOMAIN raw : raw[i].ts \in start..end => raw[i].ts \in DOMAIN q

LEMMA ReadingsAre ==
    ASSUME NEW raw, AreSaved(raw), NEW start \in Int, NEW end \in Int
    PROVE  AreReadings(Readings(raw, start, end), raw, start, end)
<1> USE DEF AreSaved
<1> DEFINE q == Readings(raw, start, end)
<1> DEFINE Same(s) == {i \in DOMAIN raw : raw[i].ts = s}
<1>1. q = [s \in {raw[i].ts : i \in DOMAIN raw} \cap (start..end) |-> raw[Max(Same(s))].power]
  BY DEF Readings
<1>2. DOMAIN q = {raw[i].ts : i \in DOMAIN raw} \cap (start..end)
  BY <1>1
<1>3. ASSUME NEW s \in DOMAIN q
      PROVE  \E i \in DOMAIN raw : /\ raw[i].ts = s /\ q[s] = raw[i].power
                             /\ \A j \in DOMAIN raw : raw[j].ts = s => j <= i
  <2>1. PICK S : S = Same(s)
    OBVIOUS
  <2>0. PICK k \in DOMAIN raw : raw[k].ts = s
    BY <1>2
  <2>2. S \in SUBSET DOMAIN raw /\ k \in S /\ S \subseteq Int
    BY <2>0, <2>1
  <2>3. IsFiniteSet(S)
    BY <2>2, FS_Subset
  <2>4. PICK m : m = Max(S)
    OBVIOUS
  <2>5. m \in S /\ \A y \in S : m >= y
    BY <2>2, <2>3, <2>4, GreatestTime
  <2>6. q[s] = raw[m].power
    BY <1>1, <1>2, <2>1, <2>4
  <2>7. \A j \in DOMAIN raw : raw[j].ts = s => j <= m
    BY <2>1, <2>2, <2>5
  <2> QED
    BY <2>1, <2>2, <2>5, <2>6, <2>7
<1>4. /\ DOMAIN q \subseteq start..end /\ q = [s \in DOMAIN q |-> q[s]]
      /\ \A i \in DOMAIN raw : raw[i].ts \in start..end => raw[i].ts \in DOMAIN q
  BY <1>1, <1>2
<1> HIDE DEF q
<1>5. AreReadings(q, raw, start, end)
  BY <1>3, <1>4 DEF AreReadings
<1> QED
  BY <1>5 DEF q

(* A window that begins at midnight carries nothing in: what is before it    *)
(* is of another date.                                                      *)
LEMMA NothingBefore ==
    ASSUME NEW raw, AreSaved(raw), NEW start \in Int, NEW end \in Int, NEW hold,
           start % Day = 0
    PROVE  DaySamples(raw, start, end, hold) = CarryOut(Readings(raw, start, end), end, hold)
<1> USE DEF AreSaved
<1>1. SameDate(LastBefore(raw, start), start) = Null
  <2> DEFINE before == {i \in DOMAIN raw : raw[i].ts < start}
             latest == {i \in before : \A j \in before : raw[j].ts <= raw[i].ts}
  <2>1. CASE LastBefore(raw, start) = Null
    BY <2>1 DEF SameDate
  <2>2. CASE LastBefore(raw, start) # Null
    <3>1. before # {}
      BY <2>2 DEF LastBefore
    <3>2. LastBefore(raw, start) = raw[Max(latest)]
      BY <3>1, Zenon DEF LastBefore
    <3>3. Max(latest) \in before
      <4>1. IsFiniteSet(before) /\ before \subseteq DOMAIN raw
        <5>1. before \in SUBSET DOMAIN raw
          OBVIOUS
        <5> HIDE DEF before
        <5> QED
          BY <5>1, FS_Subset
      <4>2. PICK T : T = {raw[i].ts : i \in before}
        OBVIOUS
      <4>3. IsFiniteSet(T) /\ T \subseteq Int /\ T # {}
        <5>1. PICK f : f = [i \in before |-> raw[i].ts]
          OBVIOUS
        <5>2. f \in Surjection(before, T)
          BY <4>2, <5>1 DEF Surjection
        <5>3. IsFiniteSet(T)
          <6> HIDE DEF before
          <6> QED
            BY <4>1, <5>2, FS_Surjection
        <5> QED
          BY <3>1, <4>2, <5>3
      <4>4. Max(T) \in T /\ \A y \in T : Max(T) >= y
        BY <4>3, GreatestTime
      <4>5. PICK m \in before : raw[m].ts = Max(T)
        BY <4>2, <4>4
      <4>6. m \in latest /\ latest \in SUBSET before
        BY <4>2, <4>3, <4>4, <4>5
      <4>7. IsFiniteSet(latest) /\ latest \subseteq Int /\ latest # {}
        <5>1. DOMAIN raw \subseteq Int
          OBVIOUS
        <5>2. latest \subseteq before /\ latest # {}
          <6> HIDE DEF before, latest
          <6> QED
            BY <4>6
        <5> HIDE DEF before, latest
        <5>3. IsFiniteSet(latest)
          BY <4>1, <5>2, FS_Subset
        <5>4. latest \subseteq Int
          BY <4>1, <5>1, <5>2, Zenon
        <5> QED
          BY <5>2, <5>3, <5>4
      <4>8. Max(latest) \in latest
        <5> HIDE DEF latest
        <5> QED
          BY <4>7, GreatestTime
      <4> QED
        BY <4>8
    <3>4. PICK k : k = Max(latest)
      OBVIOUS
    <3>5. k \in DOMAIN raw /\ raw[k].ts < start /\ LastBefore(raw, start) = raw[k]
      BY <3>2, <3>3, <3>4
    <3>6. PICK s : s = raw[k].ts
      OBVIOUS
    <3>7. s \in Int /\ s < start
      BY <3>5, <3>6
    <3>8. DateOf(s) # DateOf(start)
      <4>1. Day \in Int /\ Day > 0 /\ start \in Int /\ start % Day = 0
        BY HourAssumption
      <4>2. start = Day * (start \div Day)
        BY <4>1
      <4>3. (s \div Day) * Day <= s
        BY <3>7, <4>1
      <4>4. s \div Day # start \div Day
        BY <3>7, <4>1, <4>2, <4>3
      <4> QED
        BY <4>4 DEF DateOf
    <3> QED
      BY <3>5, <3>6, <3>8 DEF SameDate
  <2> QED
    BY <2>1, <2>2
<1>2. CarryIn(Readings(raw, start, end), Null, start, hold) = Readings(raw, start, end)
  BY DEF CarryIn
<1> QED
  BY <1>1, <1>2 DEF DaySamples, WindowSamples

-----------------------------------------------------------------------------
(* Energy, unit of time by unit of time.                                    *)

Level(I, t) == SumFunction([i \in I |-> IF i.from <= t /\ t < i.to THEN i.power ELSE 0])

AreIntervals(I) ==
    IsFiniteSet(I) /\ \A i \in I : i.from \in Int /\ i.to \in Int /\ i.power \in Int

LEMMA LevelType ==
    ASSUME NEW I, AreIntervals(I), NEW t PROVE Level(I, t) \in Int
<1>1. PICK f : f = [i \in I |-> IF i.from <= t /\ t < i.to THEN i.power ELSE 0]
  OBVIOUS
<1>2. \A i \in I : f[i] \in Int
  BY <1>1 DEF AreIntervals
<1>3. SumFunctionOnSet(f, I) \in Int
  BY <1>2, SumType DEF AreIntervals
<1> QED
  BY <1>1, <1>3 DEF Level, SumFunction

LEMMA LevelInside ==
    ASSUME NEW I, AreIntervals(I), NEW i \in I, NEW t \in Int, i.from <= t, t < i.to,
           \A j \in I : j.from <= t /\ t < j.to => j = i
    PROVE  Level(I, t) = i.power
<1>1. PICK f : f = [j \in I |-> IF j.from <= t /\ t < j.to THEN j.power ELSE 0]
  OBVIOUS
<1>2. f[i] = i.power /\ f[i] \in Int /\ \A j \in I \ {i} : f[j] = 0
  BY <1>1 DEF AreIntervals
<1>3. SumFunctionOnSet(f, I) = f[i]
  BY <1>2, SumOfOne DEF AreIntervals
<1> QED
  BY <1>1, <1>2, <1>3 DEF Level, SumFunction

LEMMA LevelOutside ==
    ASSUME NEW I, AreIntervals(I), NEW t \in Int,
           \A j \in I : ~(j.from <= t /\ t < j.to)
    PROVE  Level(I, t) = 0
<1>1. PICK f : f = [j \in I |-> IF j.from <= t /\ t < j.to THEN j.power ELSE 0]
  OBVIOUS
<1>2. \A j \in I : f[j] = 0
  BY <1>1
<1>3. SumFunctionOnSet(f, I) = 0
  BY <1>2, SumOfZeros DEF AreIntervals
<1> QED
  BY <1>1, <1>3 DEF Level, SumFunction

(* What the intervals give a stretch of time is the sum of its levels.      *)
IsStretch(I, u, v, a, b) ==
    /\ AreIntervals(I) /\ u \in Int /\ v \in Int /\ u <= v
    /\ \A i \in I : a[i] = i.power * LaterOf(0, EarlierOf(i.to, v) - LaterOf(i.from, u))
    /\ \A t \in u..(v - 1) : b[t] = Level(I, t)

LEMMA StretchSum ==
    ASSUME NEW I, NEW u, NEW v, NEW a, NEW b, IsStretch(I, u, v, a, b)
    PROVE  SumFunctionOnSet(a, I) = SumFunctionOnSet(b, u..(v - 1))
<1> USE DEF IsStretch
<1> DEFINE On(i, t) == IF i.from <= t /\ t < i.to THEN i.power ELSE 0
<1>1. PICK T : T = u..(v - 1)
  OBVIOUS
<1>2. PICK F : F = [i \in I |-> [t \in T |-> On(i, t)]]
  OBVIOUS
<1>3. PICK C : C = [t \in T |-> [i \in I |-> On(i, t)]]
  OBVIOUS
<1>4. IsFiniteSet(T) /\ IsFiniteSet(I)
  BY <1>1, FS_Interval DEF AreIntervals
<1>5. \A i \in I : \A t \in T : F[i][t] \in Int /\ C[t][i] = F[i][t]
  BY <1>2, <1>3 DEF AreIntervals
<1>6. ASSUME NEW i \in I PROVE a[i] = SumFunctionOnSet(F[i], T)
  <2>1. PICK f : f = F[i]
    OBVIOUS
  <2>2. \A t \in u..(v - 1) : f[t] = IF i.from <= t /\ t < i.to THEN i.power ELSE 0
    BY <1>1, <1>2, <2>1
  <2>3. PICK c, x, y : c = i.power /\ x = i.from /\ y = i.to
    OBVIOUS
  <2>4. c \in Int /\ x \in Int /\ y \in Int
    BY <2>3 DEF AreIntervals
  <2>5. \A t \in u..(v - 1) : f[t] = IF x <= t /\ t < y THEN c ELSE 0
    BY <2>2, <2>3
  <2>6. SumFunctionOnSet(f, u..(v - 1)) = c * LaterOf(0, EarlierOf(y, v) - LaterOf(x, u))
    BY <2>4, <2>5, SumOfRange
  <2> QED
    BY <1>1, <2>1, <2>3, <2>6
<1>7. ASSUME NEW t \in T PROVE b[t] = SumFunctionOnSet(C[t], I)
  <2>1. b[t] = Level(I, t)
    BY <1>1
  <2>2. C[t] = [i \in I |-> IF i.from <= t /\ t < i.to THEN i.power ELSE 0]
    BY <1>3
  <2> QED
    BY <2>1, <2>2 DEF Level, SumFunction
<1>8. SumFunctionOnSet(a, I) = SumFunctionOnSet(b, T)
  <2> HIDE DEF On
  <2>1. \A i \in I : a[i] = SumFunctionOnSet(F[i], T)
    BY <1>6
  <2>2. \A t \in T : b[t] = SumFunctionOnSet(C[t], I)
    BY <1>7
  <2>3. IsTable(I, T, F, C, a, b)
    BY <1>4, <1>5, <2>1, <2>2 DEF IsTable
  <2> QED
    BY <2>3, SumSwap
<1> QED
  BY <1>1, <1>8

(* The energy by hour, of any set of intervals.                             *)
Touched(I) == UNION {{HourOf(t) : t \in i.from..(i.to - 1)} : i \in I}
Energy(I, h) == SumFunction([i \in I |-> i.power * Overlap(i, h)])
Levels(I, h) == SumFunction([t \in h..(h + Hour - 1) |-> Level(I, t)])

LEMMA HourEnergy ==
    ASSUME NEW I, AreIntervals(I), NEW f, f = IntegrateHourly(I)
    PROVE  /\ \A h \in DOMAIN f : h \in Int /\ HourOf(h) = h /\ f[h] \in Int
           /\ \A h \in DOMAIN f : \E i \in I : \E t \in Int :
                HourOf(t) = h /\ i.from <= t /\ t < i.to
           /\ \A i \in I : \A t \in Int :
                i.from <= t /\ t < i.to => HourOf(t) \in DOMAIN f
           /\ \A h \in Int : HourOf(h) = h =>
                (IF h \in DOMAIN f THEN f[h] ELSE 0) = Levels(I, h)
<1>1. f = [h \in Touched(I) |-> Energy(I, h)]
  BY Zenon DEF IntegrateHourly, Touched, Energy
<1>t. DOMAIN f = Touched(I)
  BY <1>1
<1>2. \A h \in DOMAIN f : \E i \in I : \E t \in Int :
        HourOf(t) = h /\ i.from <= t /\ t < i.to
  BY <1>t DEF AreIntervals, Touched
<1>3. \A i \in I : \A t \in Int :
        i.from <= t /\ t < i.to => HourOf(t) \in DOMAIN f
  BY <1>t DEF AreIntervals, Touched
<1>4. ASSUME NEW h \in Int
      PROVE  Energy(I, h) = Levels(I, h)
  <2>1. PICK a : a = [i \in I |-> i.power * Overlap(i, h)]
    OBVIOUS
  <2>2. PICK b : b = [t \in h..(h + Hour - 1) |-> Level(I, t)]
    OBVIOUS
  <2>3. PICK v : v = h + Hour
    OBVIOUS
  <2>4. v \in Int /\ h <= v
    BY <2>3, HourAssumption
  <2>5. \A i \in I : a[i] = i.power * LaterOf(0, EarlierOf(i.to, v) - LaterOf(i.from, h))
    BY <2>1, <2>3 DEF Overlap
  <2>6. \A t \in h..(v - 1) : b[t] = Level(I, t)
    BY <2>2, <2>3, HourAssumption
  <2>7. SumFunctionOnSet(a, I) = SumFunctionOnSet(b, h..(v - 1))
    <3>1. IsStretch(I, h, v, a, b)
      BY <2>4, <2>5, <2>6 DEF IsStretch
    <3> QED
      BY <3>1, StretchSum
  <2>8. DOMAIN a = I /\ DOMAIN b = h..(v - 1)
    BY <2>1, <2>2, <2>3, HourAssumption
  <2> QED
    BY <2>1, <2>2, <2>7, <2>8, <2>3 DEF SumFunction, Energy, Levels
<1>5. ASSUME NEW h \in Int
      PROVE  Levels(I, h) \in Int
  <2>1. PICK b : b = [t \in h..(h + Hour - 1) |-> Level(I, t)]
    OBVIOUS
  <2>2. IsFiniteSet(h..(h + Hour - 1))
    BY FS_Interval, HourAssumption
  <2>3. \A t \in h..(h + Hour - 1) : b[t] \in Int
    BY <2>1, LevelType
  <2>4. SumFunctionOnSet(b, h..(h + Hour - 1)) \in Int
    BY <2>2, <2>3, SumType
  <2> QED
    BY <2>1, <2>4 DEF SumFunction, Levels
<1>6. \A h \in DOMAIN f : h \in Int /\ HourOf(h) = h /\ f[h] \in Int
  <2> SUFFICES ASSUME NEW h \in DOMAIN f PROVE h \in Int /\ HourOf(h) = h /\ f[h] \in Int
    OBVIOUS
  <2>1. PICK t \in Int : HourOf(t) = h
    BY <1>2
  <2>2. h \in Int /\ HourOf(h) = h
    <3>1. Hour > 0 /\ Hour \in Int
      BY HourAssumption
    <3> QED
      BY <2>1, <3>1, HourOfTime
  <2>3. f[h] = Energy(I, h)
    BY <1>1
  <2> QED
    BY <1>4, <1>5, <2>2, <2>3
<1>7. ASSUME NEW h \in Int, HourOf(h) = h
      PROVE  (IF h \in DOMAIN f THEN f[h] ELSE 0) = Levels(I, h)
  <2>1. CASE h \in DOMAIN f
    <3>1. f[h] = Energy(I, h)
      BY <1>1, <2>1
    <3> QED
      BY <1>4, <2>1, <3>1
  <2>2. CASE h \notin DOMAIN f
    <3>1. PICK b : b = [t \in h..(h + Hour - 1) |-> Level(I, t)]
      OBVIOUS
    <3>2. ASSUME NEW t \in h..(h + Hour - 1) PROVE b[t] = 0
      <4>1. t \in Int /\ HourOf(t) = h
        BY <1>7, HourOfTime, HourAssumption
      <4>2. \A i \in I : ~(i.from <= t /\ t < i.to)
        BY <1>3, <2>2, <4>1
      <4> QED
        BY <3>1, <4>1, <4>2, LevelOutside
    <3>3. IsFiniteSet(h..(h + Hour - 1))
      BY FS_Interval, HourAssumption
    <3>4. SumFunctionOnSet(b, h..(h + Hour - 1)) = 0
      BY <3>2, <3>3, SumOfZeros
    <3> QED
      BY <2>2, <3>1, <3>4 DEF SumFunction, Levels
  <2> QED
    BY <2>1, <2>2
<1> QED
  BY <1>2, <1>3, <1>6, <1>7
=============================================================================
