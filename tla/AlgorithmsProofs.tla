-------------------------- MODULE AlgorithmsProofs --------------------------
(***************************************************************************)
(* Proofs about the algorithms, for any inputs the callers give: what the  *)
(* data room and the month-end reports say, interest, forecasts and        *)
(* financing options, files read line by line, the anomalies of a scan,    *)
(* and what the matcher proposes; and about AuditChain, for every set of   *)
(* transactions, however many rows each writes and however many rows are   *)
(* edited: the inductive invariant ChainSound, that every edit is found,   *)
(* and that a chain built without overlaps verifies and reports the        *)
(* earliest edited row.                                                    *)
(***************************************************************************)
EXTENDS AuditChain, Algorithms, FiniteSetTheorems, WellFoundedInduction, TLAPS

-----------------------------------------------------------------------------
(* Numbers.                                                                 *)

LEMMA LeastOf ==
  ASSUME NEW T \in SUBSET Nat, T # {}
  PROVE  \E x \in T : \A y \in T : x <= y
  <1> DEFINE Less == {p \in Nat \X Nat : p[1] < p[2]}
  <1>1. IsWellFoundedOn(Less, Nat)
    BY NatLessThanWellFounded DEF OpToRel
  <1>2. PICK x \in T : \A y \in T : <<y, x>> \notin Less
    <2> HIDE DEF Less
    <2> QED BY <1>1, WFMin
  <1>3. ASSUME NEW y \in T PROVE x <= y
    <2>1. y \in Nat /\ x \in Nat /\ <<y, x>> \in Nat \X Nat
      OBVIOUS
    <2>2. ~(y < x)
      BY <1>2, <2>1
    <2> QED BY <2>1, <2>2
  <1> QED BY <1>3

\* What holds of 0 and goes from each number to the next holds up to N.
LEMMA UpTo ==
  ASSUME NEW N \in Nat, NEW Good, 0 \in Good,
         \A n \in 1..N : n - 1 \in Good => n \in Good
  PROVE  \A n \in 0..N : n \in Good
  <1> DEFINE T == {n \in 0..N : n \notin Good}
  <1> SUFFICES ASSUME T # {} PROVE FALSE
    OBVIOUS
  <1>1. PICK x \in T : \A y \in T : x <= y
    <2>1. T \in SUBSET Nat
      OBVIOUS
    <2> HIDE DEF T
    <2> QED BY <2>1, LeastOf
  <1>2. x # 0 /\ x \in 0..N
    OBVIOUS
  <1>3. x \in 1..N /\ x - 1 \in 0..N /\ x - 1 < x
    BY <1>2
  <1>4. x - 1 \in Good
    BY <1>1, <1>3
  <1> QED BY <1>3, <1>4
-----------------------------------------------------------------------------
(* Sums over finite sets.                                                   *)

\* The element a sum takes next, and what it is then.
Pick(s) == CHOOSE x \in s : TRUE
PickFirst(f, g, s) == IF s = {} THEN 0 ELSE f[Pick(s)] + g[s \ {Pick(s)}]
Adds(g, f, S) == g = [s \in SUBSET S |-> PickFirst(f, g, s)]
SumsOver(g, f, S) == g \in [SUBSET S -> Int] /\ \A s \in SUBSET S : g[s] = PickFirst(f, g, s)
Whole(f, S) == \A x \in S : f[x] \in Int

LEMMA SumIsLast ==
  ASSUME NEW f, NEW S
  PROVE  SumFunctionOnSet(f, S) = (CHOOSE g : Adds(g, f, S))[S]
  BY DEF Adds, PickFirst, Pick, SumFunctionOnSet, FoldFunctionOnSet, MapThenFoldSet

LEMMA AnyOf ==
  ASSUME NEW s, s # {}
  PROVE  Pick(s) \in s
  BY DEF Pick

\* The subsets of a finite set with at most n elements.
UpToSize(S, n) == {s \in SUBSET S : Cardinality(s) <= n}
LEMMA Sizes ==
  ASSUME NEW S, IsFiniteSet(S)
  PROVE  /\ Cardinality(S) \in Nat /\ UpToSize(S, Cardinality(S)) = SUBSET S
         /\ UpToSize(S, 0) = {{}}
         /\ \A s \in SUBSET S : IsFiniteSet(s) /\ Cardinality(s) \in 0..Cardinality(S)
         /\ \A s \in SUBSET S : \A x \in s : Cardinality(s \ {x}) = Cardinality(s) - 1
  <1>1. Cardinality(S) \in Nat
    BY FS_CardinalityType
  <1>2. \A s \in SUBSET S : IsFiniteSet(s) /\ Cardinality(s) \in Nat /\ Cardinality(s) <= Cardinality(S)
    BY FS_Subset, FS_CardinalityType
  <1>3. \A s \in SUBSET S : \A x \in s : Cardinality(s \ {x}) = Cardinality(s) - 1
    BY <1>2, FS_RemoveElement
  <1>4. \A s \in SUBSET S : Cardinality(s) = 0 <=> s = {}
    BY <1>2, FS_EmptySet
  <1>5. Cardinality({}) = 0
    BY FS_EmptySet
  <1>6. UpToSize(S, Cardinality(S)) = SUBSET S
    BY <1>2 DEF UpToSize
  <1>7. UpToSize(S, 0) = {{}}
    BY <1>2, <1>4, <1>5 DEF UpToSize
  <1> QED BY <1>1, <1>2, <1>3, <1>6, <1>7

\* What holds of every subset of a finite set once it holds of those with one
\* element less.
LEMMA SmallerFirst ==
  ASSUME NEW S, IsFiniteSet(S), NEW Good,
         \A s \in SUBSET S : (\A x \in s : s \ {x} \in Good) => s \in Good
  PROVE  \A s \in SUBSET S : s \in Good
  <1> DEFINE N == Cardinality(S)
             Fine == {n \in 0..N : UpToSize(S, n) \subseteq Good}
  <1>1. N \in Nat /\ UpToSize(S, N) = SUBSET S
    BY Sizes
  <1>2. 0 \in Fine
    <2>1. {} \in Good
      OBVIOUS
    <2> QED BY <1>1, <2>1, Sizes
  <1>3. ASSUME NEW n \in 1..N, n - 1 \in Fine PROVE n \in Fine
    <2>1. ASSUME NEW s \in UpToSize(S, n) PROVE s \in Good
      <3>1. s \in SUBSET S /\ Cardinality(s) \in Nat /\ Cardinality(s) <= n
        BY Sizes, <1>1 DEF UpToSize
      <3>2. ASSUME NEW x \in s PROVE s \ {x} \in Good
        <4>1. s \ {x} \in UpToSize(S, n - 1)
          BY <3>1, Sizes, <1>1 DEF UpToSize
        <4> QED BY <1>3, <4>1
      <3> QED BY <3>1, <3>2
    <2> QED BY <2>1, <1>1
  <1>4. N \in Fine
    <2> HIDE DEF N, Fine
    <2>1. \A n \in 0..N : n \in Fine
      BY <1>1, <1>2, <1>3, UpTo
    <2> QED BY <1>1, <2>1
  <1> QED BY <1>1, <1>4

\* Of the sums so far there is one for each size.
LEMMA SumsExist ==
  ASSUME NEW S, IsFiniteSet(S), NEW f, Whole(f, S)
  PROVE  \E g : SumsOver(g, f, S)
  <1> DEFINE N == Cardinality(S)
             Good == {n \in 0..N : \E g \in [UpToSize(S, n) -> Int] :
                        \A s \in UpToSize(S, n) : g[s] = PickFirst(f, g, s)}
  <1>1. N \in Nat /\ UpToSize(S, N) = SUBSET S
    BY Sizes
  <1>2. 0 \in Good
    <2> DEFINE g == [s \in UpToSize(S, 0) |-> 0]
    <2>1. g \in [UpToSize(S, 0) -> Int] /\ \A s \in UpToSize(S, 0) : g[s] = PickFirst(f, g, s)
      BY Sizes DEF PickFirst
    <2> HIDE DEF g
    <2> QED BY <1>1, <2>1
  <1>3. ASSUME NEW n \in 1..N, n - 1 \in Good PROVE n \in Good
    <2>1. PICK g \in [UpToSize(S, n - 1) -> Int] : \A s \in UpToSize(S, n - 1) : g[s] = PickFirst(f, g, s)
      BY <1>3
    <2> DEFINE h == [s \in UpToSize(S, n) |-> PickFirst(f, g, s)]
    <2>2. ASSUME NEW s \in UpToSize(S, n), s # {}
          PROVE  Pick(s) \in s /\ Pick(s) \in S /\ f[Pick(s)] \in Int /\ s \ {Pick(s)} \in UpToSize(S, n - 1)
      <3>1. Pick(s) \in s /\ s \in SUBSET S
        BY <2>2, AnyOf DEF UpToSize
      <3>2. s \ {Pick(s)} \in UpToSize(S, n - 1)
        BY <1>1, <3>1, Sizes DEF UpToSize
      <3> QED BY <3>1, <3>2 DEF Whole
    <2>3. h \in [UpToSize(S, n) -> Int]
      BY <2>2 DEF PickFirst
    <2>4. ASSUME NEW s \in UpToSize(S, n - 1) PROVE s \in UpToSize(S, n) /\ h[s] = g[s]
      <3>1. s \in UpToSize(S, n)
        BY <1>1, Sizes DEF UpToSize
      <3> QED BY <2>1, <3>1
    <2> HIDE DEF h
    <2>5. ASSUME NEW s \in UpToSize(S, n) PROVE h[s] = PickFirst(f, h, s)
      <3>1. h[s] = PickFirst(f, g, s)
        BY DEF h
      <3> QED BY <2>2, <2>4, <3>1 DEF PickFirst
    <2> QED BY <2>3, <2>5
  <1>4. N \in Good
    <2> HIDE DEF N, Good
    <2>1. \A n \in 0..N : n \in Good
      BY <1>1, <1>2, <1>3, UpTo
    <2> QED BY <1>1, <2>1
  <1> QED BY <1>1, <1>4 DEF SumsOver

\* The function a sum is read from.
LEMMA SumsAre ==
  ASSUME NEW S, IsFiniteSet(S), NEW f, Whole(f, S)
  PROVE  \E g : SumsOver(g, f, S) /\ SumFunctionOnSet(f, S) = g[S]
  <1>1. PICK g : SumsOver(g, f, S)
    BY Zenon, SumsExist
  <1>2. Adds(g, f, S)
    BY <1>1 DEF Adds, SumsOver
  <1> DEFINE h == CHOOSE h : Adds(h, f, S)
  <1>3. Adds(h, f, S)
    BY <1>2
  <1>4. SumFunctionOnSet(f, S) = h[S]
    BY SumIsLast
  <1> HIDE DEF h
  <1>5. DOMAIN h = SUBSET S /\ h = [s \in SUBSET S |-> h[s]] /\ \A s \in SUBSET S : h[s] = PickFirst(f, h, s)
    BY <1>3 DEF Adds
  <1>6. \A s \in SUBSET S : h[s] \in Int
    <2> DEFINE Good == {s \in SUBSET S : h[s] \in Int}
    <2>1. ASSUME NEW s \in SUBSET S, \A x \in s : s \ {x} \in Good PROVE s \in Good
      <3>1. h[s] = PickFirst(f, h, s)
        BY <1>5
      <3>2. CASE s = {}
        BY <3>1, <3>2 DEF PickFirst
      <3>3. CASE s # {}
        <4>1. Pick(s) \in s /\ f[Pick(s)] \in Int
          BY <3>3, AnyOf DEF Whole
        <4>2. h[s \ {Pick(s)}] \in Int
          BY <2>1, <4>1
        <4> QED BY <3>1, <3>3, <4>1, <4>2 DEF PickFirst
      <3> QED BY <3>2, <3>3
    <2> HIDE DEF Good
    <2>2. \A s \in SUBSET S : s \in Good
      BY <2>1, SmallerFirst
    <2> QED BY <2>2 DEF Good
  <1>7. SumsOver(h, f, S)
    BY <1>5, <1>6 DEF SumsOver
  <1> QED BY <1>4, <1>7

\* A sum may take any element first.
LEMMA AnyOther ==
  ASSUME NEW S, IsFiniteSet(S), NEW f, Whole(f, S),
         NEW g, SumsOver(g, f, S), NEW t \in SUBSET S, NEW z \in t
  PROVE  g[t] = f[z] + g[t \ {z}]
  <1> DEFINE Good == {s \in SUBSET S : \A x \in s : g[s] = f[x] + g[s \ {x}]}
  <1>1. ASSUME NEW s \in SUBSET S, \A x \in s : s \ {x} \in Good PROVE s \in Good
    <2> SUFFICES ASSUME NEW x \in s PROVE g[s] = f[x] + g[s \ {x}]
      OBVIOUS
    <2> DEFINE y == Pick(s)
    <2>1. y \in s /\ g[s] = f[y] + g[s \ {y}]
      BY AnyOf DEF PickFirst, SumsOver
    <2> HIDE DEF y
    <2>2. CASE x # y
      <3>1. g[s \ {y}] = f[x] + g[(s \ {y}) \ {x}] /\ g[s \ {x}] = f[y] + g[(s \ {x}) \ {y}]
        BY <1>1, <2>1, <2>2
      <3>2. (s \ {y}) \ {x} = (s \ {x}) \ {y} /\ (s \ {x}) \ {y} \in SUBSET S
        OBVIOUS
      <3>3. f[x] \in Int /\ f[y] \in Int /\ g[(s \ {x}) \ {y}] \in Int
        BY <2>1, <3>2 DEF Whole, SumsOver
      <3> DEFINE both == g[(s \ {x}) \ {y}]
      <3>4. g[s] = f[y] + (f[x] + both) /\ g[s \ {x}] = f[y] + both /\ both \in Int
        BY <2>1, <3>1, <3>2, <3>3
      <3> HIDE DEF both
      <3> QED BY <3>3, <3>4
    <2> QED BY <2>1, <2>2
  <1> HIDE DEF Good
  <1>2. \A s \in SUBSET S : s \in Good
    BY <1>1, SmallerFirst
  <1>3. t \in Good
    BY <1>2
  <1> QED BY <1>3 DEF Good

\* The function gives the sum over each subset.
LEMMA SumsOfSubsets ==
  ASSUME NEW S, IsFiniteSet(S), NEW f, Whole(f, S), NEW T \in SUBSET S,
         NEW g, SumsOver(g, f, S)
  PROVE  SumFunctionOnSet(f, T) = g[T]
  <1>1. IsFiniteSet(T) /\ Whole(f, T)
    BY FS_Subset DEF Whole
  <1>2. PICK h : SumsOver(h, f, T) /\ SumFunctionOnSet(f, T) = h[T]
    BY Zenon, <1>1, SumsAre
  <1> DEFINE Good == {s \in SUBSET T : h[s] = g[s]}
  <1>3. ASSUME NEW s \in SUBSET T, \A x \in s : s \ {x} \in Good PROVE s \in Good
    <2>1. h[s] = PickFirst(f, h, s) /\ g[s] = PickFirst(f, g, s)
      BY <1>2 DEF SumsOver
    <2> QED BY <1>3, <2>1, AnyOf DEF PickFirst
  <1> HIDE DEF Good
  <1>4. \A s \in SUBSET T : s \in Good
    BY <1>1, <1>3, SmallerFirst
  <1> QED BY <1>2, <1>4 DEF Good

LEMMA SumOfNone ==
  ASSUME NEW f
  PROVE  SumFunctionOnSet(f, {}) = 0
  <1>1. IsFiniteSet({}) /\ Whole(f, {})
    BY FS_EmptySet DEF Whole
  <1>2. PICK g : SumsOver(g, f, {}) /\ SumFunctionOnSet(f, {}) = g[{}]
    BY Zenon, <1>1, SumsAre
  <1> QED BY <1>2 DEF PickFirst, SumsOver

\* A sum, and an element of it apart.
LEMMA SumOfMore ==
  ASSUME NEW S, IsFiniteSet(S), NEW f, Whole(f, S), NEW x \in S
  PROVE  SumFunctionOnSet(f, S) = f[x] + SumFunctionOnSet(f, S \ {x})
  <1>1. PICK g : SumsOver(g, f, S)
    BY Zenon, SumsAre
  <1>0. S \in SUBSET S /\ S \ {x} \in SUBSET S
    OBVIOUS
  <1>2. SumFunctionOnSet(f, S) = g[S] /\ SumFunctionOnSet(f, S \ {x}) = g[S \ {x}]
    BY Zenon, <1>1, SumsOfSubsets, <1>0
  <1>3. g[S] = f[x] + g[S \ {x}]
    BY <1>0, <1>1, AnyOther
  <1> QED BY <1>2, <1>3

LEMMA SumType ==
  ASSUME NEW S, IsFiniteSet(S), NEW f, Whole(f, S)
  PROVE  SumFunctionOnSet(f, S) \in Int
  <1>1. PICK g : SumsOver(g, f, S) /\ SumFunctionOnSet(f, S) = g[S]
    BY Zenon, SumsAre
  <1> QED BY <1>1 DEF SumsOver

LEMMA SumSame ==
  ASSUME NEW S, IsFiniteSet(S), NEW f, NEW h, Whole(f, S), \A x \in S : f[x] = h[x]
  PROVE  SumFunctionOnSet(f, S) = SumFunctionOnSet(h, S)
  <1> DEFINE Good == {s \in SUBSET S : SumFunctionOnSet(f, s) = SumFunctionOnSet(h, s)}
  <1>1. Whole(h, S)
    BY DEF Whole
  <1>2. ASSUME NEW s \in SUBSET S, \A x \in s : s \ {x} \in Good PROVE s \in Good
    <2>1. CASE s = {}
      BY <2>1, SumOfNone
    <2>2. ASSUME NEW x \in s PROVE SumFunctionOnSet(f, s) = SumFunctionOnSet(h, s)
      <3>1. IsFiniteSet(s) /\ Whole(f, s) /\ Whole(h, s)
        BY <1>1, FS_Subset DEF Whole
      <3>2. /\ SumFunctionOnSet(f, s) = f[x] + SumFunctionOnSet(f, s \ {x})
            /\ SumFunctionOnSet(h, s) = h[x] + SumFunctionOnSet(h, s \ {x})
        BY Zenon, <3>1, SumOfMore
      <3>3. SumFunctionOnSet(f, s \ {x}) = SumFunctionOnSet(h, s \ {x})
        BY <1>2
      <3> QED BY <3>2, <3>3
    <2> QED BY <2>1, <2>2
  <1> HIDE DEF Good
  <1>3. \A s \in SUBSET S : s \in Good
    BY <1>2, SmallerFirst
  <1> QED BY <1>3 DEF Good

\* Sums over two sets that share nothing.
LEMMA SumOfBoth ==
  ASSUME NEW S, IsFiniteSet(S), NEW f, Whole(f, S), NEW T \in SUBSET S
  PROVE  SumFunctionOnSet(f, S) = SumFunctionOnSet(f, T) + SumFunctionOnSet(f, S \ T)
  <1> DEFINE U == S \ T
             Good == {s \in SUBSET T : SumFunctionOnSet(f, s \cup U) = SumFunctionOnSet(f, s) + SumFunctionOnSet(f, U)}
  <1>1. ASSUME NEW s \in SUBSET S PROVE IsFiniteSet(s) /\ Whole(f, s) /\ SumFunctionOnSet(f, s) \in Int
    <2>1. IsFiniteSet(s) /\ Whole(f, s)
      BY FS_Subset DEF Whole
    <2> QED BY <2>1, SumType
  <1>2. ASSUME NEW s \in SUBSET T, \A x \in s : s \ {x} \in Good PROVE s \in Good
    <2>1. CASE s = {}
      <3>1. s \cup U = U /\ SumFunctionOnSet(f, s) = 0 /\ SumFunctionOnSet(f, U) \in Int
        BY <1>1, <2>1, SumOfNone
      <3> QED BY <3>1
    <2>2. ASSUME NEW x \in s PROVE SumFunctionOnSet(f, s \cup U) = SumFunctionOnSet(f, s) + SumFunctionOnSet(f, U)
      <3> DEFINE less == s \ {x}
      <3>1. x \in s \cup U /\ (s \cup U) \ {x} = less \cup U /\ s \in SUBSET S /\ U \in SUBSET S /\ s \cup U \in SUBSET S
            /\ less \in SUBSET S /\ x \in S
        OBVIOUS
      <3>2. /\ SumFunctionOnSet(f, s) = f[x] + SumFunctionOnSet(f, less)
            /\ SumFunctionOnSet(f, s \cup U) = f[x] + SumFunctionOnSet(f, less \cup U)
        BY <1>1, <3>1, SumOfMore
      <3>3. SumFunctionOnSet(f, less \cup U) = SumFunctionOnSet(f, less) + SumFunctionOnSet(f, U)
        BY <1>2
      <3>4. SumFunctionOnSet(f, less) \in Int /\ SumFunctionOnSet(f, U) \in Int /\ f[x] \in Int
        BY <1>1, <3>1 DEF Whole
      <3> HIDE DEF less, U
      <3> QED BY <3>2, <3>3, <3>4
    <2> QED BY <2>1, <2>2
  <1>3. T \cup U = S /\ IsFiniteSet(T)
    BY <1>1
  <1> HIDE DEF Good, U
  <1>4. \A s \in SUBSET T : s \in Good
    BY <1>2, <1>3, SmallerFirst
  <1> QED BY <1>3, <1>4 DEF Good, U

LEMMA SumAtMost ==
  ASSUME NEW S, IsFiniteSet(S), NEW f, NEW h, Whole(f, S), Whole(h, S), \A x \in S : f[x] <= h[x]
  PROVE  SumFunctionOnSet(f, S) <= SumFunctionOnSet(h, S)
  <1> DEFINE Good == {s \in SUBSET S : SumFunctionOnSet(f, s) <= SumFunctionOnSet(h, s)}
  <1>2. ASSUME NEW s \in SUBSET S, \A x \in s : s \ {x} \in Good PROVE s \in Good
    <2>1. CASE s = {}
      BY <2>1, SumOfNone
    <2>2. ASSUME NEW x \in s PROVE SumFunctionOnSet(f, s) <= SumFunctionOnSet(h, s)
      <3>1. /\ IsFiniteSet(s) /\ Whole(f, s) /\ Whole(h, s)
            /\ IsFiniteSet(s \ {x}) /\ Whole(f, s \ {x}) /\ Whole(h, s \ {x})
        BY FS_Subset DEF Whole
      <3>2. /\ SumFunctionOnSet(f, s) = f[x] + SumFunctionOnSet(f, s \ {x})
            /\ SumFunctionOnSet(h, s) = h[x] + SumFunctionOnSet(h, s \ {x})
        BY Zenon, <3>1, SumOfMore
      <3>3. SumFunctionOnSet(f, s \ {x}) <= SumFunctionOnSet(h, s \ {x})
        BY <1>2
      <3>4. SumFunctionOnSet(f, s \ {x}) \in Int /\ SumFunctionOnSet(h, s \ {x}) \in Int
        BY <3>1, SumType
      <3>5. f[x] \in Int /\ h[x] \in Int /\ f[x] <= h[x]
        BY DEF Whole
      <3> QED BY <3>2, <3>3, <3>4, <3>5
    <2> QED BY <2>1, <2>2
  <1> HIDE DEF Good
  <1>3. \A s \in SUBSET S : s \in Good
    BY <1>2, SmallerFirst
  <1> QED BY <1>3 DEF Good

LEMMA SumOfZeros ==
  ASSUME NEW S, IsFiniteSet(S), NEW f, \A x \in S : f[x] = 0
  PROVE  SumFunctionOnSet(f, S) = 0
  <1> DEFINE Good == {s \in SUBSET S : SumFunctionOnSet(f, s) = 0}
  <1>1. ASSUME NEW s \in SUBSET S, \A x \in s : s \ {x} \in Good PROVE s \in Good
    <2>1. IsFiniteSet(s) /\ Whole(f, s)
      BY FS_Subset DEF Whole
    <2>2. ASSUME NEW x \in s PROVE SumFunctionOnSet(f, s) = 0
      <3>1. SumFunctionOnSet(f, s) = f[x] + SumFunctionOnSet(f, s \ {x})
        BY Zenon, <2>1, SumOfMore
      <3> QED BY <1>1, <3>1
    <2> QED BY <2>2, SumOfNone
  <1> HIDE DEF Good
  <1>3. \A s \in SUBSET S : s \in Good
    BY <1>1, SmallerFirst
  <1> QED BY <1>3 DEF Good

\* A sum of whole numbers is not negative, nor less than that of a part.
LEMMA SumOfParts ==
  ASSUME NEW S, IsFiniteSet(S), NEW f, \A x \in S : f[x] \in Nat, NEW T \in SUBSET S
  PROVE  /\ SumFunctionOnSet(f, S) \in Nat /\ SumFunctionOnSet(f, T) \in Nat
         /\ SumFunctionOnSet(f, T) <= SumFunctionOnSet(f, S)
  <1> DEFINE zeros == [x \in S |-> 0]
  <1>1. ASSUME NEW s \in SUBSET S PROVE SumFunctionOnSet(f, s) \in Nat
    <2>1. IsFiniteSet(s) /\ Whole(f, s) /\ Whole(zeros, s) /\ \A x \in s : zeros[x] = 0 /\ zeros[x] <= f[x]
      BY FS_Subset DEF Whole
    <2> HIDE DEF zeros
    <2>2. SumFunctionOnSet(zeros, s) = 0
      BY <2>1, SumOfZeros
    <2>3. SumFunctionOnSet(zeros, s) <= SumFunctionOnSet(f, s)
      BY Zenon, <2>1, SumAtMost
    <2>4. SumFunctionOnSet(f, s) \in Int
      BY Zenon, <2>1, SumType
    <2> QED BY <2>2, <2>3, <2>4
  <1>2. SumFunctionOnSet(f, S) = SumFunctionOnSet(f, T) + SumFunctionOnSet(f, S \ T)
    <2>1. Whole(f, S)
      BY DEF Whole
    <2> QED BY <2>1, SumOfBoth
  <1>3. SumFunctionOnSet(f, S \ T) \in Nat /\ SumFunctionOnSet(f, T) \in Nat
    BY <1>1
  <1> QED BY <1>1, <1>2, <1>3

\* A sum goes over the groups of a set one by one.
Grouped(sums, K, f, S, group) ==
  /\ IsFiniteSet(S) /\ Whole(f, S) /\ IsFiniteSet(K)
  /\ \A x \in S : group[x] \in K
  /\ \A k \in K : sums[k] = SumFunctionOnSet(f, {x \in S : group[x] = k})
LEMMA SumOfGroups ==
  ASSUME NEW sums, NEW K, NEW f, NEW S, NEW group, Grouped(sums, K, f, S, group)
  PROVE  SumFunctionOnSet(sums, K) = SumFunctionOnSet(f, S)
  <1>0. /\ IsFiniteSet(S) /\ Whole(f, S) /\ IsFiniteSet(K)
        /\ \A x \in S : group[x] \in K
        /\ \A k \in K : sums[k] = SumFunctionOnSet(f, {x \in S : group[x] = k})
    BY DEF Grouped
  <1> DEFINE In(J) == {x \in S : group[x] \in J}
             Good == {J \in SUBSET K : SumFunctionOnSet(sums, J) = SumFunctionOnSet(f, In(J))}
  <1>1. ASSUME NEW s \in SUBSET S PROVE IsFiniteSet(s) /\ Whole(f, s) /\ SumFunctionOnSet(f, s) \in Int
    <2>1. IsFiniteSet(s) /\ Whole(f, s)
      BY <1>0, FS_Subset DEF Whole
    <2> QED BY <2>1, SumType
  <1>2. ASSUME NEW J \in SUBSET K PROVE IsFiniteSet(J) /\ Whole(sums, J)
    <2>1. \A k \in K : sums[k] \in Int
      BY <1>0, <1>1
    <2> QED BY <1>0, <2>1, FS_Subset DEF Whole
  <1>3. ASSUME NEW J \in SUBSET K, \A k \in J : J \ {k} \in Good PROVE J \in Good
    <2>1. CASE J = {}
      <3>1. In(J) = {}
        BY <2>1
      <3> QED BY <2>1, <3>1, SumOfNone
    <2>2. ASSUME NEW k \in J PROVE SumFunctionOnSet(sums, J) = SumFunctionOnSet(f, In(J))
      <3> DEFINE mine == {x \in S : group[x] = k}
      <3>1. In(J) \in SUBSET S /\ mine \in SUBSET In(J) /\ In(J) \ mine = In(J \ {k})
        OBVIOUS
      <3>2. sums[k] = SumFunctionOnSet(f, mine)
        BY <1>0
      <3>3. SumFunctionOnSet(sums, J \ {k}) = SumFunctionOnSet(f, In(J \ {k}))
        BY <1>3
      <3>4. SumFunctionOnSet(sums, J) = sums[k] + SumFunctionOnSet(sums, J \ {k})
        BY <1>2, SumOfMore
      <3> HIDE DEF mine, In
      <3>5. SumFunctionOnSet(f, In(J)) = SumFunctionOnSet(f, mine) + SumFunctionOnSet(f, In(J) \ mine)
        BY <1>1, <3>1, SumOfBoth
      <3> QED BY <3>1, <3>2, <3>3, <3>4, <3>5
    <2> QED BY <2>1, <2>2
  <1>4. In(K) = S
    BY <1>0
  <1> HIDE DEF Good, In
  <1>5. K \in Good
    BY <1>0, <1>3, SmallerFirst
  <1> QED BY <1>4, <1>5 DEF Good

\* f goes from base by the steps F.
Goes(f, N, base, F) == f = [n \in 0..N |-> IF n = 0 THEN base ELSE F[<<n, f[n - 1]>>]]

\* Steps from each state to a next one can be followed as far as they go.
LEMMA StepsLead ==
  ASSUME NEW S, NEW N \in Nat, NEW base \in S, NEW F \in [(1..N) \X S -> S]
  PROVE  \E f \in [0..N -> S] : Goes(f, N, base, F)
  <1> DEFINE Leads(f, k) == f = [n \in 0..k |-> IF n = 0 THEN base ELSE F[<<n, f[n - 1]>>]]
             Good == {k \in 0..N : \E f \in [0..k -> S] : Leads(f, k)}
  <1>1. 0 \in Good
    <2> DEFINE f == [n \in 0..0 |-> base]
    <2>1. f \in [0..0 -> S] /\ Leads(f, 0)
      OBVIOUS
    <2>2. 0 \in 0..N
      OBVIOUS
    <2> HIDE DEF f, Leads
    <2> QED BY <2>1, <2>2
  <1>2. ASSUME NEW k \in 1..N, k - 1 \in Good PROVE k \in Good
    <2>1. PICK g \in [0..(k - 1) -> S] : Leads(g, k - 1)
      BY <1>2
    <2> DEFINE f == [n \in 0..k |-> IF n = k THEN F[<<k, g[k - 1]>>] ELSE g[n]]
    <2>2. \A n \in 0..k : n # k => n \in 0..(k - 1)
      OBVIOUS
    <2>3. k - 1 \in 0..(k - 1) /\ k # 0 /\ k \in 0..k
      OBVIOUS
    <2>4. F[<<k, g[k - 1]>>] \in S
      BY <2>3
    <2>5. f \in [0..k -> S]
      BY <2>2, <2>4
    <2>6. \A n \in 0..k : f[n] = IF n = 0 THEN base ELSE F[<<n, f[n - 1]>>]
      <3> SUFFICES ASSUME NEW n \in 0..k PROVE f[n] = IF n = 0 THEN base ELSE F[<<n, f[n - 1]>>]
        OBVIOUS
      <3>1. CASE n = k
        <4>1. f[k] = F[<<k, g[k - 1]>>] /\ f[k - 1] = g[k - 1]
          BY <2>3
        <4> QED BY <2>3, <3>1, <4>1
      <3>2. CASE n # k
        <4>1. f[n] = g[n] /\ g[n] = IF n = 0 THEN base ELSE F[<<n, g[n - 1]>>]
          BY <2>1, <2>2, <3>2
        <4>2. n # 0 => n - 1 \in 0..k /\ n - 1 # k
          BY <3>2
        <4>3. n # 0 => f[n - 1] = g[n - 1]
          BY <4>2
        <4> HIDE DEF f
        <4> QED BY <4>1, <4>3
      <3> QED BY <3>1, <3>2
    <2>7. Leads(f, k)
      <3>1. f = [n \in 0..k |-> f[n]]
        OBVIOUS
      <3> HIDE DEF f
      <3> QED BY <2>6, <3>1
    <2>8. k \in 0..N
      OBVIOUS
    <2> HIDE DEF f, Leads
    <2> QED BY <2>5, <2>7, <2>8
  <1>3. N \in Good
    <2>1. N \in 0..N
      OBVIOUS
    <2> HIDE DEF Good
    <2> QED BY <1>1, <1>2, <2>1, UpTo
  <1> QED BY <1>3 DEF Goes

-----------------------------------------------------------------------------
(* Sets of rows.                                                            *)

\* Rows with times below n, no two at the same time.
Timed(S, n) ==
  /\ \A r \in S : r.created \in Nat /\ r.created < n
  /\ \A r, q \in S : r.created = q.created => r = q

\* Rows that are not all gone have a newest one.
LEMMA HasNewest ==
  ASSUME NEW S, NEW n \in Nat, Timed(S, n), S # {}
  PROVE  \E m \in S : \A q \in S : q.created <= m.created
  <1> DEFINE T == {n - r.created : r \in S}
  <1>1. T \in SUBSET Nat /\ T # {}
    BY DEF Timed
  <1>2. PICK x \in T : \A y \in T : x <= y
    <2> HIDE DEF T
    <2> QED BY <1>1, LeastOf
  <1>3. PICK m \in S : x = n - m.created
    BY <1>2
  <1>4. ASSUME NEW q \in S PROVE q.created <= m.created
    <2>1. n - m.created <= n - q.created
      BY <1>2, <1>3
    <2> QED BY <2>1 DEF Timed
  <1> QED BY <1>4

\* The newest row is the one no other is newer than.
LEMMA NewestIs ==
  ASSUME NEW S, NEW n \in Nat, Timed(S, n),
         NEW m \in S, \A q \in S : q.created <= m.created
  PROVE  HashOfNewest(S) = m.hash
  <1>1. Newest(S) \in S /\ \A q \in S : q.created <= Newest(S).created
    BY DEF Newest
  <1>2. Newest(S).created = m.created
    BY <1>1 DEF Timed
  <1>3. Newest(S) = m
    BY <1>1, <1>2 DEF Timed
  <1> QED BY <1>3 DEF HashOfNewest

\* Contents do not matter: rows with the same times and hashes have the same
\* newest hash.
LEMMA NewestOfEdited ==
  ASSUME NEW S, NEW n \in Nat, Timed(S, n),
         NEW r \in S, NEW e, e.created = r.created, e.hash = r.hash
  PROVE  HashOfNewest((S \ {r}) \cup {e}) = HashOfNewest(S)
  <1> DEFINE E == (S \ {r}) \cup {e}
  <1>1. Timed(E, n)
    BY DEF Timed
  <1>2. PICK m \in S : \A q \in S : q.created <= m.created
    BY HasNewest
  <1>3. HashOfNewest(S) = m.hash
    BY <1>2, NewestIs
  <1>4. CASE m = r
    <2>1. e \in E /\ \A q \in E : q.created <= e.created
      BY <1>2, <1>4
    <2>2. HashOfNewest(E) = e.hash
      <3> HIDE DEF E
      <3> QED BY <1>1, <2>1, NewestIs
    <2> QED BY <1>3, <1>4, <2>2
  <1>5. CASE m # r
    <2>1. m \in E /\ \A q \in E : q.created <= m.created
      BY <1>2, <1>5
    <2>2. HashOfNewest(E) = m.hash
      <3> HIDE DEF E
      <3> QED BY <1>1, <2>1, NewestIs
    <2> QED BY <1>3, <2>2
  <1> QED BY <1>4, <1>5

-----------------------------------------------------------------------------
(* The parts of the invariant that transactions keep whether they overlap   *)
(* or not.                                                                  *)

Static == TypeOK /\ OwnApart /\ RowsHashed

LEMMA StaticInit == Init => Static
  <1> SUFFICES ASSUME Init PROVE Static
    OBVIOUS
  <1>1. Flushed = {}
    BY DEF Init, Flushed
  <1>2. TypeOK
    BY <1>1 DEF Init, TypeOK, Open
  <1> QED BY <1>1, <1>2 DEF Init, Static, OwnApart, RowsHashed

LEMMA StaticNext == Static /\ [Next]_vars => Static'
  <1> SUFFICES ASSUME Static, [Next]_vars PROVE Static'
    OBVIOUS
  <1> USE DEF Static
  <1>1. ASSUME NEW w \in Writers, Begin(w) PROVE Static'
    <2>1. Flushed' = Flushed
      BY <1>1 DEF Begin, Flushed
    <2>2. TypeOK'
      BY <1>1, <2>1 DEF Begin, TypeOK, Open
    <2> QED BY <1>1, <2>1, <2>2 DEF Begin, OwnApart, RowsHashed
  <1>2. ASSUME NEW w \in Writers, WriteAudit(w) PROVE Static'
    <2>1. Flushed' = Flushed
      BY <1>2 DEF WriteAudit, Flushed
    <2>2. TypeOK'
      BY <1>2, <2>1 DEF WriteAudit, TypeOK, Open
    <2> QED BY <1>2, <2>1, <2>2 DEF WriteAudit, OwnApart, RowsHashed
  <1>3. ASSUME NEW w \in Writers, Flush(w) PROVE Static'
    <2> DEFINE body == <<w, Cardinality(own[w]) + 1>>
               new == [created |-> clock, prev |-> prev[w], body |-> body, hash |-> Hash(prev[w], body)]
    <2>1. own' = [own EXCEPT ![w] = @ \cup {new}] /\ rows' = rows /\ edited' = edited
      BY <1>3 DEF Flush
    <2>2. Flushed' = Flushed \cup {new}
      BY <2>1 DEF Flushed, TypeOK
    <2>3. new.created = clock /\ Row(new) /\ \A r \in Flushed : r.created # clock
      BY DEF TypeOK, Row
    <2>4. TypeOK'
      <3>1. clock \in Nat /\ clock' = clock + 1
        BY <1>3 DEF Flush, NextTime, TypeOK
      <3>2. \A r \in Flushed' : Row(r) /\ r.created \in Nat /\ r.created < clock'
        BY <2>2, <2>3, <3>1 DEF TypeOK
      <3>3. \A r, q \in Flushed' : r.created = q.created => r = q
        BY <2>2, <2>3 DEF TypeOK
      <3>4. pc[w] = "pending" /\ pc' = [pc EXCEPT ![w] = "open"]
        BY <1>3 DEF Flush
      <3> HIDE DEF new
      <3>5. /\ pc' \in [Writers -> {"idle", "open", "pending", "done", "failed"}]
            /\ \A v \in Writers : own'[v] # {} => Open(v)'
        BY <2>1, <3>4 DEF TypeOK, Open
      <3> QED BY <1>3, <2>1, <3>1, <3>2, <3>3, <3>5 DEF Flush, TypeOK
    <2>5. new \notin Flushed
      BY <2>3
    <2>6. OwnApart'
      <3> HIDE DEF new
      <3> QED BY <2>1, <2>5 DEF OwnApart, Flushed, TypeOK
    <2>7. new.hash[2] = body /\ body # <<"edited">> /\ new.hash = Hash(new.prev, body) /\ new.body = body
      BY DEF Hash
    <2>8. clock \notin edited
      BY DEF TypeOK, Flushed
    <2>9. RowsHashed'
      <3> HIDE DEF new, body
      <3> QED BY <2>1, <2>2, <2>3, <2>7, <2>8 DEF RowsHashed
    <2> QED BY <2>4, <2>6, <2>9
  <1>4. ASSUME NEW w \in Writers, Commit(w) PROVE Static'
    <2>1. rows' = rows \cup own[w] /\ own' = [own EXCEPT ![w] = {}] /\ edited' = edited
      BY <1>4 DEF Commit
    <2>2. Flushed' = Flushed
      BY <2>1 DEF Flushed, TypeOK
    <2>3. TypeOK'
      BY <1>4, <2>1, <2>2 DEF Commit, TypeOK, Open
    <2>4. OwnApart'
      BY <2>1 DEF OwnApart, TypeOK
    <2> QED BY <2>1, <2>2, <2>3, <2>4 DEF RowsHashed
  <1>5. ASSUME NEW w \in Writers, Rollback(w) PROVE Static'
    <2>1. rows' = rows /\ own' = [own EXCEPT ![w] = {}] /\ edited' = edited
      BY <1>5 DEF Rollback
    <2>2. Flushed' \subseteq Flushed
      BY <2>1 DEF Flushed, TypeOK
    <2>3. TypeOK'
      BY <1>5, <2>1, <2>2 DEF Rollback, TypeOK, Open
    <2>4. OwnApart'
      BY <2>1 DEF OwnApart, TypeOK
    <2> QED BY <2>1, <2>2, <2>3, <2>4 DEF RowsHashed
  <1>6. ASSUME Edit PROVE Static'
    <2>1. PICK r \in rows : /\ r.created \notin edited
                            /\ rows' = (rows \ {r}) \cup {[r EXCEPT !.body = <<"edited">>]}
                            /\ edited' = edited \cup {r.created}
      BY <1>6 DEF Edit
    <2> DEFINE e == [r EXCEPT !.body = <<"edited">>]
    <2>2. Row(r) /\ r \in Flushed
      BY DEF TypeOK, Flushed
    <2>3. Row(e) /\ e.created = r.created /\ e.prev = r.prev /\ e.hash = r.hash /\ e.body = <<"edited">>
      BY <2>2 DEF Row
    <2>4. own' = own /\ pc' = pc /\ clock' = clock /\ prev' = prev /\ overlapped' = overlapped
      BY <1>6 DEF Edit
    <2>5. r \notin UNION {own[w] : w \in Writers}
      BY DEF OwnApart
    <2>6. Flushed' = (Flushed \ {r}) \cup {e}
      BY <2>1, <2>4, <2>5 DEF Flushed
    <2>7. \A q \in Flushed \ {r} : q.created # r.created
      BY <2>2 DEF TypeOK
    <2> HIDE DEF e
    <2>8. TypeOK'
      <3>1. \A q \in Flushed' : Row(q) /\ q.created \in Nat /\ q.created < clock'
        BY <2>2, <2>3, <2>4, <2>6 DEF TypeOK
      <3>2. \A q, p \in Flushed' : q.created = p.created => q = p
        BY <2>3, <2>6, <2>7 DEF TypeOK
      <3>3. edited' \subseteq {q.created : q \in rows'}
        <4>1. rows' = (rows \ {r}) \cup {e} /\ edited' = edited \cup {r.created}
          BY <2>1 DEF e
        <4>2. \A q \in rows : q \in rows' \/ q = r
          BY <4>1
        <4>3. e \in rows' /\ e.created = r.created
          BY <2>3, <4>1
        <4>4. \A t \in edited : \E q \in rows : q.created = t
          BY DEF TypeOK
        <4>5. \A t \in edited' : \E q \in rows' : q.created = t
          BY <4>1, <4>2, <4>3, <4>4
        <4> QED BY <4>5
      <3> QED BY <2>4, <3>1, <3>2, <3>3 DEF TypeOK, Open
    <2>9. OwnApart'
      <3>1. \A w \in Writers : e \notin own[w]
        <4>1. ASSUME NEW w \in Writers, e \in own[w] PROVE FALSE
          BY <2>2, <2>3, <2>5, <4>1 DEF TypeOK, Flushed
        <4> QED BY <4>1
      <3> QED BY <2>1, <2>4, <3>1 DEF OwnApart, e
    <2>10. RowsHashed'
      BY <2>1, <2>2, <2>3, <2>6, <2>7 DEF RowsHashed
    <2> QED BY <2>8, <2>9, <2>10
  <1>7. ASSUME UNCHANGED vars PROVE Static'
    BY <1>7 DEF vars, TypeOK, OwnApart, RowsHashed, Flushed, Open
  <1> QED BY <1>1, <1>2, <1>3, <1>4, <1>5, <1>6, <1>7 DEF Next, Quiet

-----------------------------------------------------------------------------
(* Transactions one after the other.                                        *)

\* What has been flushed has distinct times, and so has any part of it.
LEMMA FlushedTimed ==
  ASSUME TypeOK, NEW S \in SUBSET Flushed
  PROVE  Timed(S, clock)
  BY DEF TypeOK, Timed

\* Editing a row leaves every chain linked that it is part of, or not.
LEMMA EditKeepsLinks ==
  ASSUME NEW S, NEW n \in Nat, Timed(S, n), Linked(S),
         NEW r \in S, NEW e, e.created = r.created, e.hash = r.hash, e.prev = r.prev
  PROVE  Linked((S \ {r}) \cup {e})
  <1> DEFINE E == (S \ {r}) \cup {e}
  <1>1. ASSUME NEW q \in E PROVE q.prev = HashOfNewest(Earlier(q, E))
    <2>1. PICK p \in S : p.created = q.created /\ p.prev = q.prev
      OBVIOUS
    <2>2. p.prev = HashOfNewest(Earlier(p, S))
      BY DEF Linked
    <2>3. CASE r \in Earlier(p, S)
      <3>1. Earlier(q, E) = (Earlier(p, S) \ {r}) \cup {e}
        BY <2>1, <2>3 DEF Earlier
      <3>2. Timed(Earlier(p, S), n)
        BY DEF Timed, Earlier
      <3> DEFINE Prior == Earlier(p, S)
      <3>3. Timed(Prior, n) /\ r \in Prior
        BY <2>3, <3>2
      <3> HIDE DEF Prior
      <3>4. HashOfNewest((Prior \ {r}) \cup {e}) = HashOfNewest(Prior)
        BY <3>3, NewestOfEdited
      <3> QED BY <2>1, <2>2, <3>1, <3>4 DEF Prior
    <2>4. CASE r \notin Earlier(p, S)
      <3>1. Earlier(q, E) = Earlier(p, S)
        BY <2>1, <2>4 DEF Earlier
      <3> QED BY <2>1, <2>2, <3>1
    <2> QED BY <2>3, <2>4
  <1> QED BY <1>1 DEF Linked

\* A row built on the newest of the others, and later than they, extends them.
LEMMA ExtendLinks ==
  ASSUME NEW S, Linked(S), NEW new, new.created \in Int,
         \A r \in S : r.created \in Int /\ r.created < new.created,
         new.prev = HashOfNewest(S)
  PROVE  Linked(S \cup {new})
  <1> DEFINE E == S \cup {new}
  <1>1. ASSUME NEW r \in S PROVE Earlier(r, E) = Earlier(r, S)
    BY DEF Earlier
  <1>2. Earlier(new, E) = S
    BY DEF Earlier
  <1> QED BY <1>1, <1>2 DEF Linked

LEMMA SerialInit == Init => SerialLinks
  BY DEF Init, SerialLinks, Open, Linked

LEMMA SerialNext == Static /\ SerialLinks /\ [Next]_vars => SerialLinks'
  <1> SUFFICES ASSUME Static, SerialLinks, [Next]_vars, ~overlapped' PROVE SerialLinks'
    BY DEF SerialLinks
  <1> USE DEF Static
  <1>0. ~overlapped
    BY DEF Next, vars, Begin, WriteAudit, Flush, Commit, Rollback, Edit, Quiet, TypeOK
  <1>a. /\ \A v, w \in Writers : Open(v) /\ Open(w) => v = w
        /\ Linked(rows)
        /\ \A w \in Writers : Open(w) =>
             Linked(rows \cup own[w]) /\ \A r \in rows, q \in own[w] : r.created < q.created
        /\ \A w \in Writers : pc[w] = "pending" => prev[w] = LastHash(w)
    BY <1>0 DEF SerialLinks
  <1>1. ASSUME NEW w \in Writers, Begin(w) PROVE SerialLinks'
    <2>1. \A v \in Writers : ~Open(v) /\ own[v] = {}
      BY <1>1 DEF Begin, TypeOK
    <2>2. /\ rows' = rows /\ own' = own /\ prev' = prev
          /\ \A v \in Writers : (Open(v)' => v = w) /\ pc'[v] # "pending"
      BY <1>1, <2>1 DEF Begin, Open, TypeOK
    <2>3. Linked(rows \cup own[w])
      BY <1>a, <2>1
    <2> QED BY <1>a, <2>1, <2>2, <2>3 DEF SerialLinks
  <1>2. ASSUME NEW w \in Writers, WriteAudit(w) PROVE SerialLinks'
    <2>1. /\ rows' = rows /\ own' = own /\ prev'[w] = LastHash(w)
          /\ \A v \in Writers : Open(v)' = Open(v)
          /\ \A v \in Writers \ {w} : pc'[v] = pc[v] /\ prev'[v] = prev[v]
      BY <1>2 DEF WriteAudit, Open, TypeOK
    <2>2. \A v \in Writers : LastHash(v)' = LastHash(v)
      BY <2>1 DEF LastHash
    <2> QED BY <1>a, <2>1, <2>2 DEF SerialLinks
  <1>3. ASSUME NEW w \in Writers, Flush(w) PROVE SerialLinks'
    <2> DEFINE body == <<w, Cardinality(own[w]) + 1>>
               new == [created |-> clock, prev |-> prev[w], body |-> body, hash |-> Hash(prev[w], body)]
    <2>1. /\ rows' = rows /\ own' = [own EXCEPT ![w] = @ \cup {new}]
          /\ pc[w] = "pending" /\ pc' = [pc EXCEPT ![w] = "open"]
      BY <1>3 DEF Flush
    <2>2. new.created = clock /\ new.prev = prev[w] /\ clock \in Nat
      BY DEF TypeOK
    <2> HIDE DEF new
    <2>3. Open(w) /\ \A v \in Writers : Open(v)' => v = w
      BY <1>a, <2>1 DEF Open, TypeOK
    <2>4. own'[w] = own[w] \cup {new} /\ \A v \in Writers : pc'[v] = "pending" => v # w /\ Open(v)
      BY <2>1 DEF TypeOK, Open
    <2>5. \A r \in rows \cup own[w] : r.created \in Nat /\ r.created < clock
      BY DEF TypeOK, Flushed
    <2>6. Linked((rows \cup own[w]) \cup {new})
      <3> DEFINE S == rows \cup own[w]
      <3>1. Linked(S) /\ new.prev = HashOfNewest(S)
        BY <1>a, <2>1, <2>2, <2>3 DEF LastHash
      <3>2. new.created \in Int /\ \A r \in S : r.created \in Int /\ r.created < new.created
        BY <2>2, <2>5
      <3> HIDE DEF S
      <3>3. Linked(S \cup {new})
        BY <3>1, <3>2, ExtendLinks
      <3> QED BY <3>3 DEF S
    <2>7. rows' \cup own'[w] = (rows \cup own[w]) \cup {new}
      BY <2>1, <2>4
    <2>8. \A r \in rows', q \in own'[w] : r.created < q.created
      BY <1>a, <2>1, <2>2, <2>3, <2>4, <2>5
    <2>9. \A v \in Writers : pc'[v] # "pending"
      BY <1>a, <2>3, <2>4
    <2>10. Linked(rows') /\ Linked(rows' \cup own'[w])
      BY <1>a, <2>1, <2>6, <2>7
    <2> QED BY <2>3, <2>8, <2>9, <2>10 DEF SerialLinks
  <1>4. ASSUME NEW w \in Writers, Commit(w) PROVE SerialLinks'
    <2>1. rows' = rows \cup own[w] /\ Open(w) /\ \A v \in Writers : ~Open(v)'
      BY <1>4, <1>a DEF Commit, Open, TypeOK
    <2>2. Linked(rows') /\ \A v \in Writers : pc'[v] # "pending"
      BY <1>a, <2>1 DEF Open
    <2> QED BY <2>1, <2>2 DEF SerialLinks
  <1>5. ASSUME NEW w \in Writers, Rollback(w) PROVE SerialLinks'
    <2>1. rows' = rows /\ \A v \in Writers : ~Open(v)'
      BY <1>5, <1>a DEF Rollback, Open, TypeOK
    <2>2. Linked(rows') /\ \A v \in Writers : pc'[v] # "pending"
      BY <1>a, <2>1 DEF Open
    <2> QED BY <2>1, <2>2 DEF SerialLinks
  <1>6. ASSUME Edit PROVE SerialLinks'
    <2>1. PICK r \in rows : rows' = (rows \ {r}) \cup {[r EXCEPT !.body = <<"edited">>]}
      BY <1>6 DEF Edit
    <2> DEFINE e == [r EXCEPT !.body = <<"edited">>]
    <2>2. Row(r)
      BY DEF TypeOK, Flushed
    <2>3. e.created = r.created /\ e.prev = r.prev /\ e.hash = r.hash
      BY <2>2 DEF Row
    <2>4. own' = own /\ pc' = pc /\ prev' = prev /\ rows' = (rows \ {r}) \cup {e}
      BY <1>6, <2>1 DEF Edit
    <2> HIDE DEF e
    <2>5. clock \in Nat /\ Timed(rows, clock) /\ \A w \in Writers : Timed(rows \cup own[w], clock)
      BY FlushedTimed DEF TypeOK, Flushed
    <2>6. Linked(rows')
      BY <1>a, <2>3, <2>4, <2>5, EditKeepsLinks
    <2>7. ASSUME NEW w \in Writers
          PROVE  rows' \cup own'[w] = ((rows \cup own[w]) \ {r}) \cup {e}
      BY <2>4 DEF OwnApart
    <2>8. ASSUME NEW w \in Writers, Open(w)
          PROVE  /\ Linked(rows' \cup own'[w])
                 /\ \A q \in rows', p \in own'[w] : q.created < p.created
      <3>1. Linked(((rows \cup own[w]) \ {r}) \cup {e})
        BY <1>a, <2>3, <2>5, <2>8, EditKeepsLinks
      <3> QED BY <1>a, <2>3, <2>4, <2>7, <2>8, <3>1
    <2>9. \A w \in Writers : LastHash(w)' = LastHash(w)
      BY <2>3, <2>4, <2>5, <2>7, NewestOfEdited DEF LastHash
    <2>10. \A w \in Writers : Open(w)' = Open(w)
      BY <2>4 DEF Open
    <2> QED BY <1>a, <2>4, <2>6, <2>8, <2>9, <2>10 DEF SerialLinks
  <1>7. ASSUME UNCHANGED vars PROVE SerialLinks'
    BY <1>a, <1>7 DEF vars, SerialLinks, Open, LastHash
  <1> QED BY <1>1, <1>2, <1>3, <1>4, <1>5, <1>6, <1>7 DEF Next, Quiet

-----------------------------------------------------------------------------
(* Theorems.                                                                *)

\* A link over an edited row cannot hold: its hash is that of other contents.
LEMMA EditBreaksLink ==
  ASSUME Static, NEW r \in rows, r.created \in edited
  PROVE  ~LinkHolds(r)
  <1>1. r \in Flushed
    BY DEF Flushed
  <1>2. r.hash = Hash(r.prev, r.hash[2]) /\ r.hash[2] # <<"edited">> /\ r.body = <<"edited">>
    BY <1>1 DEF Static, RowsHashed
  <1>3. \A p : Hash(p, r.body)[2] = r.body
    BY DEF Hash
  <1> QED BY <1>2, <1>3 DEF LinkHolds

LEMMA EditsFound == Static => EditsAreFound
  <1> SUFFICES ASSUME Static, edited # {} PROVE ~Verifies
    BY DEF EditsAreFound
  <1>1. PICK r \in rows : r.created \in edited
    BY DEF Static, TypeOK
  <1> QED BY <1>1, EditBreaksLink DEF Verifies, Breaks

\* The chain is well formed, each edit is told, and transactions that do not
\* overlap link every row to the one before it.
THEOREM ChainStaysSound == Spec => []ChainSound
  <1>1. Init => Static /\ SerialLinks
    BY StaticInit, SerialInit
  <1>2. Static /\ SerialLinks /\ [Next]_vars => (Static /\ SerialLinks)'
    BY StaticNext, SerialNext
  <1>3. Static /\ SerialLinks => ChainSound
    BY EditsFound DEF Static, ChainSound
  <1> QED BY <1>1, <1>2, <1>3, PTL DEF Spec

\* Nobody edits a committed row unnoticed, however the transactions overlap.
THEOREM EveryEditIsFound == Spec => []EditsAreFound
  <1>1. ChainSound => EditsAreFound
    BY DEF ChainSound
  <1> QED BY <1>1, ChainStaysSound, PTL

LEMMA SerialVerifies == ChainSound => SerialChainVerifies
  <1> SUFFICES ASSUME ChainSound, ~overlapped PROVE SerialChainVerifies
    BY DEF SerialChainVerifies
  <1>0. Static /\ Linked(rows)
    BY DEF ChainSound, Static, SerialLinks
  <1>1. ASSUME NEW r \in rows, r.created \notin edited PROVE LinkHolds(r)
    <2>1. r.prev = HashOfNewest(Before(r))
      BY <1>0 DEF Linked, Earlier, Before
    <2>2. r \in Flushed
      BY DEF Flushed
    <2>3. r.hash = Hash(r.prev, r.body)
      BY <1>0, <1>1, <2>2 DEF Static, RowsHashed
    <2> QED BY <2>1, <2>3 DEF LinkHolds
  <1>2. Breaks = {r \in rows : r.created \in edited}
    BY <1>0, <1>1, EditBreaksLink DEF Breaks
  <1>3. CASE edited = {}
    BY <1>2, <1>3 DEF SerialChainVerifies, Verifies
  <1>4. CASE edited # {}
    <2>1. \A t \in edited : \E r \in Breaks : r.created = t
      BY <1>0, <1>2 DEF Static, TypeOK
    <2> DEFINE T == {r.created : r \in Breaks}
    <2>2. T \in SUBSET Nat /\ T # {}
      BY <1>0, <1>2, <1>4, <2>1 DEF Static, TypeOK, Flushed
    <2>3. \E t \in T : \A u \in T : t <= u
      <3> HIDE DEF T
      <3> QED BY <2>2, LeastOf
    <2>4. \E r \in Breaks : \A q \in Breaks : r.created <= q.created
      BY <2>3
    <2>5. FirstBreak \in Breaks /\ \A q \in Breaks : FirstBreak.created <= q.created
      BY <2>4 DEF FirstBreak
    <2> QED BY <1>2, <1>4, <2>1, <2>5 DEF SerialChainVerifies
  <1> QED BY <1>3, <1>4

\* A chain written without overlaps verifies until a row is edited, and then
\* verification reports the earliest edited row.
THEOREM SerialChainsVerify == Spec => []SerialChainVerifies
  BY ChainStaysSound, SerialVerifies, PTL

-----------------------------------------------------------------------------
(* What the books say: the score and the month-end report.                  *)

LEMMA SameSum ==
  ASSUME NEW f, NEW S
  PROVE  B!SumFunctionOnSet(f, S) = SumFunctionOnSet(f, S)
  BY DEF B!SumFunctionOnSet, B!FoldFunctionOnSet, B!MapThenFoldSet, SumFunctionOnSet, FoldFunctionOnSet, MapThenFoldSet

\* The paise of some rows of a finite set.
LEMMA PaiseOf ==
  ASSUME NEW S, IsFiniteSet(S), NEW amount, amount = [r \in S |-> r.amount], Whole(amount, S), NEW T \in SUBSET S
  PROVE  B!Paise(T) = SumFunctionOnSet(amount, T)
  <1> DEFINE f == [r \in T |-> r.amount]
  <1>1. B!Paise(T) = SumFunctionOnSet(f, T)
    <2>1. DOMAIN f = T
      OBVIOUS
    <2>2. B!Paise(T) = B!SumFunctionOnSet(f, DOMAIN f)
      BY DEF B!Paise, B!SumFunction
    <2> HIDE DEF f
    <2> QED BY <2>1, <2>2, SameSum
  <1>2. IsFiniteSet(T) /\ Whole(amount, T) /\ \A r \in T : amount[r] = f[r]
    BY FS_Subset DEF Whole
  <1> HIDE DEF f
  <1> QED BY <1>1, <1>2, SumSame

Parts == {"reconciliation", "categorization", "audit_integrity", "receivables_discipline",
          "conflict_hygiene", "forecast_freshness"}

\* A sum of six.
LEMMA SumOfParts6 ==
  ASSUME NEW f, Whole(f, Parts)
  PROVE  SumFunctionOnSet(f, Parts) =
           f["reconciliation"] + f["categorization"] + f["audit_integrity"]
           + f["receivables_discipline"] + f["conflict_hygiene"] + f["forecast_freshness"]
  <1> DEFINE S5 == {"categorization", "audit_integrity", "receivables_discipline", "conflict_hygiene", "forecast_freshness"}
             S4 == {"audit_integrity", "receivables_discipline", "conflict_hygiene", "forecast_freshness"}
             S3 == {"receivables_discipline", "conflict_hygiene", "forecast_freshness"}
             S2 == {"conflict_hygiene", "forecast_freshness"}
             S1 == {"forecast_freshness"}
  <1>1. IsFiniteSet(S1) /\ IsFiniteSet(S2) /\ IsFiniteSet(S3) /\ IsFiniteSet(S4) /\ IsFiniteSet(S5) /\ IsFiniteSet(Parts)
    <2>0. IsFiniteSet({})
      BY FS_EmptySet
    <2>1. IsFiniteSet({} \cup {"forecast_freshness"})
      BY <2>0, FS_AddElement
    <2>2. IsFiniteSet(S1 \cup {"conflict_hygiene"})
      BY <2>1, FS_AddElement
    <2>3. IsFiniteSet(S2 \cup {"receivables_discipline"})
      BY <2>2, FS_AddElement
    <2>4. IsFiniteSet(S3 \cup {"audit_integrity"})
      BY <2>3, FS_AddElement
    <2>5. IsFiniteSet(S4 \cup {"categorization"})
      BY <2>4, FS_AddElement
    <2>6. IsFiniteSet(S5 \cup {"reconciliation"})
      BY <2>5, FS_AddElement
    <2> QED BY <2>1, <2>2, <2>3, <2>4, <2>5, <2>6 DEF Parts
  <1>2. /\ Parts \ {"reconciliation"} = S5 /\ S5 \ {"categorization"} = S4 /\ S4 \ {"audit_integrity"} = S3
        /\ S3 \ {"receivables_discipline"} = S2 /\ S2 \ {"conflict_hygiene"} = S1 /\ S1 \ {"forecast_freshness"} = {}
    BY DEF Parts
  <1>3. /\ "reconciliation" \in Parts /\ "categorization" \in S5 /\ "audit_integrity" \in S4
        /\ "receivables_discipline" \in S3 /\ "conflict_hygiene" \in S2 /\ "forecast_freshness" \in S1
    BY DEF Parts
  <1>4. Whole(f, S1) /\ Whole(f, S2) /\ Whole(f, S3) /\ Whole(f, S4) /\ Whole(f, S5)
    BY DEF Whole, Parts
  <1>5. \A k \in Parts : f[k] \in Int
    BY DEF Whole
  <1> HIDE DEF S1, S2, S3, S4, S5
  <1>6. SumFunctionOnSet(f, Parts) = f["reconciliation"] + SumFunctionOnSet(f, S5)
    BY <1>1, <1>2, <1>3, <1>4, SumOfMore
  <1>7. SumFunctionOnSet(f, S5) = f["categorization"] + SumFunctionOnSet(f, S4)
    BY <1>1, <1>2, <1>3, <1>4, SumOfMore
  <1>8. SumFunctionOnSet(f, S4) = f["audit_integrity"] + SumFunctionOnSet(f, S3)
    BY <1>1, <1>2, <1>3, <1>4, SumOfMore
  <1>9. SumFunctionOnSet(f, S3) = f["receivables_discipline"] + SumFunctionOnSet(f, S2)
    BY <1>1, <1>2, <1>3, <1>4, SumOfMore
  <1>10. SumFunctionOnSet(f, S2) = f["conflict_hygiene"] + SumFunctionOnSet(f, S1)
    BY <1>1, <1>2, <1>3, <1>4, SumOfMore
  <1>11. SumFunctionOnSet(f, S1) = f["forecast_freshness"] + 0
    BY <1>1, <1>2, <1>3, <1>4, SumOfMore, SumOfNone
  <1>12. /\ f["reconciliation"] \in Int /\ f["categorization"] \in Int /\ f["audit_integrity"] \in Int
         /\ f["receivables_discipline"] \in Int /\ f["conflict_hygiene"] \in Int /\ f["forecast_freshness"] \in Int
    BY <1>5 DEF Parts
  <1> QED BY <1>6, <1>7, <1>8, <1>9, <1>10, <1>11, <1>12

\* Components by name.
LEMMA ScaleIs == B!SCALE \in Nat \ {0}
  BY SMT DEF B!SCALE

LEMMA ClampedIs ==
  ASSUME NEW r \in Int
  PROVE  /\ B!Clamped(r) \in Nat /\ B!Clamped(r) <= B!SCALE
         /\ \A s \in Int : r <= s => B!Clamped(r) <= B!Clamped(s)
  BY SMT DEF B!Clamped, B!SCALE

\* The weighted sum that is rounded to the score.
LEMMA ScoreSum ==
  ASSUME NEW c, \A k \in Parts : c[k] \in Int
  PROVE  B!ComputeScore(c) = B!RoundScore(
           B!Clamped(c["reconciliation"]) * 25 + B!Clamped(c["categorization"]) * 15 + B!Clamped(c["audit_integrity"]) * 20
           + B!Clamped(c["receivables_discipline"]) * 15 + B!Clamped(c["conflict_hygiene"]) * 10
           + B!Clamped(c["forecast_freshness"]) * 15)
  <1> DEFINE f == [k \in DOMAIN B!WEIGHTS |-> B!Clamped(c[k]) * B!WEIGHTS[k]]
  <1>1. DOMAIN B!WEIGHTS = Parts /\ DOMAIN f = Parts
    BY DEF B!WEIGHTS, Parts
  <1>2. /\ f["reconciliation"] = B!Clamped(c["reconciliation"]) * 25
        /\ f["categorization"] = B!Clamped(c["categorization"]) * 15
        /\ f["audit_integrity"] = B!Clamped(c["audit_integrity"]) * 20
        /\ f["receivables_discipline"] = B!Clamped(c["receivables_discipline"]) * 15
        /\ f["conflict_hygiene"] = B!Clamped(c["conflict_hygiene"]) * 10
        /\ f["forecast_freshness"] = B!Clamped(c["forecast_freshness"]) * 15
    BY DEF B!WEIGHTS
  <1>3. ASSUME NEW k \in Parts PROVE B!Clamped(c[k]) \in Int
    <2>1. c[k] \in Int
      OBVIOUS
    <2> QED BY SMT, <2>1, ClampedIs
  <1>4. B!ComputeScore(c) = B!RoundScore(B!SumFunctionOnSet(f, DOMAIN f))
    BY DEF B!ComputeScore, B!SumFunction
  <1> HIDE DEF f
  <1>5. Whole(f, Parts)
    BY <1>2, <1>3 DEF Whole, Parts
  <1>6. B!ComputeScore(c) = B!RoundScore(SumFunctionOnSet(f, Parts))
    BY <1>1, <1>4, SameSum
  <1>7. SumFunctionOnSet(f, Parts) =
           f["reconciliation"] + f["categorization"] + f["audit_integrity"]
           + f["receivables_discipline"] + f["conflict_hygiene"] + f["forecast_freshness"]
    BY <1>5, SumOfParts6
  <1> QED BY <1>2, <1>6, <1>7

LEMMA DivisionIs ==
  ASSUME NEW a \in Nat, NEW d \in Nat \ {0}
  PROVE  a \div d \in Nat /\ d * (a \div d) <= a /\ a < d * (a \div d) + d
  OBVIOUS

\* Rounding half to even, of a quotient and its rest.
Nearest(d, q, x) == IF 2 * x > d \/ (2 * x = d /\ q % 2 = 1) THEN q + 1 ELSE q
Divided(n, d, q, x) == n \in Nat /\ d \in Nat \ {0} /\ q \in Nat /\ x \in Nat /\ x < d /\ n = d * q + x

LEMMA NearestGrows ==
  ASSUME NEW n, NEW m, NEW d, NEW q, NEW x, NEW p, NEW y, Divided(n, d, q, x), Divided(m, d, p, y), n <= m
  PROVE  Nearest(d, q, x) <= Nearest(d, p, y)
  <1>1. /\ n \in Nat /\ m \in Nat /\ d \in Nat \ {0} /\ q \in Nat /\ x \in Nat /\ p \in Nat /\ y \in Nat
        /\ x < d /\ y < d /\ n = d * q + x /\ m = d * p + y /\ n <= m
    BY DEF Divided
  <1>2. q <= p
    <2> SUFFICES ASSUME q > p PROVE FALSE
      BY <1>1
    <2>1. q - p - 1 \in Nat
      BY <1>1
    <2>2. d * (q - p - 1) >= 0
      BY <1>1, <2>1
    <2>3. d * (q - p - 1) = d * q - d * p - d
      BY <1>1
    <2> DEFINE a == d * q
               b == d * p
    <2>4. a \in Int /\ b \in Int /\ a - b - d >= 0 /\ n = a + x /\ m = b + y
      BY <1>1, <2>2, <2>3
    <2> HIDE DEF a, b
    <2> QED BY <1>1, <2>4
  <1>3. CASE q < p
    <2>1. Nearest(d, q, x) \in {q, q + 1} /\ Nearest(d, p, y) \in {p, p + 1}
      BY DEF Nearest
    <2> DEFINE v == Nearest(d, q, x)
               w == Nearest(d, p, y)
    <2>2. v \in {q, q + 1} /\ w \in {p, p + 1}
      BY <2>1
    <2> HIDE DEF v, w
    <2>3. v <= w
      BY <1>1, <1>3, <2>2
    <2> QED BY <2>3 DEF v, w
  <1>4. CASE q = p
    <2> DEFINE a == d * q
    <2>1. a \in Int /\ n = a + x /\ m = a + y
      BY <1>1, <1>4
    <2> HIDE DEF a
    <2>2. x <= y
      BY <1>1, <2>1
    <2> DEFINE odd == q % 2 = 1
    <2>3. /\ Nearest(d, q, x) = IF 2 * x > d \/ (2 * x = d /\ odd) THEN q + 1 ELSE q
          /\ Nearest(d, p, y) = IF 2 * y > d \/ (2 * y = d /\ odd) THEN q + 1 ELSE q
      BY <1>4 DEF Nearest
    <2> HIDE DEF odd
    <2> QED BY <1>1, <2>2, <2>3
  <1> QED BY <1>1, <1>2, <1>3, <1>4

LEMMA NearestAtMost ==
  ASSUME NEW n, NEW d, NEW q, NEW x, Divided(n, d, q, x), NEW k \in Nat, n <= d * k
  PROVE  Nearest(d, q, x) <= k
  <1>1. d \in Nat \ {0} /\ n \in Nat
    BY DEF Divided
  <1> DEFINE m == d * k
  <1>2. m \in Nat /\ m = d * k + 0
    BY <1>1
  <1>3. Divided(m, d, k, 0) /\ n <= m
    BY <1>1, <1>2 DEF Divided
  <1>4. Nearest(d, k, 0) = k
    BY <1>1 DEF Nearest
  <1> HIDE DEF m
  <1>5. Nearest(d, q, x) <= Nearest(d, k, 0)
    BY <1>3, NearestGrows
  <1> QED BY <1>4, <1>5

LEMMA RoundingIs ==
  ASSUME NEW n \in Nat
  PROVE  \E q, x : Divided(n, B!SCALE, q, x) /\ B!RoundScore(n) = Nearest(B!SCALE, q, x)
  <1> DEFINE q == n \div B!SCALE
             x == n - B!SCALE * q
  <1>1. q \in Nat /\ B!SCALE * q <= n /\ n < B!SCALE * q + B!SCALE
    BY ScaleIs, DivisionIs
  <1>2. B!RoundScore(n) = Nearest(B!SCALE, q, x)
    BY DEF B!RoundScore, Nearest
  <1>3. Divided(n, B!SCALE, q, x)
    <2> DEFINE a == B!SCALE * q
               d == B!SCALE
    <2>1. d \in Nat \ {0} /\ a \in Int /\ a <= n /\ n < a + d /\ x = n - a
      BY <1>1, ScaleIs
    <2> HIDE DEF a, d, x
    <2>2. x \in Nat /\ x < d /\ n = a + x
      BY <2>1
    <2> QED BY <1>1, <2>1, <2>2 DEF Divided, a, d
  <1> QED BY <1>2, <1>3

LEMMA RoundedIs ==
  ASSUME NEW n \in Nat
  PROVE  /\ B!RoundScore(n) \in Nat
         /\ n <= B!SCALE * 100 => B!RoundScore(n) <= 100
         /\ n <= B!SCALE * 80 => B!RoundScore(n) <= 80
         /\ \A m \in Nat : n <= m => B!RoundScore(n) <= B!RoundScore(m)
  <1>1. PICK q, x : Divided(n, B!SCALE, q, x) /\ B!RoundScore(n) = Nearest(B!SCALE, q, x)
    BY RoundingIs
  <1>2. B!RoundScore(n) \in Nat
    <2>1. q \in Nat
      BY <1>1 DEF Divided
    <2>2. Nearest(B!SCALE, q, x) \in {q, q + 1}
      BY DEF Nearest
    <2> QED BY <1>1, <2>1, <2>2
  <1>3. ASSUME NEW k \in Nat, n <= B!SCALE * k PROVE B!RoundScore(n) <= k
    BY <1>1, <1>3, NearestAtMost
  <1>4. ASSUME NEW m \in Nat, n <= m PROVE B!RoundScore(n) <= B!RoundScore(m)
    <2>1. PICK p, y : Divided(m, B!SCALE, p, y) /\ B!RoundScore(m) = Nearest(B!SCALE, p, y)
      BY RoundingIs
    <2> QED BY <1>1, <1>4, <2>1, NearestGrows
  <1>5. 100 \in Nat /\ 80 \in Nat
    BY SMT
  <1> QED BY Zenon, <1>2, <1>3, <1>4, <1>5

\* The scores of two rooms with components at least as good.
Worse(c, d) == \A k \in Parts : c[k] \in Int /\ d[k] \in Int /\ c[k] <= d[k]

LEMMA ScoreGrows ==
  ASSUME NEW c, NEW d, Worse(c, d)
  PROVE  B!ComputeScore(c) <= B!ComputeScore(d)
  <1> DEFINE lo(k) == B!Clamped(c[k])
             hi(k) == B!Clamped(d[k])
             Total(x, y, z, u, v, w) == x * 25 + y * 15 + z * 20 + u * 15 + v * 10 + w * 15
             low == Total(lo("reconciliation"), lo("categorization"), lo("audit_integrity"),
                          lo("receivables_discipline"), lo("conflict_hygiene"), lo("forecast_freshness"))
             high == Total(hi("reconciliation"), hi("categorization"), hi("audit_integrity"),
                           hi("receivables_discipline"), hi("conflict_hygiene"), hi("forecast_freshness"))
  <1>1. ASSUME NEW k \in Parts PROVE lo(k) \in Nat /\ hi(k) \in Nat /\ lo(k) <= hi(k)
    <2>1. c[k] \in Int /\ d[k] \in Int /\ c[k] <= d[k]
      BY DEF Worse
    <2> QED BY SMT, <2>1, ClampedIs
  <1>2. B!ComputeScore(c) = B!RoundScore(low) /\ B!ComputeScore(d) = B!RoundScore(high)
    <2>1. \A k \in Parts : c[k] \in Int /\ d[k] \in Int
      BY DEF Worse
    <2> QED BY <2>1, ScoreSum
  <1> HIDE DEF lo, hi
  <1>3. low \in Nat /\ high \in Nat /\ low <= high
    <2>1. ASSUME NEW x \in Nat, NEW y \in Nat, NEW z \in Nat, NEW u \in Nat, NEW v \in Nat, NEW w \in Nat,
                 NEW x2 \in Nat, NEW y2 \in Nat, NEW z2 \in Nat, NEW u2 \in Nat, NEW v2 \in Nat, NEW w2 \in Nat,
                 x <= x2, y <= y2, z <= z2, u <= u2, v <= v2, w <= w2
          PROVE  Total(x, y, z, u, v, w) \in Nat /\ Total(x2, y2, z2, u2, v2, w2) \in Nat
                 /\ Total(x, y, z, u, v, w) <= Total(x2, y2, z2, u2, v2, w2)
      BY <2>1
    <2>2. \A k \in Parts : lo(k) \in Nat /\ hi(k) \in Nat /\ lo(k) <= hi(k)
      BY <1>1
    <2> HIDE DEF Total
    <2> QED BY <2>1, <2>2 DEF Parts
  <1> HIDE DEF low, high
  <1> QED BY SMT, <1>2, <1>3, RoundedIs

LEMMA ScoreRange ==
  ASSUME NEW c, \A k \in Parts : c[k] \in Int
  PROVE  B!ComputeScore(c) \in 0..100 /\ (c["audit_integrity"] = 0 => B!ComputeScore(c) <= 80)
  <1> DEFINE m(k) == B!Clamped(c[k])
             n == m("reconciliation") * 25 + m("categorization") * 15 + m("audit_integrity") * 20
                  + m("receivables_discipline") * 15 + m("conflict_hygiene") * 10 + m("forecast_freshness") * 15
  <1>1. B!ComputeScore(c) = B!RoundScore(n)
    BY ScoreSum
  <1>2. ASSUME NEW k \in Parts PROVE m(k) \in Nat /\ m(k) <= B!SCALE
    <2>1. c[k] \in Int
      OBVIOUS
    <2> QED BY SMT, <2>1, ClampedIs
  <1>3. c["audit_integrity"] = 0 => m("audit_integrity") = 0
    BY DEF B!Clamped, B!SCALE
  <1> HIDE DEF m
  <1>4. \A k \in {"reconciliation", "categorization", "audit_integrity", "receivables_discipline",
                   "conflict_hygiene", "forecast_freshness"} : m(k) \in Nat /\ m(k) <= B!SCALE
    BY SMT, <1>2 DEF Parts
  <1>5. n \in Nat /\ n <= B!SCALE * 100 /\ (c["audit_integrity"] = 0 => n <= B!SCALE * 80)
    BY SMT, <1>3, <1>4, ScaleIs
  <1> HIDE DEF n
  <1>6. B!RoundScore(n) \in Nat /\ B!RoundScore(n) <= 100 /\ (c["audit_integrity"] = 0 => B!RoundScore(n) <= 80)
    BY Zenon, <1>5, RoundedIs
  <1> DEFINE v == B!RoundScore(n)
  <1>7. v \in Nat /\ v <= 100 => v \in 0..100
    <2> HIDE DEF v
    <2> QED BY SMT
  <1> QED BY Zenon, <1>1, <1>6, <1>7

LEMMA DivisionGrows ==
  ASSUME NEW a \in Nat, NEW b \in Nat, a <= b, NEW d \in Nat \ {0}
  PROVE  a \div d <= b \div d
  <1> DEFINE p == a \div d
             q == b \div d
  <1>1. p \in Nat /\ q \in Nat /\ d * p <= a /\ b < d * q + d
    BY DivisionIs
  <1> HIDE DEF p, q
  <1>2. d * p < d * q + d
    BY <1>1
  <1>3. d * p < d * (q + 1)
    BY <1>1, <1>2
  <1>4. p < q + 1
    BY <1>1, <1>3
  <1> QED BY <1>1, <1>4 DEF p, q

LEMMA RatioIs ==
  ASSUME NEW p \in Nat, NEW total \in Nat
  PROVE  B!Ratio(p, total) \in Nat /\ \A q \in Nat : p <= q => B!Ratio(p, total) <= B!Ratio(q, total)
  <1>1. CASE total = 0
    BY <1>1 DEF B!Ratio
  <1>2. CASE total # 0
    <2> DEFINE a == B!SCALE * p
    <2>1. a \in Nat /\ total \in Nat \ {0} /\ B!Ratio(p, total) = a \div total
      BY <1>2, ScaleIs DEF B!Ratio
    <2>2. B!Ratio(p, total) \in Nat
      <3> HIDE DEF a
      <3> QED BY <2>1, DivisionIs
    <2>3. ASSUME NEW q \in Nat, p <= q PROVE B!Ratio(p, total) <= B!Ratio(q, total)
      <3> DEFINE b == B!SCALE * q
      <3>1. b \in Nat /\ a <= b
        BY <2>3, ScaleIs
      <3>2. B!Ratio(q, total) = b \div total
        BY <1>2 DEF B!Ratio
      <3> HIDE DEF a, b
      <3> QED BY <2>1, <3>1, <3>2, DivisionGrows
    <2> QED BY <2>2, <2>3
  <1> QED BY <1>1, <1>2

\* What the data room is given.
Receivables(open) == IsFiniteSet(open) /\ \A i \in open : i.due \in Int /\ i.amount \in Nat

\* Open and overdue paise, and what of them is due to one invoice.
LEMMA OverdueIs ==
  ASSUME NEW open, Receivables(open), NEW now \in Int
  PROVE  /\ B!Paise(open) \in Nat /\ B!OverduePaise(open, now) \in Nat /\ B!OverduePaise(open, now) <= B!Paise(open)
         /\ \A i \in open :
              /\ B!Paise(open) = i.amount + B!Paise(open \ {i})
              /\ i.due < now => B!OverduePaise(open, now) = i.amount + B!OverduePaise(open \ {i}, now)
              /\ ~(i.due < now) => B!OverduePaise(open, now) = B!OverduePaise(open \ {i}, now)
  <1> DEFINE amount == [r \in open |-> r.amount]
             late == {i \in open : i.due < now}
  <1>1. IsFiniteSet(open) /\ (\A r \in open : amount[r] \in Nat) /\ Whole(amount, open) /\ late \in SUBSET open
        /\ \A r \in open : amount[r] = r.amount
    BY DEF Receivables, Whole
  <1>2. \A T \in SUBSET open : B!Paise(T) = SumFunctionOnSet(amount, T)
    BY <1>1, PaiseOf
  <1>3. B!OverduePaise(open, now) = B!Paise(late)
    BY DEF B!OverduePaise
  <1>4. \A i \in open : B!OverduePaise(open \ {i}, now) = B!Paise(late \ {i})
    <2>1. \A i \in open : {j \in open \ {i} : j.due < now} = late \ {i}
      OBVIOUS
    <2> HIDE DEF late
    <2> QED BY <2>1 DEF B!OverduePaise
  <1>5. \A i \in open : i \in late <=> i.due < now
    OBVIOUS
  <1> HIDE DEF amount, late
  <1>6. IsFiniteSet(late) /\ Whole(amount, late)
    BY <1>1, FS_Subset DEF Whole
  <1>7. SumFunctionOnSet(amount, open) \in Nat /\ SumFunctionOnSet(amount, late) \in Nat
        /\ SumFunctionOnSet(amount, late) <= SumFunctionOnSet(amount, open)
    BY <1>1, SumOfParts
  <1>8. ASSUME NEW i \in open
        PROVE  /\ B!Paise(open) = i.amount + B!Paise(open \ {i})
               /\ i.due < now => B!OverduePaise(open, now) = i.amount + B!OverduePaise(open \ {i}, now)
               /\ ~(i.due < now) => B!OverduePaise(open, now) = B!OverduePaise(open \ {i}, now)
    <2>1. open \ {i} \in SUBSET open /\ late \ {i} \in SUBSET open /\ open \in SUBSET open
      BY <1>1
    <2>2. SumFunctionOnSet(amount, open) = amount[i] + SumFunctionOnSet(amount, open \ {i})
      BY <1>1, SumOfMore
    <2>3. CASE i.due < now
      <3>1. SumFunctionOnSet(amount, late) = amount[i] + SumFunctionOnSet(amount, late \ {i})
        BY <1>5, <1>6, <2>3, SumOfMore
      <3> QED BY <1>1, <1>2, <1>3, <1>4, <2>1, <2>2, <2>3, <3>1
    <2>4. CASE ~(i.due < now)
      <3>1. late \ {i} = late
        BY <1>5, <2>4
      <3> QED BY <1>1, <1>2, <1>3, <1>4, <2>1, <2>2, <2>4, <3>1
    <2> QED BY <2>3, <2>4
  <1>9. open \in SUBSET open
    OBVIOUS
  <1> QED BY <1>1, <1>2, <1>3, <1>7, <1>8, <1>9

LEMMA DisciplineIs ==
  ASSUME NEW open, Receivables(open), NEW now \in Int
  PROVE  B!Discipline(open, now) \in Int
  <1>1. B!Ratio(B!OverduePaise(open, now), B!Paise(open)) \in Nat
    BY OverdueIs, RatioIs
  <1> QED BY <1>1, ScaleIs DEF B!Discipline

\* With the paise a of an overdue invoice gone from those overdue and those
\* open, the share that is overdue is no larger.
LEMMA ShareShrinks ==
  ASSUME NEW overdue \in Nat, NEW total \in Nat, overdue <= total, NEW a \in Nat, a <= overdue
  PROVE  B!Ratio(overdue - a, total - a) <= B!Ratio(overdue, total)
  <1> DEFINE s == B!SCALE
             q == B!Ratio(overdue, total)
             p == B!Ratio(overdue - a, total - a)
  <1>0. overdue - a \in Nat /\ total - a \in Nat
    OBVIOUS
  <1>1. s \in Nat /\ s > 0 /\ q \in Nat /\ p \in Nat
    <2>1. s \in Nat /\ s > 0
      BY ScaleIs
    <2>2. q \in Nat
      BY RatioIs
    <2>3. p \in Nat
      BY <1>0, RatioIs
    <2> HIDE DEF s, q, p
    <2> QED BY <2>1, <2>2, <2>3
  <1>2. CASE total - a = 0
    <2>1. p = 0
      BY <1>2 DEF B!Ratio
    <2> HIDE DEF q, p
    <2>2. p <= q
      BY <1>1, <2>1
    <2> QED BY <2>2 DEF q, p
  <1>3. CASE total - a # 0
    <2>1. total # 0
      BY <1>3
    <2>2. total * q <= s * overdue /\ s * overdue < total * q + total
      <3> DEFINE n == s * overdue
      <3>1. n \in Nat
        BY <1>1
      <3>2. q = n \div total
        BY <2>1 DEF B!Ratio
      <3> HIDE DEF n, q
      <3>3. total * q <= n /\ n < total * q + total
        BY <2>1, <3>1, <3>2, DivisionIs
      <3> QED BY <3>3 DEF n
    <2>3. (total - a) * p <= s * (overdue - a)
      <3> DEFINE n == s * (overdue - a)
                 t == total - a
      <3>1. n \in Nat /\ t \in Nat \ {0}
        BY <1>1, <1>3
      <3>2. p = n \div t
        BY <1>3 DEF B!Ratio
      <3> HIDE DEF n, p, t
      <3>3. t * p <= n
        BY <3>1, <3>2, DivisionIs
      <3> QED BY <3>3 DEF n, t
    <2> HIDE DEF s, q, p
    <2>4. ASSUME p >= q + 1 PROVE FALSE
      <3>1. (total - a) * (q + 1) <= (total - a) * p
        BY <1>1, <2>4
      <3>2. (total - a) * (q + 1) <= s * (overdue - a)
        BY <1>1, <2>3, <3>1
      <3>3. total * (q + 1) - a * (q + 1) <= s * overdue - s * a
        BY <1>1, <3>2
      <3>4. a * (q + 1) > s * a
        BY <1>1, <2>2, <3>3
      <3>5. q + 1 > s
        BY <1>1, <3>4
      <3>6. (total - a) * (q + 1) > s * (total - a)
        BY <1>1, <1>3, <3>5
      <3>7. s * (overdue - a) <= s * (total - a)
        BY <1>1
      <3> QED BY <1>1, <3>2, <3>6, <3>7
    <2>5. p <= q
      BY <1>1, <2>4
    <2> QED BY <2>5 DEF q, p
  <1> QED BY <1>2, <1>3

\* An overdue invoice less, or any when nothing is overdue, does not lower
\* the discipline.
LEMMA CollectingDisciplines ==
  ASSUME NEW open, Receivables(open), NEW now \in Int, NEW i \in open,
         i.due < now \/ B!OverduePaise(open, now) = 0
  PROVE  B!Discipline(open, now) <= B!Discipline(open \ {i}, now)
  <1> DEFINE o == B!OverduePaise(open, now)
             t == B!Paise(open)
             u == B!OverduePaise(open \ {i}, now)
             v == B!Paise(open \ {i})
  <1>1. Receivables(open \ {i}) /\ i.amount \in Nat
    BY FS_Subset DEF Receivables
  <1>2. o \in Nat /\ t \in Nat /\ o <= t /\ u \in Nat /\ v \in Nat /\ t = i.amount + v
    BY <1>1, OverdueIs
  <1>3. /\ i.due < now => o = i.amount + u
        /\ ~(i.due < now) => o = u
    BY OverdueIs
  <1>4. B!Discipline(open, now) = B!SCALE - B!Ratio(o, t) /\ B!Discipline(open \ {i}, now) = B!SCALE - B!Ratio(u, v)
    BY DEF B!Discipline
  <1> HIDE DEF o, t, u, v
  <1>5. B!Ratio(u, v) <= B!Ratio(o, t) /\ B!Ratio(u, v) \in Nat /\ B!Ratio(o, t) \in Nat
    <2>1. B!Ratio(u, v) \in Nat /\ B!Ratio(o, t) \in Nat
      BY <1>2, RatioIs
    <2>2. CASE i.due < now
      <3>1. i.amount <= o /\ u = o - i.amount /\ v = t - i.amount
        BY <1>1, <1>2, <1>3, <2>2
      <3> QED BY <1>1, <1>2, <2>1, <3>1, ShareShrinks
    <2>3. CASE ~(i.due < now)
      <3>1. u = 0
        BY <1>3, <2>3 DEF o
      <3>2. B!Ratio(u, v) = 0
        BY <1>2, <3>1, ScaleIs DEF B!Ratio
      <3> QED BY <2>1, <3>2
    <2> QED BY <2>2, <2>3
  <1> QED BY <1>4, <1>5, ScaleIs

LEMMA FreshnessIs ==
  ASSUME NEW age \in SUBSET Nat, \A a, b \in age : a = b
  PROVE  B!Freshness(age) \in Int
  <1> DEFINE T == {0} \cup {B!SCALE - B!Ratio(a, 14) : a \in age}
  <1>1. \A a \in age : B!SCALE - B!Ratio(a, 14) \in Int
    BY ScaleIs, RatioIs
  <1>2. \A x \in T : x \in Int
    BY <1>1
  <1>3. \E x \in T : \A y \in T : x >= y
    <2>1. CASE age = {}
      <3>1. T = {0}
        BY <2>1
      <3> QED BY <3>1
    <2>2. CASE age # {}
      <3>1. PICK a \in age : TRUE
        BY <2>2
      <3> DEFINE m == B!SCALE - B!Ratio(a, 14)
      <3>2. T = {0, m}
        BY <3>1
      <3>3. m \in Int
        BY <1>1, <3>1
      <3> HIDE DEF T, m
      <3>4. CASE m >= 0
        BY <3>2, <3>3, <3>4
      <3>5. CASE ~(m >= 0)
        BY <3>2, <3>3, <3>5
      <3> QED BY <3>4, <3>5
    <2> QED BY <2>1, <2>2
  <1>4. B!Freshness(age) = CHOOSE x \in T : \A y \in T : x >= y
    BY DEF B!Freshness, B!Max
  <1> HIDE DEF T
  <1> QED BY <1>2, <1>3, <1>4

\* What the data room counts.
Counts(c) ==
  /\ c.txns \in Nat /\ c.matched \in Nat /\ c.debits \in Nat /\ c.categorized \in Nat /\ c.chainOk \in BOOLEAN
  /\ c.conflicts \in Nat /\ c.resolved \in Nat /\ c.now \in Int /\ Receivables(c.invoices)
  /\ c.forecastAge \in SUBSET Nat /\ \A a, b \in c.forecastAge : a = b

LEMMA HygieneIs ==
  ASSUME NEW o \in Nat, NEW r \in Nat
  PROVE  B!Hygiene(o, r) \in Nat /\ (o > 0 => B!Hygiene(o, r) <= B!Hygiene(o - 1, r + 1))
  <1>1. B!Ratio(r, o + r) \in Nat
    BY RatioIs
  <1>2. B!Hygiene(o, r) \in Nat
    <2>1. B!Hygiene(o, r) = B!SCALE \/ B!Hygiene(o, r) = B!Ratio(r, o + r)
      BY DEF B!Hygiene
    <2> QED BY <1>1, <2>1, ScaleIs
  <1>3. ASSUME o > 0 PROVE B!Hygiene(o, r) <= B!Hygiene(o - 1, r + 1)
    <2>1. o + r # 0 /\ o - 1 + (r + 1) = o + r /\ o + r \in Nat /\ r + 1 \in Nat /\ r <= r + 1
      BY <1>3
    <2>2. B!Hygiene(o, r) = B!Ratio(r, o + r) /\ B!Hygiene(o - 1, r + 1) = B!Ratio(r + 1, o + r)
      BY <2>1 DEF B!Hygiene
    <2>3. B!Ratio(r, o + r) <= B!Ratio(r + 1, o + r)
      BY <2>1, RatioIs
    <2> QED BY <2>2, <2>3
  <1> QED BY <1>2, <1>3

LEMMA ComponentsAre ==
  ASSUME NEW c, Counts(c)
  PROVE  /\ \A k \in Parts : B!Components(c)[k] \in Int
         /\ ~c.chainOk => B!Components(c)["audit_integrity"] = 0
  <1>1. /\ B!Ratio(c.matched, c.txns) \in Nat /\ B!Ratio(c.categorized, c.debits) \in Nat
        /\ B!Discipline(c.invoices, c.now) \in Int /\ B!Hygiene(c.conflicts, c.resolved) \in Nat
        /\ B!Freshness(c.forecastAge) \in Int
    BY RatioIs, DisciplineIs, HygieneIs, FreshnessIs DEF Counts
  <1>2. /\ B!Components(c)["reconciliation"] = B!Ratio(c.matched, c.txns)
        /\ B!Components(c)["categorization"] = B!Ratio(c.categorized, c.debits)
        /\ B!Components(c)["audit_integrity"] = IF c.chainOk THEN B!SCALE ELSE 0
        /\ B!Components(c)["receivables_discipline"] = B!Discipline(c.invoices, c.now)
        /\ B!Components(c)["conflict_hygiene"] = B!Hygiene(c.conflicts, c.resolved)
        /\ B!Components(c)["forecast_freshness"] = B!Freshness(c.forecastAge)
    BY DEF B!Components
  <1>3. B!Components(c)["audit_integrity"] \in Int
    BY <1>2, ScaleIs
  <1>4. \A k \in Parts : B!Components(c)[k] \in Int
    BY <1>1, <1>2, <1>3 DEF Parts
  <1> QED BY <1>2, <1>4

\* No part smaller, no smaller score.
LEMMA BetterParts ==
  ASSUME NEW c, Counts(c), NEW d, Counts(d),
         B!Ratio(c.matched, c.txns) <= B!Ratio(d.matched, d.txns),
         B!Ratio(c.categorized, c.debits) <= B!Ratio(d.categorized, d.debits),
         c.chainOk = d.chainOk,
         B!Discipline(c.invoices, c.now) <= B!Discipline(d.invoices, d.now),
         B!Hygiene(c.conflicts, c.resolved) <= B!Hygiene(d.conflicts, d.resolved),
         c.forecastAge = d.forecastAge
  PROVE  B!Score(d) >= B!Score(c)
  <1>1. \A k \in Parts : B!Components(c)[k] \in Int /\ B!Components(d)[k] \in Int
    BY ComponentsAre
  <1>2. /\ B!Components(c)["reconciliation"] <= B!Components(d)["reconciliation"]
        /\ B!Components(c)["categorization"] <= B!Components(d)["categorization"]
        /\ B!Components(c)["receivables_discipline"] <= B!Components(d)["receivables_discipline"]
        /\ B!Components(c)["conflict_hygiene"] <= B!Components(d)["conflict_hygiene"]
        /\ B!Components(c)["audit_integrity"] = B!Components(d)["audit_integrity"]
        /\ B!Components(c)["forecast_freshness"] = B!Components(d)["forecast_freshness"]
    BY DEF B!Components
  <1>3. ASSUME NEW k \in Parts PROVE B!Components(c)[k] <= B!Components(d)[k]
    BY <1>1, <1>2, <1>3 DEF Parts
  <1>4. Worse(B!Components(c), B!Components(d))
    BY <1>1, <1>3 DEF Worse
  <1>5. B!ComputeScore(B!Components(c)) \in 0..100 /\ B!ComputeScore(B!Components(d)) \in 0..100
    BY <1>1, ScoreRange
  <1>6. B!ComputeScore(B!Components(c)) <= B!ComputeScore(B!Components(d))
    BY <1>4, ScoreGrows
  <1>7. B!Score(d) = B!ComputeScore(B!Components(d)) /\ B!Score(c) = B!ComputeScore(B!Components(c))
    BY DEF B!Score
  <1> HIDE DEF B!Score
  <1> QED BY <1>5, <1>6, <1>7

ScoreRows(c) ==
  c \in [txns : Nat, matched : Nat, debits : Nat, categorized : Nat, chainOk : BOOLEAN, conflicts : Nat,
         resolved : Nat, forecastAge : SUBSET Nat, invoices : SUBSET c.invoices, now : Int]

\* Doing well is no part smaller.
LEMMA DeedsCount ==
  ASSUME NEW c, ScoreRows(c), Counts(c)
  PROVE  /\ B!Score([c EXCEPT !.matched = @ + 1]) >= B!Score(c)
         /\ B!Score([c EXCEPT !.categorized = @ + 1]) >= B!Score(c)
         /\ c.conflicts > 0 => B!Score([c EXCEPT !.conflicts = @ - 1, !.resolved = @ + 1]) >= B!Score(c)
         /\ \A i \in c.invoices :
              i.due < c.now \/ B!OverduePaise(c.invoices, c.now) = 0 =>
                B!Score([c EXCEPT !.invoices = @ \ {i}]) >= B!Score(c)
  <1>0. /\ B!Ratio(c.matched, c.txns) \in Nat /\ B!Ratio(c.categorized, c.debits) \in Nat
        /\ B!Discipline(c.invoices, c.now) \in Int /\ B!Hygiene(c.conflicts, c.resolved) \in Nat
    BY RatioIs, DisciplineIs, HygieneIs DEF Counts
  <1>1. B!Score([c EXCEPT !.matched = @ + 1]) >= B!Score(c)
    <2> DEFINE d == [c EXCEPT !.matched = @ + 1]
    <2>1. /\ d.txns = c.txns /\ d.matched = c.matched + 1 /\ d.debits = c.debits /\ d.categorized = c.categorized
          /\ d.chainOk = c.chainOk /\ d.conflicts = c.conflicts /\ d.resolved = c.resolved
          /\ d.forecastAge = c.forecastAge /\ d.invoices = c.invoices /\ d.now = c.now
      BY DEF ScoreRows
    <2> HIDE DEF d
    <2>2. Counts(d)
      BY <2>1 DEF Counts
    <2>3. B!Ratio(c.matched, c.txns) <= B!Ratio(d.matched, d.txns)
      <3>1. c.matched \in Nat /\ c.matched + 1 \in Nat /\ c.matched <= c.matched + 1 /\ c.txns \in Nat
        BY DEF Counts
      <3>2. B!Ratio(c.matched, c.txns) <= B!Ratio(c.matched + 1, c.txns)
        BY <3>1, RatioIs
      <3> QED BY <2>1, <3>2
    <2>4. B!Score(d) >= B!Score(c)
      BY <1>0, <2>1, <2>2, <2>3, BetterParts
    <2> QED BY <2>4 DEF d
  <1>2. B!Score([c EXCEPT !.categorized = @ + 1]) >= B!Score(c)
    <2> DEFINE d == [c EXCEPT !.categorized = @ + 1]
    <2>1. /\ d.txns = c.txns /\ d.matched = c.matched /\ d.debits = c.debits /\ d.categorized = c.categorized + 1
          /\ d.chainOk = c.chainOk /\ d.conflicts = c.conflicts /\ d.resolved = c.resolved
          /\ d.forecastAge = c.forecastAge /\ d.invoices = c.invoices /\ d.now = c.now
      BY DEF ScoreRows
    <2> HIDE DEF d
    <2>2. Counts(d)
      BY <2>1 DEF Counts
    <2>3. B!Ratio(c.categorized, c.debits) <= B!Ratio(d.categorized, d.debits)
      <3>1. c.categorized \in Nat /\ c.categorized + 1 \in Nat /\ c.categorized <= c.categorized + 1 /\ c.debits \in Nat
        BY DEF Counts
      <3>2. B!Ratio(c.categorized, c.debits) <= B!Ratio(c.categorized + 1, c.debits)
        BY <3>1, RatioIs
      <3> QED BY <2>1, <3>2
    <2>4. B!Score(d) >= B!Score(c)
      BY <1>0, <2>1, <2>2, <2>3, BetterParts
    <2> QED BY <2>4 DEF d
  <1>3. ASSUME c.conflicts > 0
        PROVE  B!Score([c EXCEPT !.conflicts = @ - 1, !.resolved = @ + 1]) >= B!Score(c)
    <2> DEFINE d == [c EXCEPT !.conflicts = @ - 1, !.resolved = @ + 1]
    <2>1. /\ d.txns = c.txns /\ d.matched = c.matched /\ d.debits = c.debits /\ d.categorized = c.categorized
          /\ d.chainOk = c.chainOk /\ d.conflicts = c.conflicts - 1 /\ d.resolved = c.resolved + 1
          /\ d.forecastAge = c.forecastAge /\ d.invoices = c.invoices /\ d.now = c.now
      BY DEF ScoreRows
    <2> HIDE DEF d
    <2>2. Counts(d)
      BY <1>3, <2>1 DEF Counts
    <2>3. B!Hygiene(c.conflicts, c.resolved) <= B!Hygiene(d.conflicts, d.resolved)
      BY <1>3, <2>1, HygieneIs DEF Counts
    <2>4. B!Score(d) >= B!Score(c)
      BY <1>0, <2>1, <2>2, <2>3, BetterParts
    <2> QED BY <2>4 DEF d
  <1>4. ASSUME NEW i \in c.invoices, i.due < c.now \/ B!OverduePaise(c.invoices, c.now) = 0
        PROVE  B!Score([c EXCEPT !.invoices = @ \ {i}]) >= B!Score(c)
    <2> DEFINE d == [c EXCEPT !.invoices = @ \ {i}]
    <2>1. /\ d.txns = c.txns /\ d.matched = c.matched /\ d.debits = c.debits /\ d.categorized = c.categorized
          /\ d.chainOk = c.chainOk /\ d.conflicts = c.conflicts /\ d.resolved = c.resolved
          /\ d.forecastAge = c.forecastAge /\ d.invoices = c.invoices \ {i} /\ d.now = c.now
      BY DEF ScoreRows
    <2> HIDE DEF d
    <2>2. Receivables(c.invoices \ {i})
      BY FS_Subset DEF Counts, Receivables
    <2>3. Counts(d)
      BY <2>1, <2>2 DEF Counts
    <2>4. B!Discipline(c.invoices, c.now) <= B!Discipline(d.invoices, d.now)
      BY <1>4, <2>1, CollectingDisciplines DEF Counts
    <2>5. B!Score(d) >= B!Score(c)
      BY <1>0, <2>1, <2>3, <2>4, BetterParts
    <2> QED BY <2>5 DEF d
  <1> QED BY <1>1, <1>2, <1>3, <1>4

\* The buckets of the aging report hold what is past due.
LEMMA BucketsAgree ==
  ASSUME NEW open, Receivables(open), NEW now \in Int
  PROVE  SumFunction(B!Aging(open, now)) = B!OverduePaise(open, now) + B!Paise({i \in open : i.due = now})
  <1> DEFINE amount == [r \in open |-> r.amount]
             due == {i \in open : B!PastDue(i, now)}
             late == {i \in open : i.due < now}
             today == {i \in open : i.due = now}
             bucket == [i \in due |-> B!AgingBucket(B!DaysOverdue(i, now))]
             aging == B!Aging(open, now)
  <1>1. IsFiniteSet(open) /\ Whole(amount, open)
    BY DEF Receivables, Whole
  <1>2. \A T \in SUBSET open : B!Paise(T) = SumFunctionOnSet(amount, T)
    BY <1>1, PaiseOf
  <1>3. \A i \in open : B!PastDue(i, now) <=> i.due <= now
    <2> TAKE i \in open
    <2>1. i.due \in Int
      BY DEF Receivables
    <2> QED BY SMT, <2>1 DEF B!PastDue, B!DaysOverdue
  <1>4. due \in SUBSET open /\ late \in SUBSET due /\ due \ late = today
    <2>1. \A i \in open : i.due \in Int
      BY DEF Receivables
    <2> QED BY <1>3, <2>1
  <1>5. DOMAIN aging = B!AGING_BUCKETS /\ SumFunction(aging) = SumFunctionOnSet(aging, B!AGING_BUCKETS)
    BY DEF B!Aging, SumFunction
  <1>6. ASSUME NEW b \in B!AGING_BUCKETS
        PROVE  aging[b] = SumFunctionOnSet(amount, {i \in due : bucket[i] = b})
    <2>1. aging[b] = B!Paise({i \in open : B!PastDue(i, now) /\ B!AgingBucket(B!DaysOverdue(i, now)) = b})
      BY DEF B!Aging
    <2>2. {i \in open : B!PastDue(i, now) /\ B!AgingBucket(B!DaysOverdue(i, now)) = b} = {i \in due : bucket[i] = b}
      OBVIOUS
    <2>3. {i \in due : bucket[i] = b} \in SUBSET open
      OBVIOUS
    <2> HIDE DEF bucket, aging, due, amount
    <2> QED BY <1>2, <2>1, <2>2, <2>3
  <1>7. \A i \in due : bucket[i] \in B!AGING_BUCKETS
    BY DEF B!AgingBucket, B!AGING_BUCKETS
  <1>8. IsFiniteSet(B!AGING_BUCKETS)
    <2>1. IsFiniteSet({"0-30"})
      BY FS_Singleton
    <2>2. IsFiniteSet({"0-30"} \cup {"31-60"})
      BY <2>1, FS_AddElement
    <2>3. IsFiniteSet(({"0-30"} \cup {"31-60"}) \cup {"61+"})
      BY <2>2, FS_AddElement
    <2>4. B!AGING_BUCKETS = ({"0-30"} \cup {"31-60"}) \cup {"61+"}
      BY DEF B!AGING_BUCKETS
    <2> QED BY <2>3, <2>4
  <1>9. B!OverduePaise(open, now) = B!Paise(late) /\ B!Paise({i \in open : i.due = now}) = B!Paise(today)
    BY DEF B!OverduePaise
  <1> HIDE DEF amount, due, late, today, bucket, aging
  <1>10. IsFiniteSet(due) /\ Whole(amount, due) /\ late \in SUBSET open /\ today \in SUBSET open
    BY <1>1, <1>4, FS_Subset DEF Whole
  <1>11. SumFunctionOnSet(aging, B!AGING_BUCKETS) = SumFunctionOnSet(amount, due)
    <2>1. Grouped(aging, B!AGING_BUCKETS, amount, due, bucket)
      BY <1>6, <1>7, <1>8, <1>10 DEF Grouped
    <2> QED BY <2>1, SumOfGroups
  <1>12. SumFunctionOnSet(amount, due) = SumFunctionOnSet(amount, late) + SumFunctionOnSet(amount, due \ late)
    BY <1>4, <1>10, SumOfBoth
  <1>13. SumFunction(aging) = B!OverduePaise(open, now) + B!Paise({i \in open : i.due = now})
    BY <1>2, <1>4, <1>5, <1>9, <1>10, <1>11, <1>12
  <1> QED BY <1>13 DEF aging

LEMMA SameCardinality ==
  ASSUME NEW S
  PROVE  B!Cardinality(S) = Cardinality(S)
  BY DEF B!Cardinality, Cardinality

\* A set has as many elements as one it maps to one to one.
LEMMA OneToOne ==
  ASSUME NEW S, IsFiniteSet(S), NEW f, DOMAIN f = S, f \in [S -> {f[x] : x \in S}],
         \A x, y \in S : f[x] = f[y] => x = y
  PROVE  Cardinality({f[x] : x \in S}) = Cardinality(S)
  <1> DEFINE T == {f[x] : x \in S}
  <1>1. f \in Surjection(S, T) /\ f \in Injection(S, T)
    BY DEF Surjection, Injection, IsInjective
  <1> HIDE DEF T
  <1>2. Cardinality(T) = Cardinality(S)
    BY <1>1, FS_Surjection
  <1> QED BY <1>2 DEF T

\* A cardinality is a sum of ones.
LEMMA CardinalityIsSum ==
  ASSUME NEW S, IsFiniteSet(S), NEW ones, \A x \in S : ones[x] = 1, NEW T \in SUBSET S
  PROVE  SumFunctionOnSet(ones, T) = Cardinality(T)
  <1> DEFINE Good == {s \in SUBSET S : SumFunctionOnSet(ones, s) = Cardinality(s)}
  <1>1. ASSUME NEW s \in SUBSET S, \A x \in s : s \ {x} \in Good PROVE s \in Good
    <2>1. IsFiniteSet(s) /\ Whole(ones, s) /\ Cardinality(s) \in Nat
      BY FS_Subset, FS_CardinalityType DEF Whole
    <2>2. CASE s = {}
      BY <2>2, SumOfNone, FS_EmptySet
    <2>3. ASSUME NEW x \in s PROVE SumFunctionOnSet(ones, s) = Cardinality(s)
      <3>1. SumFunctionOnSet(ones, s) = ones[x] + SumFunctionOnSet(ones, s \ {x})
        BY <2>1, SumOfMore
      <3>2. Cardinality(s \ {x}) = Cardinality(s) - 1
        BY <2>1, FS_RemoveElement
      <3>3. SumFunctionOnSet(ones, s \ {x}) = Cardinality(s \ {x})
        BY <1>1
      <3>4. ones[x] = 1
        OBVIOUS
      <3> QED BY <2>1, <3>1, <3>2, <3>3, <3>4
    <2> QED BY <2>2, <2>3
  <1> HIDE DEF Good
  <1>2. \A s \in SUBSET S : s \in Good
    BY <1>1, SmallerFirst
  <1> QED BY <1>2 DEF Good

\* The transactions and matches of some months.
Months(in) ==
  /\ IsFiniteSet(in.periods) /\ in.periods \subseteq Nat \X (1..12)
  /\ IsFiniteSet(in.txns) /\ \A t, u \in in.txns : t.id = u.id => t = u
  /\ \A t \in in.txns :
       /\ t.date \in Nat \X (1..12) \X (1..31) /\ <<t.date[1], t.date[2]>> \in in.periods
       /\ t.amount \in Nat /\ t.dr \in BOOLEAN
       /\ t.status = "unmatched" <=> t.id \notin in.matches
  /\ \A m \in in.matches : \E t \in in.txns : t.id = m

MonthOf(txns) == [t \in txns |-> <<t.date[1], t.date[2]>>]

LEMMA PeriodIs ==
  ASSUME NEW t, t.date \in Nat \X (1..12) \X (1..31), NEW p \in Nat \X (1..12)
  PROVE  B!InPeriod(t, p) <=> <<t.date[1], t.date[2]>> = p
  <1> DEFINE y == t.date[1]
             m == t.date[2]
             d == t.date[3]
  <1>1. y \in Nat /\ m \in 1..12 /\ d \in 1..31 /\ p[1] \in Nat /\ p[2] \in 1..12 /\ p = <<p[1], p[2]>>
    OBVIOUS
  <1>2. ~B!Before(t.date, B!PeriodStart(p)) <=> (y > p[1] \/ (y = p[1] /\ m >= p[2]))
    BY <1>1 DEF B!Before, B!PeriodStart
  <1>3. B!Before(t.date, B!PeriodEnd(p)) <=> (y < p[1] \/ (y = p[1] /\ m <= p[2]))
    <2>1. CASE p[2] = 12
      <3>1. B!PeriodEnd(p) = <<p[1] + 1, 1, 1>>
        BY <2>1 DEF B!PeriodEnd
      <3> QED BY <1>1, <2>1, <3>1 DEF B!Before
    <2>2. CASE p[2] # 12
      <3>1. B!PeriodEnd(p) = <<p[1], p[2] + 1, 1>>
        BY <2>2 DEF B!PeriodEnd
      <3> QED BY <1>1, <2>2, <3>1 DEF B!Before
    <2> QED BY <2>1, <2>2
  <1>4. B!InPeriod(t, p) <=> (y = p[1] /\ m = p[2])
    BY <1>1, <1>2, <1>3 DEF B!InPeriod
  <1>5. (<<y, m>> = p) <=> (y = p[1] /\ m = p[2])
    BY <1>1
  <1> QED BY <1>4, <1>5

\* The rows of a month's report.
LEMMA RowsOfMonth ==
  ASSUME NEW in, Months(in), NEW p \in in.periods
  PROVE  {t \in in.txns : B!InPeriod(t, p)} = {t \in in.txns : MonthOf(in.txns)[t] = p}
  <1>1. \A t \in in.txns : MonthOf(in.txns)[t] = <<t.date[1], t.date[2]>>
    BY DEF MonthOf
  <1>2. \A t \in in.txns : t.date \in Nat \X (1..12) \X (1..31)
    BY DEF Months
  <1>3. p \in Nat \X (1..12)
    BY DEF Months
  <1>4. \A t \in in.txns : B!InPeriod(t, p) <=> MonthOf(in.txns)[t] = p
    BY <1>1, <1>2, <1>3, PeriodIs
  <1> QED BY <1>4

Amounts(txns) == [t \in txns |-> t.amount]

LEMMA AmountsAre ==
  ASSUME NEW in, Months(in)
  PROVE  /\ IsFiniteSet(in.txns) /\ Whole(Amounts(in.txns), in.txns)
         /\ \A T \in SUBSET in.txns :
              IsFiniteSet(T) /\ Whole(Amounts(in.txns), T) /\ B!Paise(T) = SumFunctionOnSet(Amounts(in.txns), T)
         /\ \A t \in in.txns : MonthOf(in.txns)[t] \in in.periods
  <1>1. IsFiniteSet(in.txns) /\ Whole(Amounts(in.txns), in.txns)
    <2>1. \A t \in in.txns : Amounts(in.txns)[t] = t.amount
      BY DEF Amounts
    <2>2. IsFiniteSet(in.txns)
      BY DEF Months
    <2>3. \A t \in in.txns : t.amount \in Nat
      BY Zenon DEF Months
    <2> QED BY <2>1, <2>2, <2>3 DEF Whole
  <1>2. ASSUME NEW T \in SUBSET in.txns
        PROVE  IsFiniteSet(T) /\ Whole(Amounts(in.txns), T) /\ B!Paise(T) = SumFunctionOnSet(Amounts(in.txns), T)
    <2>1. B!Paise(T) = SumFunctionOnSet(Amounts(in.txns), T)
      BY <1>1, PaiseOf DEF Amounts
    <2> QED BY <1>1, <2>1, FS_Subset DEF Whole
  <1>3. \A t \in in.txns : MonthOf(in.txns)[t] \in in.periods
    BY DEF Months, MonthOf
  <1> QED BY <1>1, <1>2, <1>3

\* What the months' reports say of some transactions sums to what all say.
LEMMA SumOfMonths ==
  ASSUME NEW in, Months(in), NEW S \in SUBSET in.txns, NEW sums, DOMAIN sums = in.periods,
         \A p \in in.periods : sums[p] = B!Paise({t \in S : MonthOf(in.txns)[t] = p})
  PROVE  SumFunction(sums) = B!Paise(S)
  <1> DEFINE group == MonthOf(in.txns)
             amount == Amounts(in.txns)
  <1>1. IsFiniteSet(S) /\ Whole(amount, S) /\ IsFiniteSet(in.periods) /\ \A t \in S : group[t] \in in.periods
    BY AmountsAre DEF Months
  <1>2. ASSUME NEW p \in in.periods PROVE sums[p] = SumFunctionOnSet(amount, {t \in S : group[t] = p})
    <2>1. {t \in S : MonthOf(in.txns)[t] = p} \in SUBSET in.txns
      OBVIOUS
    <2>2. B!Paise({t \in S : MonthOf(in.txns)[t] = p}) = SumFunctionOnSet(Amounts(in.txns), {t \in S : MonthOf(in.txns)[t] = p})
      BY <2>1, AmountsAre
    <2> QED BY <2>2
  <1>3. B!Paise(S) = SumFunctionOnSet(amount, S)
    BY AmountsAre
  <1> HIDE DEF group, amount
  <1>4. Grouped(sums, in.periods, amount, S, group)
    BY <1>1, <1>2 DEF Grouped
  <1>5. SumFunctionOnSet(sums, in.periods) = SumFunctionOnSet(amount, S)
    BY <1>4, SumOfGroups
  <1>6. SumFunction(sums) = SumFunctionOnSet(sums, in.periods)
    BY DEF SumFunction
  <1> QED BY <1>3, <1>5, <1>6

Debits(in) == {t \in in.txns : t.dr}
Settled(in) == {t \in in.txns : t.id \in in.matches}
Within(S, in, p) == {t \in S : MonthOf(in.txns)[t] = p}

\* What a month's report is made of.
LEMMA MonthEndIs ==
  ASSUME NEW in, Months(in), NEW p \in in.periods
  PROVE  LET r == B!MonthEnd(in.txns, in.matches, p)
             debits == Within(Debits(in), in, p)
         IN  /\ r.inflow = B!Paise(Within(in.txns \ Debits(in), in, p)) /\ r.outflow = B!Paise(debits)
             /\ r.byCategory = [c \in {t.category : t \in debits} |-> B!Paise({t \in debits : t.category = c})]
             /\ r.transactions = Cardinality(Within(in.txns, in, p))
             /\ r.matched = Cardinality({t.id : t \in Within(Settled(in), in, p)})
             /\ r.matchedAmount = B!Paise(Within(Settled(in), in, p))
             /\ r.unmatched = Cardinality(Within(in.txns, in, p) \ Settled(in))
  <1> DEFINE month == {t \in in.txns : B!InPeriod(t, p)}
             debits == {t \in month : t.dr}
             matched == B!MatchesOf(in.matches, month)
             r == B!MonthEnd(in.txns, in.matches, p)
  <1>1. /\ r.inflow = B!Paise(month \ debits) /\ r.outflow = B!Paise(debits)
        /\ r.byCategory = [c \in {t.category : t \in debits} |-> B!Paise({t \in debits : t.category = c})]
        /\ r.transactions = B!Cardinality(month) /\ r.matched = B!Cardinality(matched)
        /\ r.matchedAmount = B!Paise({t \in month : t.id \in matched})
        /\ r.unmatched = B!Cardinality({t \in month : t.status = "unmatched"})
    BY DEF B!MonthEnd
  <1>2. month = Within(in.txns, in, p)
    BY RowsOfMonth DEF Within
  <1>3. debits = Within(Debits(in), in, p) /\ month \ debits = Within(in.txns \ Debits(in), in, p)
    <2> HIDE DEF month
    <2> QED BY <1>2 DEF Within, Debits
  <1>4. \A t \in in.txns : t.status = "unmatched" <=> t.id \notin in.matches
    BY DEF Months
  <1>5. {t \in month : t.status = "unmatched"} = Within(in.txns, in, p) \ Settled(in)
    <2> HIDE DEF month
    <2> QED BY <1>2, <1>4 DEF Within, Settled
  <1>6. matched = {t.id : t \in Within(Settled(in), in, p)}
    <2>1. \A m : m \in matched <=> \E t \in Within(Settled(in), in, p) : t.id = m
      <3> HIDE DEF month
      <3> QED BY <1>2 DEF B!MatchesOf, Within, Settled
    <2> HIDE DEF matched
    <2> QED BY <2>1
  <1>7. {t \in month : t.id \in matched} = Within(Settled(in), in, p)
    <2>1. \A t \in Within(in.txns, in, p) : t.id \in matched <=> t \in Within(Settled(in), in, p)
      <3> HIDE DEF month
      <3> QED BY <1>2 DEF B!MatchesOf, Within, Settled
    <2>2. Within(Settled(in), in, p) \subseteq Within(in.txns, in, p)
      BY DEF Within, Settled
    <2> HIDE DEF matched, month
    <2> QED BY <1>2, <2>1, <2>2
  <1> HIDE DEF month, debits, matched, r
  <1>8. /\ r.inflow = B!Paise(Within(in.txns \ Debits(in), in, p)) /\ r.outflow = B!Paise(Within(Debits(in), in, p))
        /\ r.byCategory = [c \in {t.category : t \in Within(Debits(in), in, p)} |->
                             B!Paise({t \in Within(Debits(in), in, p) : t.category = c})]
    BY <1>1, <1>3
  <1>9. /\ r.transactions = Cardinality(Within(in.txns, in, p))
        /\ r.matched = Cardinality({t.id : t \in Within(Settled(in), in, p)})
        /\ r.matchedAmount = B!Paise(Within(Settled(in), in, p))
        /\ r.unmatched = Cardinality(Within(in.txns, in, p) \ Settled(in))
    BY Zenon, <1>1, <1>2, <1>5, <1>6, <1>7, SameCardinality
  <1> QED BY <1>8, <1>9 DEF r

\* The ids of transactions are as many as the transactions.
LEMMA AsManyIds ==
  ASSUME NEW in, Months(in), NEW S \in SUBSET in.txns
  PROVE  Cardinality({t.id : t \in S}) = Cardinality(S)
  <1> DEFINE f == [t \in S |-> t.id]
  <1>1. IsFiniteSet(S) /\ \A x, y \in S : f[x] = f[y] => x = y
    <2>1. \A t, u \in in.txns : t.id = u.id => t = u
      BY DEF Months
    <2>2. IsFiniteSet(S)
      BY AmountsAre
    <2> QED BY <2>1, <2>2
  <1>2. DOMAIN f = S /\ f \in [S -> {f[x] : x \in S}] /\ {f[x] : x \in S} = {t.id : t \in S}
    OBVIOUS
  <1> HIDE DEF f
  <1>3. Cardinality({f[x] : x \in S}) = Cardinality(S)
    BY <1>1, <1>2, OneToOne
  <1> QED BY <1>2, <1>3

\* The categories of a month's debits add up to its outflow.
LEMMA CategoriesAddUp ==
  ASSUME NEW in, Months(in), NEW S \in SUBSET in.txns,
         NEW sums, sums = [c \in {t.category : t \in S} |-> B!Paise({t \in S : t.category = c})]
  PROVE  SumFunction(sums) = B!Paise(S)
  <1> DEFINE category == [t \in S |-> t.category]
             K == {t.category : t \in S}
             amount == Amounts(in.txns)
  <1>1. IsFiniteSet(S) /\ Whole(amount, S) /\ \A t \in S : category[t] \in K
    BY AmountsAre
  <1>2. IsFiniteSet(K)
    <2>1. category \in Surjection(S, K)
      BY DEF Surjection
    <2> HIDE DEF category, K
    <2> QED BY <1>1, <2>1, FS_Surjection
  <1>3. DOMAIN sums = K
    OBVIOUS
  <1>4. ASSUME NEW c \in K PROVE sums[c] = SumFunctionOnSet(amount, {t \in S : category[t] = c})
    <2>1. sums[c] = B!Paise({t \in S : t.category = c}) /\ {t \in S : t.category = c} = {t \in S : category[t] = c}
      OBVIOUS
    <2>2. {t \in S : category[t] = c} \in SUBSET in.txns
      OBVIOUS
    <2> HIDE DEF category, K
    <2>3. B!Paise({t \in S : category[t] = c}) = SumFunctionOnSet(amount, {t \in S : category[t] = c})
      BY <2>2, AmountsAre
    <2> QED BY <2>1, <2>3
  <1>5. B!Paise(S) = SumFunctionOnSet(amount, S)
    BY AmountsAre
  <1> HIDE DEF category, K, amount
  <1>6. Grouped(sums, K, amount, S, category)
    BY <1>1, <1>2, <1>4 DEF Grouped
  <1>7. SumFunctionOnSet(sums, K) = SumFunctionOnSet(amount, S)
    BY <1>6, SumOfGroups
  <1>8. SumFunction(sums) = SumFunctionOnSet(sums, K)
    BY <1>3 DEF SumFunction
  <1> QED BY <1>5, <1>7, <1>8

Reported(in, answer) == answer = [p \in in.periods |-> B!MonthEnd(in.txns, in.matches, p)]

\* The months' reports tell of every transaction once.
LEMMA MonthsTell ==
  ASSUME NEW in, Months(in), NEW answer, Reported(in, answer)
  PROVE  /\ SumFunction([p \in in.periods |-> answer[p].inflow]) = B!Paise({t \in in.txns : ~t.dr})
         /\ SumFunction([p \in in.periods |-> SumFunction(answer[p].byCategory)]) = B!Paise({t \in in.txns : t.dr})
         /\ \A p \in in.periods : SumFunction(answer[p].byCategory) = answer[p].outflow
         /\ \A p \in in.periods : answer[p].matched + answer[p].unmatched = answer[p].transactions
         /\ SumFunction([p \in in.periods |-> answer[p].matched]) = Cardinality(in.matches)
         /\ SumFunction([p \in in.periods |-> answer[p].matchedAmount]) = B!Paise({t \in in.txns : t.id \in in.matches})
  <1> DEFINE group == MonthOf(in.txns)
             credits == in.txns \ Debits(in)
  <1>1. ASSUME NEW p \in in.periods
        PROVE  /\ answer[p].inflow = B!Paise(Within(credits, in, p))
               /\ answer[p].outflow = B!Paise(Within(Debits(in), in, p))
               /\ answer[p].byCategory = [c \in {t.category : t \in Within(Debits(in), in, p)} |->
                                            B!Paise({t \in Within(Debits(in), in, p) : t.category = c})]
               /\ answer[p].transactions = Cardinality(Within(in.txns, in, p))
               /\ answer[p].matched = Cardinality({t.id : t \in Within(Settled(in), in, p)})
               /\ answer[p].matchedAmount = B!Paise(Within(Settled(in), in, p))
               /\ answer[p].unmatched = Cardinality(Within(in.txns, in, p) \ Settled(in))
    <2>1. answer[p] = B!MonthEnd(in.txns, in.matches, p)
      BY DEF Reported
    <2>2. LET r == B!MonthEnd(in.txns, in.matches, p)
              debits == Within(Debits(in), in, p)
          IN  /\ r.inflow = B!Paise(Within(in.txns \ Debits(in), in, p)) /\ r.outflow = B!Paise(debits)
              /\ r.byCategory = [c \in {t.category : t \in debits} |-> B!Paise({t \in debits : t.category = c})]
              /\ r.transactions = Cardinality(Within(in.txns, in, p))
              /\ r.matched = Cardinality({t.id : t \in Within(Settled(in), in, p)})
              /\ r.matchedAmount = B!Paise(Within(Settled(in), in, p))
              /\ r.unmatched = Cardinality(Within(in.txns, in, p) \ Settled(in))
      BY Zenon, MonthEndIs
    <2> QED BY <2>1, <2>2
  <1>2. Debits(in) \in SUBSET in.txns /\ Settled(in) \in SUBSET in.txns /\ credits \in SUBSET in.txns
    BY DEF Debits, Settled
  <1>3. credits = {t \in in.txns : ~t.dr} /\ Debits(in) = {t \in in.txns : t.dr}
        /\ Settled(in) = {t \in in.txns : t.id \in in.matches}
    BY DEF Debits, Settled
  <1>4. ASSUME NEW S \in SUBSET in.txns, NEW p PROVE Within(S, in, p) \in SUBSET in.txns
    BY DEF Within
  <1> HIDE DEF credits
  <1>5. SumFunction([p \in in.periods |-> answer[p].inflow]) = B!Paise(credits)
    <2> DEFINE sums == [p \in in.periods |-> answer[p].inflow]
    <2>1. \A p \in in.periods : sums[p] = B!Paise({t \in credits : MonthOf(in.txns)[t] = p})
      BY <1>1 DEF Within
    <2>2. DOMAIN sums = in.periods
      OBVIOUS
    <2> HIDE DEF sums
    <2>3. SumFunction(sums) = B!Paise(credits)
      BY <1>2, <2>1, <2>2, SumOfMonths
    <2> QED BY <2>3 DEF sums
  <1>6. ASSUME NEW p \in in.periods PROVE SumFunction(answer[p].byCategory) = answer[p].outflow
    <2>1. Within(Debits(in), in, p) \in SUBSET in.txns
      BY <1>2, <1>4
    <2>2. SumFunction(answer[p].byCategory) = B!Paise(Within(Debits(in), in, p))
      BY <1>1, <2>1, CategoriesAddUp
    <2> QED BY <1>1, <2>2
  <1>7. SumFunction([p \in in.periods |-> SumFunction(answer[p].byCategory)]) = B!Paise(Debits(in))
    <2> DEFINE sums == [p \in in.periods |-> SumFunction(answer[p].byCategory)]
    <2>1. \A p \in in.periods : sums[p] = B!Paise({t \in Debits(in) : MonthOf(in.txns)[t] = p})
      BY <1>1, <1>6 DEF Within
    <2>2. DOMAIN sums = in.periods
      OBVIOUS
    <2> HIDE DEF sums
    <2>3. SumFunction(sums) = B!Paise(Debits(in))
      BY <1>2, <2>1, <2>2, SumOfMonths
    <2> QED BY <2>3 DEF sums
  <1>8. SumFunction([p \in in.periods |-> answer[p].matchedAmount]) = B!Paise(Settled(in))
    <2> DEFINE sums == [p \in in.periods |-> answer[p].matchedAmount]
    <2>1. \A p \in in.periods : sums[p] = B!Paise({t \in Settled(in) : MonthOf(in.txns)[t] = p})
      BY <1>1 DEF Within
    <2>2. DOMAIN sums = in.periods
      OBVIOUS
    <2> HIDE DEF sums
    <2>3. SumFunction(sums) = B!Paise(Settled(in))
      BY <1>2, <2>1, <2>2, SumOfMonths
    <2> QED BY <2>3 DEF sums
  <1>9. ASSUME NEW p \in in.periods
        PROVE  /\ answer[p].matched = Cardinality(Within(Settled(in), in, p))
               /\ answer[p].matched + answer[p].unmatched = answer[p].transactions
    <2> DEFINE W == Within(in.txns, in, p)
               V == Within(Settled(in), in, p)
    <2>1. V \in SUBSET in.txns /\ W \in SUBSET in.txns /\ W \cap Settled(in) = V
      BY <1>2, <1>4 DEF Within
    <2>2. Cardinality({t.id : t \in V}) = Cardinality(V)
      BY <2>1, AsManyIds
    <2>3. IsFiniteSet(W) /\ IsFiniteSet(V)
      BY <2>1, AmountsAre
    <2>4. Cardinality(W \ Settled(in)) = Cardinality(W) - Cardinality(V)
      <3> HIDE DEF W, V
      <3>1. IsFiniteSet(W)
        BY <2>3
      <3>2. Cardinality(W \ Settled(in)) = Cardinality(W) - Cardinality(W \cap Settled(in))
        BY <3>1, FS_Difference
      <3> QED BY <2>1, <3>2
    <2>5. Cardinality(W) \in Nat /\ Cardinality(V) \in Nat
      <3> HIDE DEF W, V
      <3> QED BY <2>3, FS_CardinalityType
    <2>6. answer[p].transactions = Cardinality(W) /\ answer[p].matched = Cardinality({t.id : t \in V})
          /\ answer[p].unmatched = Cardinality(W \ Settled(in))
      BY <1>1
    <2> HIDE DEF W, V
    <2>7. answer[p].matched = Cardinality(V) /\ answer[p].matched + answer[p].unmatched = answer[p].transactions
      BY <2>2, <2>4, <2>5, <2>6
    <2> QED BY <2>7 DEF V
  <1>10. SumFunction([p \in in.periods |-> answer[p].matched]) = Cardinality(in.matches)
    <2> DEFINE ones == [t \in in.txns |-> 1]
               sums == [p \in in.periods |-> answer[p].matched]
    <2>1. in.matches = {t.id : t \in Settled(in)}
      <3>1. \A m \in in.matches : \E t \in in.txns : t.id = m
        BY DEF Months
      <3> QED BY <3>1 DEF Settled
    <2>2. Cardinality(in.matches) = Cardinality(Settled(in))
      BY <1>2, <2>1, AsManyIds
    <2>3. IsFiniteSet(in.txns) /\ IsFiniteSet(Settled(in)) /\ IsFiniteSet(in.periods)
      BY <1>2, AmountsAre DEF Months
    <2>4. \A t \in in.txns : ones[t] = 1
      OBVIOUS
    <2>5. Whole(ones, Settled(in))
      BY <1>2 DEF Whole
    <2>6. DOMAIN sums = in.periods /\ \A p \in in.periods : sums[p] = answer[p].matched
      OBVIOUS
    <2>7. \A t \in Settled(in) : group[t] \in in.periods
      BY <1>2, AmountsAre
    <2> HIDE DEF ones, sums
    <2>8. ASSUME NEW p \in in.periods
          PROVE  sums[p] = SumFunctionOnSet(ones, {t \in Settled(in) : group[t] = p})
      <3>1. Within(Settled(in), in, p) \in SUBSET in.txns
        BY <1>2, <1>4
      <3>2. SumFunctionOnSet(ones, Within(Settled(in), in, p)) = Cardinality(Within(Settled(in), in, p))
        BY <2>3, <2>4, <3>1, CardinalityIsSum
      <3>3. sums[p] = SumFunctionOnSet(ones, Within(Settled(in), in, p))
        BY <1>9, <2>6, <3>2
      <3> QED BY <3>3 DEF Within
    <2> HIDE DEF group
    <2>9. Grouped(sums, in.periods, ones, Settled(in), group)
      BY <2>3, <2>5, <2>7, <2>8 DEF Grouped
    <2>10. SumFunctionOnSet(sums, in.periods) = SumFunctionOnSet(ones, Settled(in))
      BY <2>9, SumOfGroups
    <2>11. SumFunctionOnSet(ones, Settled(in)) = Cardinality(Settled(in))
      BY <1>2, <2>3, <2>4, CardinalityIsSum
    <2>12. SumFunction(sums) = Cardinality(in.matches)
      BY <2>2, <2>6, <2>10, <2>11 DEF SumFunction
    <2> QED BY <2>12 DEF sums
  <1>11. \A p \in in.periods : SumFunction(answer[p].byCategory) = answer[p].outflow
    BY <1>6
  <1>12. \A p \in in.periods : answer[p].matched + answer[p].unmatched = answer[p].transactions
    BY <1>9
  <1> HIDE DEF Reported
  <1> QED BY <1>3, <1>5, <1>7, <1>8, <1>10, <1>11, <1>12

-----------------------------------------------------------------------------
ScoreAnswered == call = "score" => input \in ScoreInputs /\ result = B!Score(input)
MonthAnswered ==
  call = "month" => input \in MonthInputs /\ Reported(input, result)

LEMMA ScoresAnswer == CallSpec => []ScoreAnswered
  <1>1. Uncalled => ScoreAnswered
    BY DEF Uncalled, ScoreAnswered
  <1>2. ScoreAnswered /\ [OneCall]_callVars => ScoreAnswered'
    BY Zenon DEF ScoreAnswered, OneCall, callVars, Match, Accrue, Forecast, Rank, Scan, Pack, Mine, Grade, Report,
              ReadStatement, ReadExport, Chase, AfterCall, Return
  <1> QED BY <1>1, <1>2, PTL DEF CallSpec

LEMMA MonthsAnswer == CallSpec => []MonthAnswered
  <1>1. Uncalled => MonthAnswered
    BY DEF Uncalled, MonthAnswered
  <1>2. MonthAnswered /\ [OneCall]_callVars => MonthAnswered'
    BY Zenon DEF MonthAnswered, Reported, OneCall, callVars, Match, Accrue, Forecast, Rank, Scan, Pack, Mine, Grade, Report,
              ReadStatement, ReadExport, Chase, AfterCall, Return
  <1> QED BY <1>1, <1>2, PTL DEF CallSpec

LEMMA ScoresAreSound ==
  ASSUME ScoresAreGiven, ScoreAnswered
  PROVE  ScoreIsFair /\ GoodDeedsCount /\ ReportsAgree
  <1> SUFFICES ASSUME call = "score" PROVE ScoreIsFair /\ GoodDeedsCount /\ ReportsAgree
    BY DEF ScoreIsFair, GoodDeedsCount, ReportsAgree, Called
  <1>1. input \in ScoreInputs /\ result = B!Score(input)
    BY DEF ScoreAnswered
  <1>2. ScoreRows(input)
    BY <1>1 DEF ScoresAreGiven, ScoreRows
  <1>3. Counts(input)
    <2>1. Receivables(input.invoices)
      BY <1>1 DEF ScoresAreGiven, Receivables
    <2>2. \A a, b \in input.forecastAge : a = b
      BY <1>1 DEF ScoresAreGiven
    <2> QED BY <1>2, <2>1, <2>2 DEF ScoreRows, Counts
  <1>4. ScoreIsFair
    <2>1. \A k \in Parts : B!Components(input)[k] \in Int
      BY <1>3, ComponentsAre
    <2>2. ~input.chainOk => B!Components(input)["audit_integrity"] = 0
      BY <1>3, ComponentsAre
    <2>3. B!ComputeScore(B!Components(input)) \in 0..100
          /\ (B!Components(input)["audit_integrity"] = 0 => B!ComputeScore(B!Components(input)) <= 80)
      BY <2>1, ScoreRange
    <2>4. result = B!ComputeScore(B!Components(input))
      BY <1>1 DEF B!Score
    <2> QED BY <2>2, <2>3, <2>4 DEF ScoreIsFair
  <1>5. GoodDeedsCount
    BY <1>1, <1>2, <1>3, DeedsCount DEF GoodDeedsCount
  <1>6. ReportsAgree
    <2>1. Receivables(input.invoices) /\ input.now \in Int
      BY <1>3 DEF Counts
    <2> QED BY <2>1, BucketsAgree DEF ReportsAgree
  <1> QED BY <1>4, <1>5, <1>6

LEMMA MonthsAreSound ==
  ASSUME MonthsAreGiven, MonthAnswered
  PROVE  MonthsAddUp /\ ReportsTally
  <1> SUFFICES ASSUME call = "month" PROVE MonthsAddUp /\ ReportsTally
    BY DEF MonthsAddUp, ReportsTally, Called
  <1>1. input \in MonthInputs /\ Reported(input, result)
    BY DEF MonthAnswered
  <1>2. Months(input)
    BY <1>1 DEF MonthsAreGiven, Months
  <1>3. /\ SumFunction([p \in input.periods |-> result[p].inflow]) = B!Paise({t \in input.txns : ~t.dr})
        /\ SumFunction([p \in input.periods |-> SumFunction(result[p].byCategory)]) = B!Paise({t \in input.txns : t.dr})
        /\ \A p \in input.periods : SumFunction(result[p].byCategory) = result[p].outflow
        /\ \A p \in input.periods : result[p].matched + result[p].unmatched = result[p].transactions
        /\ SumFunction([p \in input.periods |-> result[p].matched]) = Cardinality(input.matches)
        /\ SumFunction([p \in input.periods |-> result[p].matchedAmount])
             = B!Paise({t \in input.txns : t.id \in input.matches})
    BY <1>1, <1>2, MonthsTell
  <1> QED BY <1>3 DEF MonthsAddUp, ReportsTally

\* Whatever the books hold: the score stays within its scale, is capped by a
\* broken chain and never falls for a good deed, aging agrees with the data
\* room, and the months' reports count every transaction and match once.
THEOREM ReportsStaySound ==
  ASSUME ScoresAreGiven, MonthsAreGiven
  PROVE  CallSpec => []ReportsSound
  <1>1. ScoreAnswered /\ MonthAnswered => ReportsSound
    BY ScoresAreSound, MonthsAreSound DEF ReportsSound
  <1> QED BY <1>1, ScoresAnswer, MonthsAnswer, PTL

LEMMA QuotientIs ==
  ASSUME NEW a \in Nat, NEW d \in Nat \ {0}
  PROVE  a \div d \in Nat /\ d * (a \div d) <= a /\ a < d * (a \div d) + d
  OBVIOUS

\* The quotient is the largest number that fits.
LEMMA QuotientAtLeast ==
  ASSUME NEW a \in Nat, NEW d \in Nat \ {0}, NEW q \in Int, d * q <= a
  PROVE  q <= a \div d
  <1> DEFINE r == a \div d
  <1>1. r \in Nat /\ a < d * r + d
    BY QuotientIs
  <1> HIDE DEF r
  <1>2. d * q < d * r + d
    BY <1>1
  <1>3. ASSUME q >= r + 1 PROVE FALSE
    <2>1. d * q >= d * (r + 1)
      BY <1>1, <1>3
    <2> QED BY <1>1, <1>2, <2>1
  <1>4. q <= r
    BY <1>1, <1>3
  <1> QED BY <1>4 DEF r

\* Half up: rounds what is multiplied by at least one to no less, and does
\* not bring two amounts closer.
LEMMA HalfUpIs ==
  ASSUME NEW n \in Nat, NEW d \in Nat \ {0}
  PROVE  /\ P!RoundHalfUp(n, d) \in Nat
         /\ 2 * d * P!RoundHalfUp(n, d) <= 2 * n + d
         /\ 2 * n + d < 2 * d * P!RoundHalfUp(n, d) + 2 * d
         /\ \A q \in Int : 2 * d * q <= 2 * n + d => q <= P!RoundHalfUp(n, d)
  <1> DEFINE a == 2 * n + d
             e == 2 * d
  <1>1. a \in Nat /\ e \in Nat \ {0}
    OBVIOUS
  <1>2. P!RoundHalfUp(n, d) = a \div e
    BY DEF P!RoundHalfUp
  <1>3. a \div e \in Nat /\ e * (a \div e) <= a /\ a < e * (a \div e) + e
    <2> HIDE DEF a, e
    <2> QED BY <1>1, QuotientIs
  <1>4. ASSUME NEW q \in Int, e * q <= a PROVE q <= a \div e
    <2> HIDE DEF a, e
    <2> QED BY <1>1, <1>4, QuotientAtLeast
  <1> QED BY <1>2, <1>3, <1>4

LEMMA HalfUpGrows ==
  ASSUME NEW n \in Nat, NEW m \in Nat, n <= m, NEW d \in Nat \ {0}
  PROVE  P!RoundHalfUp(n, d) <= P!RoundHalfUp(m, d)
  <1> DEFINE p == P!RoundHalfUp(n, d)
             q == P!RoundHalfUp(m, d)
  <1>1. p \in Nat /\ 2 * d * p <= 2 * n + d
    BY HalfUpIs
  <1>2. \A r \in Int : 2 * d * r <= 2 * m + d => r <= q
    BY HalfUpIs
  <1> HIDE DEF p, q
  <1>3. 2 * d * p <= 2 * m + d
    BY <1>1
  <1>4. p <= q
    BY <1>1, <1>2, <1>3
  <1> QED BY <1>4 DEF p, q

LEMMA HalfUpKeeps ==
  ASSUME NEW b \in Nat, NEW d \in Nat \ {0}
  PROVE  P!RoundHalfUp(b * d, d) = b
  <1> DEFINE n == b * d
             q == P!RoundHalfUp(n, d)
  <1>1. n \in Nat
    OBVIOUS
  <1>2. q \in Nat /\ 2 * d * q <= 2 * n + d /\ (\A r \in Int : 2 * d * r <= 2 * n + d => r <= q)
    <2> HIDE DEF n
    <2> QED BY <1>1, HalfUpIs
  <1> HIDE DEF q
  <1>3. b <= q
    BY <1>2
  <1>4. ASSUME q >= b + 1 PROVE FALSE
    <2>1. 2 * d * q >= 2 * d * (b + 1)
      BY <1>2, <1>4
    <2>2. 2 * d * (b + 1) = 2 * n + 2 * d
      OBVIOUS
    <2> HIDE DEF n
    <2> QED BY <1>1, <1>2, <2>1, <2>2
  <1>5. q = b
    BY <1>2, <1>3, <1>4
  <1> QED BY <1>5 DEF q, n

LEMMA HalfUpSpreads ==
  ASSUME NEW x \in Nat, NEW y \in Nat, x <= y, NEW k \in Nat, NEW d \in Nat \ {0}, d <= k
  PROVE  P!RoundHalfUp(y * k, d) >= P!RoundHalfUp(x * k, d) + (y - x)
  <1> DEFINE n == x * k
             m == y * k
             p == P!RoundHalfUp(n, d)
             q == P!RoundHalfUp(m, d)
             s == y - x
  <1>1. n \in Nat /\ m \in Nat /\ s \in Nat /\ m = n + s * k
    OBVIOUS
  <1>2. p \in Nat /\ 2 * d * p <= 2 * n + d
    <2> HIDE DEF n
    <2> QED BY <1>1, HalfUpIs
  <1>3. q \in Nat /\ \A r \in Int : 2 * d * r <= 2 * m + d => r <= q
    <2> HIDE DEF m
    <2> QED BY <1>1, HalfUpIs
  <1>4. s * d <= s * k
    <2> HIDE DEF s
    <2> QED BY <1>1
  <1> HIDE DEF n, m, p, q, s
  <1>5. 2 * d * (p + s) = 2 * d * p + 2 * (s * d)
    BY <1>1, <1>2
  <1>6. s * d \in Nat /\ s * k \in Nat
    BY <1>1
  <1>7. 2 * d * (p + s) <= 2 * m + d
    BY <1>1, <1>2, <1>4, <1>5, <1>6
  <1>8. p + s <= q
    BY <1>1, <1>2, <1>3, <1>7
  <1> QED BY <1>1, <1>2, <1>3, <1>8 DEF n, m, p, q, s

-----------------------------------------------------------------------------
\* b times k over d, rounded half up.
Times(b, k, d) == P!RoundHalfUp(b * k, d)

LEMMA TimesIs ==
  ASSUME NEW k \in Nat, NEW d \in Nat \ {0}, d <= k, NEW x \in Nat, NEW y \in Nat, x <= y
  PROVE  Times(x, k, d) \in Nat /\ Times(y, k, d) \in Nat /\ Times(y, k, d) - Times(x, k, d) >= y - x
         /\ Times(x, k, d) >= x
  <1>1. x * k \in Nat /\ y * k \in Nat /\ 0 * k \in Nat /\ 0 \in Nat /\ 0 <= x
    OBVIOUS
  <1>2. Times(x, k, d) \in Nat /\ Times(y, k, d) \in Nat /\ Times(0, k, d) \in Nat
    BY <1>1, HalfUpIs DEF Times
  <1>3. Times(y, k, d) >= Times(x, k, d) + (y - x)
    BY HalfUpSpreads DEF Times
  <1>4. Times(x, k, d) >= Times(0, k, d) + (x - 0)
    BY <1>1, HalfUpSpreads DEF Times
  <1> QED BY <1>2, <1>3, <1>4

Rest(b) == Times(b, 1627, 1600)

LEMMA RestIs ==
  ASSUME NEW x \in Nat, NEW y \in Nat, x <= y
  PROVE  Rest(x) \in Nat /\ Rest(y) - Rest(x) >= y - x /\ Rest(y) \in Nat /\ Rest(x) >= x
  <1> DEFINE k == 1627
             d == 1600
  <1>1. k \in Nat /\ d \in Nat \ {0} /\ d <= k
    BY SMT
  <1>2. \A b : Rest(b) = Times(b, k, d)
    BY DEF Rest
  <1> HIDE DEF k, d
  <1>3. Times(x, k, d) \in Nat /\ Times(y, k, d) \in Nat /\ Times(y, k, d) - Times(x, k, d) >= y - x
        /\ Times(x, k, d) >= x
    BY <1>1, TimesIs
  <1> QED BY <1>2, <1>3

LEMMA RestType == \A b \in Nat : Rest(b) \in Nat
  <1> SUFFICES ASSUME NEW b \in Nat PROVE Rest(b) \in Nat
    OBVIOUS
  <1>1. b <= b
    OBVIOUS
  <1> QED BY <1>1, RestIs

\* The balance of a month is that of the month before with its interest.
LEMMA CompoundedIs ==
  ASSUME NEW p \in Nat, NEW N \in Nat
  PROVE  /\ \A n \in 0..N : P!Compounded(p, n) \in Nat
         /\ P!Compounded(p, 0) = p
         /\ \A n \in 1..N : P!Compounded(p, n) = Rest(P!Compounded(p, n - 1))
  <1> DEFINE Is(f, n) == f = [m \in 0..n |-> IF m = 0 THEN p ELSE Rest(f[m - 1])]
  <1>1. ASSUME NEW n \in Nat PROVE \E f \in [0..n -> Nat] : Is(f, n)
    <2> DEFINE F == [w \in (1..n) \X Nat |-> Rest(w[2])]
    <2>1. F \in [(1..n) \X Nat -> Nat]
      BY RestType
    <2>2. PICK f \in [0..n -> Nat] : Goes(f, n, p, F)
      <3> HIDE DEF F
      <3> QED BY <2>1, StepsLead
    <2>3. \A m \in 0..n : f[m] = IF m = 0 THEN p ELSE Rest(f[m - 1])
      <3>1. \A m \in 0..n : f[m] = IF m = 0 THEN p ELSE F[<<m, f[m - 1]>>]
        BY <2>2 DEF Goes
      <3>2. \A m \in 1..n : <<m, f[m - 1]>> \in (1..n) \X Nat
        OBVIOUS
      <3>3. \A m \in 1..n : F[<<m, f[m - 1]>>] = Rest(f[m - 1])
        BY <3>2
      <3>4. \A m \in 0..n : m # 0 => m \in 1..n
        OBVIOUS
      <3> HIDE DEF F
      <3> QED BY <3>1, <3>3, <3>4
    <2>4. f = [m \in 0..n |-> f[m]]
      OBVIOUS
    <2> QED BY <2>3, <2>4
  <1>2. ASSUME NEW n \in Nat
        PROVE  \E f \in [0..n -> Nat] : Is(f, n) /\ P!Compounded(p, n) = f[n]
    <2> DEFINE g == CHOOSE f : Is(f, n)
    <2>1. P!Compounded(p, n) = g[n]
      BY DEF P!Compounded, Rest, Times
    <2>2. Is(g, n)
      BY <1>1
    <2>3. PICK h \in [0..n -> Nat] : Is(h, n)
      BY <1>1
    <2> HIDE DEF g
    <2>4. \A m \in 0..n : g[m] = h[m]
      <3> DEFINE Good == {m \in 0..n : g[m] = h[m]}
      <3>1. 0 \in Good
        BY <2>2, <2>3
      <3>2. ASSUME NEW m \in 1..n, m - 1 \in Good PROVE m \in Good
        <4>1. g[m] = Rest(g[m - 1]) /\ h[m] = Rest(h[m - 1])
          BY <2>2, <2>3
        <4> QED BY <3>2, <4>1
      <3> HIDE DEF Good
      <3>3. \A m \in 0..n : m \in Good
        BY <3>1, <3>2, UpTo
      <3> QED BY <3>3 DEF Good
    <2>5. g[n] = h[n]
      BY <2>4
    <2> QED BY <2>1, <2>3, <2>5
  <1>3. ASSUME NEW n \in Nat, NEW f, Is(f, n), NEW g, Is(g, n + 1)
        PROVE  \A m \in 0..n : g[m] = f[m]
    <2> DEFINE Good == {m \in 0..n : g[m] = f[m]}
    <2>1. 0 \in Good
      BY <1>3
    <2>2. ASSUME NEW m \in 1..n, m - 1 \in Good PROVE m \in Good
      <3>1. g[m] = Rest(g[m - 1]) /\ f[m] = Rest(f[m - 1])
        BY <1>3
      <3> QED BY <2>2, <3>1
    <2> HIDE DEF Good
    <2>3. \A m \in 0..n : m \in Good
      BY <2>1, <2>2, UpTo
    <2> QED BY <2>3 DEF Good
  <1> HIDE DEF Is
  <1>4. \A n \in 0..N : P!Compounded(p, n) \in Nat
    <2> TAKE n \in 0..N
    <2>1. n \in Nat /\ n \in 0..n
      OBVIOUS
    <2>2. PICK f \in [0..n -> Nat] : P!Compounded(p, n) = f[n]
      BY <1>2, <2>1
    <2> QED BY <2>1, <2>2
  <1>5. P!Compounded(p, 0) = p
    BY <1>2 DEF Is
  <1>6. ASSUME NEW n \in 1..N PROVE P!Compounded(p, n) = Rest(P!Compounded(p, n - 1))
    <2>1. n \in Nat /\ n - 1 \in Nat /\ n = (n - 1) + 1 /\ n - 1 \in 0..(n - 1)
      OBVIOUS
    <2>2. PICK f : Is(f, n) /\ P!Compounded(p, n) = f[n]
      BY <1>2, <2>1
    <2>3. PICK g : Is(g, n - 1) /\ P!Compounded(p, n - 1) = g[n - 1]
      BY <1>2, <2>1
    <2>4. f[n - 1] = g[n - 1]
      BY <1>3, <2>1, <2>2, <2>3
    <2>5. f[n] = Rest(f[n - 1])
      BY <2>2 DEF Is
    <2> QED BY <2>2, <2>3, <2>4, <2>5
  <1> QED BY <1>4, <1>5, <1>6

\* A month earlier or later, and a paisa more.
LEMMA BalancesAre ==
  ASSUME NEW p \in Nat, NEW n \in Nat
  PROVE  /\ P!Compounded(p, n) \in Nat /\ P!Compounded(p, 0) = p
         /\ P!Compounded(p, n + 1) = Rest(P!Compounded(p, n))
         /\ P!Compounded(p, n) >= p
         /\ P!Compounded(p, n + 1) = P!Compounded(Rest(p), n)
         /\ P!Compounded(p + 1, n) >= P!Compounded(p, n) + 1
  <1> DEFINE N == n + 1
  <1>1. N \in Nat /\ p + 1 \in Nat /\ Rest(p) \in Nat
    BY RestType
  <1>2. ASSUME NEW q \in Nat
        PROVE  /\ \A m \in 0..N : P!Compounded(q, m) \in Nat
               /\ P!Compounded(q, 0) = q
               /\ \A m \in 1..N : P!Compounded(q, m) = Rest(P!Compounded(q, m - 1))
    <2> HIDE DEF N
    <2> QED BY <1>1, <1>2, CompoundedIs
  <1>3. \A m \in 0..N : P!Compounded(p, m) >= p
    <2> DEFINE Good == {m \in 0..N : P!Compounded(p, m) >= p}
    <2>1. 0 \in Good
      BY <1>2
    <2>2. ASSUME NEW m \in 1..N, m - 1 \in Good PROVE m \in Good
      <3>1. m - 1 \in 0..N /\ m \in 0..N
        OBVIOUS
      <3> DEFINE a == P!Compounded(p, m - 1)
                 b == P!Compounded(p, m)
      <3>2. a \in Nat /\ a >= p /\ b = Rest(a)
        BY <1>2, <2>2, <3>1
      <3> HIDE DEF a, b
      <3>3. b >= a /\ b \in Nat
        BY <3>2, RestIs
      <3>4. b >= p
        BY <3>2, <3>3
      <3> QED BY <3>1, <3>4 DEF b
    <2> HIDE DEF Good
    <2>3. \A m \in 0..N : m \in Good
      BY <1>1, <2>1, <2>2, UpTo
    <2> QED BY <2>3 DEF Good
  <1>4. \A m \in 0..n : P!Compounded(p, m + 1) = P!Compounded(Rest(p), m)
    <2> DEFINE Good == {m \in 0..n : P!Compounded(p, m + 1) = P!Compounded(Rest(p), m)}
    <2>1. 0 \in Good
      <3>1. 1 \in 1..N /\ 1 - 1 = 0 /\ 0 + 1 = 1 /\ 0 \in 0..n
        OBVIOUS
      <3>2. P!Compounded(p, 1) = Rest(P!Compounded(p, 0))
        BY <1>2, <3>1
      <3>3. P!Compounded(p, 0) = p /\ P!Compounded(Rest(p), 0) = Rest(p)
        BY <1>1, <1>2
      <3> QED BY <3>1, <3>2, <3>3
    <2>2. ASSUME NEW m \in 1..n, m - 1 \in Good PROVE m \in Good
      <3>1. m \in 1..N /\ m + 1 \in 1..N /\ (m + 1) - 1 = m /\ (m - 1) + 1 = m /\ m \in 0..n
        OBVIOUS
      <3>2. P!Compounded(p, m + 1) = Rest(P!Compounded(p, m))
        BY <1>2, <3>1
      <3>3. P!Compounded(Rest(p), m) = Rest(P!Compounded(Rest(p), m - 1))
        BY <1>1, <1>2, <3>1
      <3>4. P!Compounded(p, m) = P!Compounded(Rest(p), m - 1)
        BY <2>2, <3>1
      <3> QED BY <3>1, <3>2, <3>3, <3>4
    <2> HIDE DEF Good
    <2>3. \A m \in 0..n : m \in Good
      BY <2>1, <2>2, UpTo
    <2> QED BY <2>3 DEF Good
  <1>5. \A m \in 0..n : P!Compounded(p + 1, m) >= P!Compounded(p, m) + 1
    <2> DEFINE Good == {m \in 0..n : P!Compounded(p + 1, m) >= P!Compounded(p, m) + 1}
    <2>1. 0 \in Good
      <3>1. P!Compounded(p, 0) = p /\ P!Compounded(p + 1, 0) = p + 1
        BY <1>1, <1>2
      <3> QED BY <3>1
    <2>2. ASSUME NEW m \in 1..n, m - 1 \in Good PROVE m \in Good
      <3>1. m \in 1..N /\ m - 1 \in 0..N /\ m \in 0..n
        OBVIOUS
      <3> DEFINE a == P!Compounded(p, m - 1)
                 b == P!Compounded(p + 1, m - 1)
      <3>2. a \in Nat /\ b \in Nat /\ b >= a + 1
        BY <1>1, <1>2, <2>2, <3>1
      <3>3. P!Compounded(p, m) = Rest(a) /\ P!Compounded(p + 1, m) = Rest(b)
        BY <1>1, <1>2, <3>1
      <3> HIDE DEF a, b
      <3>4. Rest(a) \in Nat /\ Rest(b) \in Nat /\ Rest(b) - Rest(a) >= b - a
        BY <3>2, RestIs
      <3>5. Rest(b) >= Rest(a) + 1
        BY <3>2, <3>4
      <3> QED BY <3>1, <3>3, <3>5
    <2> HIDE DEF Good
    <2>3. \A m \in 0..n : m \in Good
      BY <2>1, <2>2, UpTo
    <2> QED BY <2>3 DEF Good
  <1>6. n \in 0..n /\ n \in 0..N /\ n + 1 \in 1..N /\ (n + 1) - 1 = n
    OBVIOUS
  <1>7. P!Compounded(p, n) \in Nat /\ P!Compounded(p, 0) = p /\ P!Compounded(p, n + 1) = Rest(P!Compounded(p, n))
    BY <1>2, <1>6
  <1> HIDE DEF N
  <1> QED BY <1>3, <1>4, <1>5, <1>6, <1>7

\* The balance after t days more.
After(b, t) == P!RoundHalfUp(b * (48000 + 27 * t), 48000)

LEMMA AfterIs ==
  ASSUME NEW a \in Nat, NEW b \in Nat, a <= b, NEW t \in Nat
  PROVE  /\ After(a, t) \in Nat /\ After(a, t) >= a /\ After(b, t) - After(a, t) >= b - a /\ After(b, t) \in Nat
         /\ After(a, t + 1) >= After(a, t) /\ After(a, 0) = a
  <1> DEFINE d == 48000
             k == 48000 + 27 * t
             m == 48000 + 27 * (t + 1)
  <1>1. k \in Nat /\ d \in Nat \ {0} /\ d <= k /\ m \in Nat /\ k <= m
    BY SMT
  <1>2. /\ \A c : After(c, t) = Times(c, k, d) /\ After(c, t + 1) = Times(c, m, d)
        /\ \A c \in Nat : After(c, 0) = P!RoundHalfUp(c * d, d)
    <2>1. 48000 + 27 * 0 = 48000
      BY SMT
    <2> QED BY <2>1 DEF After, Times
  <1> HIDE DEF d, k, m
  <1>3. Times(a, k, d) \in Nat /\ Times(b, k, d) \in Nat /\ Times(b, k, d) - Times(a, k, d) >= b - a /\ Times(a, k, d) >= a
    BY <1>1, TimesIs
  <1>4. Times(a, m, d) >= Times(a, k, d)
    <2>1. a * k \in Nat /\ a * m \in Nat /\ a * k <= a * m
      BY <1>1
    <2>2. P!RoundHalfUp(a * k, d) <= P!RoundHalfUp(a * m, d) /\ P!RoundHalfUp(a * k, d) \in Nat /\ P!RoundHalfUp(a * m, d) \in Nat
      BY <1>1, <2>1, HalfUpGrows, HalfUpIs
    <2> QED BY <2>2 DEF Times
  <1>5. P!RoundHalfUp(a * d, d) = a
    BY <1>1, HalfUpKeeps
  <1> QED BY <1>2, <1>3, <1>4, <1>5

\* A month's rest is no less than its twenty-ninth day.
LEMMA RestLast ==
  ASSUME NEW b \in Nat
  PROVE  After(b, 29) <= Rest(b)
  <1> DEFINE n == b * 48783
             m == b * 1627
             q == After(b, 29)
  <1>1. n \in Nat /\ m \in Nat /\ 48000 \in Nat \ {0} /\ 1600 \in Nat \ {0}
    BY SMT
  <1>2. q = P!RoundHalfUp(n, 48000) /\ Rest(b) = P!RoundHalfUp(m, 1600)
    <2>1. 48000 + 27 * 29 = 48783
      BY SMT
    <2> QED BY <2>1 DEF After, Rest, Times
  <1>3. q \in Nat /\ 2 * 48000 * q <= 2 * n + 48000
    <2> DEFINE d == 48000
    <2>1. d \in Nat \ {0} /\ q = P!RoundHalfUp(n, d)
      BY <1>1, <1>2
    <2> HIDE DEF d, n, q
    <2>2. q \in Nat /\ 2 * d * q <= 2 * n + d
      BY <1>1, <2>1, HalfUpIs
    <2> QED BY SMT, <2>2 DEF d
  <1>4. 2 * 1600 * q <= 2 * m + 1600
    BY SMT, <1>3
  <1>5. \A r \in Int : 2 * 1600 * r <= 2 * m + 1600 => r <= Rest(b)
    <2> DEFINE d == 1600
    <2>1. d \in Nat \ {0} /\ Rest(b) = P!RoundHalfUp(m, d)
      BY <1>1, <1>2
    <2> HIDE DEF d, m
    <2>2. \A r \in Int : 2 * d * r <= 2 * m + d => r <= Rest(b)
      BY <1>1, <2>1, HalfUpIs
    <2> QED BY SMT, <2>2 DEF d
  <1> HIDE DEF n, m, q
  <1>6. q <= Rest(b)
    BY SMT, <1>3, <1>4, <1>5
  <1> QED BY <1>6 DEF q

\* Interest is what the balance has grown by after the full months and the
\* days left of one.
LEMMA AccruedIs ==
  ASSUME NEW p \in Int, NEW m \in Nat, NEW t \in 0..29
  PROVE  /\ p <= 0 => P!AccruedInterest(p, 30 * m + t) = 0
         /\ p > 0 => P!AccruedInterest(p, 30 * m + t) = After(P!Compounded(p, m), t) - p
  <1> DEFINE d == 30 * m + t
  <1>1. d \in Nat /\ d \div 30 = m /\ d - 30 * (d \div 30) = t
    BY SMT
  <1>2. CASE p <= 0
    BY SMT, <1>2 DEF P!AccruedInterest
  <1>3. CASE p > 0 /\ d > 0
    <2>1. P!TrailingDays(d) = t
      BY <1>1 DEF P!TrailingDays
    <2> HIDE DEF d
    <2>2. P!AccruedInterest(p, d) = After(P!Compounded(p, d \div 30), P!TrailingDays(d)) - p
      <3>1. d \in Nat /\ ~(d <= 0 \/ p <= 0)
        BY <1>1, <1>3
      <3>2. P!AccruedInterest(p, d) =
              P!RoundHalfUp(P!Compounded(p, d \div 30) * (48000 + 27 * P!TrailingDays(d)), 48000) - p
        BY SMT, <3>1 DEF P!AccruedInterest
      <3> QED BY SMT, <3>2 DEF After
    <2>3. P!AccruedInterest(p, d) = After(P!Compounded(p, m), t) - p
      BY <1>1, <2>1, <2>2
    <2>4. ~(p <= 0)
      BY <1>3
    <2> QED BY <2>3, <2>4 DEF d
  <1>4. CASE p > 0 /\ d = 0
    <2>1. m = 0 /\ t = 0 /\ ~(p <= 0) /\ p \in Nat
      BY <1>4
    <2>2. P!Compounded(p, 0) = p
      BY <2>1, BalancesAre
    <2>3. After(p, 0) = p
      <3>1. p <= p /\ 0 \in Nat
        BY <2>1
      <3> QED BY <2>1, <3>1, AfterIs
    <2>4. P!AccruedInterest(p, d) = 0
      <3> HIDE DEF d
      <3> QED BY <1>4 DEF P!AccruedInterest
    <2> QED BY <2>1, <2>2, <2>3, <2>4
  <1> QED BY <1>1, <1>2, <1>3, <1>4

\* No days, no interest.
LEMMA NoInterest ==
  ASSUME NEW p \in Int, NEW d \in Int, d <= 0
  PROVE  P!AccruedInterest(p, d) = 0
  BY DEF P!AccruedInterest

LEMMA DaysAre ==
  ASSUME NEW d \in Nat
  PROVE  \E m \in Nat, t \in 0..29 : d = 30 * m + t
  <1>1. d \div 30 \in Nat /\ d - 30 * (d \div 30) \in 0..29 /\ d = 30 * (d \div 30) + (d - 30 * (d \div 30))
    BY SMT
  <1> QED BY <1>1

LEMMA InterestIsSound ==
  ASSUME NEW p \in Int, NEW d \in Int
  PROVE  LET month == P!AccruedInterest(p, 30) IN
         /\ d >= 0 => P!AccruedInterest(p, d + 30) = month + P!AccruedInterest(p + month, d)
         /\ P!AccruedInterest(p, d) >= 0
         /\ P!AccruedInterest(p, d + 1) >= P!AccruedInterest(p, d)
         /\ P!AccruedInterest(p + 1, d) >= P!AccruedInterest(p, d)
  <1> DEFINE month == P!AccruedInterest(p, 30)
  <1>1. ASSUME NEW q \in Int, NEW e \in Nat
        PROVE  /\ P!AccruedInterest(q, e) \in Int /\ P!AccruedInterest(q, e) >= 0
               /\ P!AccruedInterest(q, e + 1) \in Int /\ P!AccruedInterest(q, e + 1) >= P!AccruedInterest(q, e)
    <2>1. PICK m \in Nat, t \in 0..29 : e = 30 * m + t
      BY DaysAre
    <2>2. CASE q <= 0
      <3>1. P!AccruedInterest(q, e) = 0 /\ P!AccruedInterest(q, e + 1) = 0
        BY <2>2 DEF P!AccruedInterest
      <3> QED BY <3>1
    <2>3. CASE q > 0
      <3> DEFINE b == P!Compounded(q, m)
      <3>1. q \in Nat /\ t \in Nat /\ m + 1 \in Nat
        BY <2>3
      <3>2. b \in Nat /\ b >= q /\ P!Compounded(q, m + 1) = Rest(b)
        BY <3>1, BalancesAre
      <3>3. P!AccruedInterest(q, e) = After(b, t) - q
        BY <2>1, <2>3, AccruedIs
      <3> HIDE DEF b
      <3>4. After(b, t) \in Nat /\ After(b, t) >= b /\ After(b, t + 1) >= After(b, t)
        <4>1. b <= b
          BY <3>2
        <4> QED BY <3>1, <3>2, <4>1, AfterIs
      <3>5. After(b, t + 1) \in Nat
        <4>1. b <= b /\ t + 1 \in Nat
          BY <3>1, <3>2
        <4> QED BY <3>2, <4>1, AfterIs
      <3>6. P!AccruedInterest(q, e) \in Int /\ P!AccruedInterest(q, e) >= 0
        BY <3>1, <3>2, <3>3, <3>4
      <3>7. CASE t < 29
        <4>1. t + 1 \in 0..29 /\ e + 1 = 30 * m + (t + 1)
          BY <2>1, <3>7
        <4>2. P!AccruedInterest(q, e + 1) = After(b, t + 1) - q
          BY <2>3, <4>1, AccruedIs DEF b
        <4> QED BY <3>1, <3>3, <3>4, <3>5, <3>6, <4>2
      <3>8. CASE t = 29
        <4>1. 0 \in 0..29 /\ e + 1 = 30 * (m + 1) + 0
          <5>1. 30 * (m + 1) + 0 = 30 * m + 30
            BY SMT, <3>1
          <5>2. e + 1 = 30 * m + 30
            BY SMT, <2>1, <3>8
          <5>3. 0 \in 0..29
            OBVIOUS
          <5> QED BY Zenon, <5>1, <5>2, <5>3
        <4>2. P!AccruedInterest(q, e + 1) = After(P!Compounded(q, m + 1), 0) - q
          <5> DEFINE f == e + 1
                     l == m + 1
          <5>1. f = 30 * l + 0 /\ l \in Nat /\ 0 \in 0..29 /\ q \in Int /\ q > 0
            BY <2>3, <3>1, <4>1
          <5> HIDE DEF f, l
          <5>2. P!AccruedInterest(q, f) = After(P!Compounded(q, l), 0) - q
            BY <5>1, AccruedIs
          <5> QED BY <5>2 DEF f, l
        <4>3. Rest(b) \in Nat
          BY <3>2, RestType
        <4>4. After(Rest(b), 0) = Rest(b)
          <5>1. Rest(b) <= Rest(b) /\ 0 \in Nat
            BY <4>3
          <5> QED BY <4>3, <5>1, AfterIs
        <4>5. After(b, t) <= Rest(b)
          BY <3>2, <3>8, RestLast
        <4> QED BY <3>1, <3>2, <3>3, <3>4, <3>6, <4>2, <4>3, <4>4, <4>5
      <3> QED BY <3>1, <3>7, <3>8
    <2> QED BY <2>2, <2>3
  <1>2. d < 0 => P!AccruedInterest(p, d) = 0 /\ P!AccruedInterest(p + 1, d) = 0 /\ P!AccruedInterest(p, d + 1) = 0
    BY NoInterest
  <1>3. P!AccruedInterest(p, d) >= 0 /\ P!AccruedInterest(p, d + 1) >= P!AccruedInterest(p, d)
    <2>1. CASE d >= 0
      <3>1. d \in Nat
        BY <2>1
      <3> QED BY <1>1, <3>1
    <2>2. CASE d < 0
      BY <1>2, <2>2
    <2> QED BY <2>1, <2>2
  <1>4. P!AccruedInterest(p + 1, d) >= P!AccruedInterest(p, d)
    <2>1. CASE d < 0
      BY <1>2, <2>1
    <2>2. CASE d >= 0 /\ p <= 0
      <3>1. d \in Nat /\ p + 1 \in Int
        BY <2>2
      <3>2. P!AccruedInterest(p, d) = 0
        BY <2>2 DEF P!AccruedInterest
      <3>3. P!AccruedInterest(p + 1, d) >= 0
        BY <1>1, <3>1
      <3> QED BY <3>2, <3>3
    <2>3. CASE d >= 0 /\ p > 0
      <3>1. d \in Nat /\ p \in Nat /\ p + 1 \in Int /\ p + 1 > 0
        BY <2>3
      <3>2. PICK m \in Nat, t \in 0..29 : d = 30 * m + t
        BY <3>1, DaysAre
      <3> DEFINE a == P!Compounded(p, m)
                 b == P!Compounded(p + 1, m)
      <3>3. a \in Nat /\ b \in Nat /\ b >= a + 1
        <4>1. p + 1 \in Nat
          BY <3>1
        <4> QED BY <3>1, <4>1, BalancesAre
      <3>4. P!AccruedInterest(p, d) = After(a, t) - p /\ P!AccruedInterest(p + 1, d) = After(b, t) - (p + 1)
        BY <2>3, <3>1, <3>2, AccruedIs
      <3> HIDE DEF a, b
      <3>5. After(a, t) \in Nat /\ After(b, t) \in Nat /\ After(b, t) - After(a, t) >= b - a
        <4>1. a <= b /\ t \in Nat
          BY <3>2, <3>3
        <4> QED BY <3>3, <4>1, AfterIs
      <3> QED BY <3>1, <3>3, <3>4, <3>5
    <2> QED BY <2>1, <2>2, <2>3
  <1>5. ASSUME d >= 0 PROVE P!AccruedInterest(p, d + 30) = month + P!AccruedInterest(p + month, d)
    <2>1. PICK m \in Nat, t \in 0..29 : d = 30 * m + t
      BY <1>5, DaysAre
    <2>2. d + 30 = 30 * (m + 1) + t /\ m + 1 \in Nat /\ 30 = 30 * 1 + 0 /\ 0 \in 0..29 /\ 1 \in Nat /\ 0 \in Nat
      BY <2>1
    <2>3. CASE p <= 0
      <3>1. month = 0 /\ P!AccruedInterest(p, d + 30) = 0 /\ P!AccruedInterest(p, d) = 0
        BY <2>3 DEF P!AccruedInterest
      <3>2. p + month = p
        <4> HIDE DEF month
        <4> QED BY <3>1
      <3> HIDE DEF month
      <3> QED BY <3>1, <3>2
    <2>4. CASE p > 0
      <3> DEFINE r == Rest(p)
      <3>1. p \in Nat /\ p <= p
        BY <2>4
      <3>2. r \in Nat /\ r >= p
        BY <3>1, RestIs
      <3>3. P!AccruedInterest(p, 30 * 1 + 0) = After(P!Compounded(p, 1), 0) - p
        BY <2>2, <2>4, AccruedIs
      <3>4. P!Compounded(p, 1) = r
        <4>1. P!Compounded(p, 0 + 1) = Rest(P!Compounded(p, 0)) /\ P!Compounded(p, 0) = p
          BY <2>2, <3>1, BalancesAre
        <4> QED BY <4>1
      <3>5. P!Compounded(p, m + 1) = P!Compounded(r, m)
        BY <2>1, <3>1, BalancesAre
      <3>6. P!AccruedInterest(p, 30 * (m + 1) + t) = After(P!Compounded(p, m + 1), t) - p
        BY <2>1, <2>2, <2>4, AccruedIs
      <3> HIDE DEF r
      <3>7. After(r, 0) = r
        <4>1. r <= r
          BY <3>2
        <4> QED BY <2>2, <3>2, <4>1, AfterIs
      <3>8. month = r - p
        BY <2>2, <3>3, <3>4, <3>7
      <3>9. p + month = r
        <4> HIDE DEF month
        <4> QED BY <3>1, <3>2, <3>8
      <3>10. P!AccruedInterest(r, 30 * m + t) = After(P!Compounded(r, m), t) - r
        <4>1. r \in Int /\ r > 0
          BY <2>4, <3>2
        <4> QED BY <2>1, <4>1, AccruedIs
      <3>11. After(P!Compounded(r, m), t) \in Nat
        <4>1. P!Compounded(r, m) \in Nat /\ t \in Nat
          BY <2>1, <3>2, BalancesAre
        <4>2. P!Compounded(r, m) <= P!Compounded(r, m)
          BY <4>1
        <4> QED BY <4>1, <4>2, AfterIs
      <3> HIDE DEF month
      <3>12. P!AccruedInterest(p, d + 30) = After(P!Compounded(r, m), t) - p
        BY <2>2, <3>5, <3>6
      <3>13. P!AccruedInterest(p + month, d) = After(P!Compounded(r, m), t) - r
        BY <2>1, <3>9, <3>10
      <3> QED BY <3>1, <3>2, <3>8, <3>11, <3>12, <3>13
    <2> QED BY <2>3, <2>4
  <1> QED BY <1>3, <1>4, <1>5

LEMMA SameSumP ==
  ASSUME NEW f
  PROVE  P!SumFunction(f) = SumFunction(f)
  BY DEF P!SumFunction, P!SumFunctionOnSet, P!FoldFunctionOnSet, P!MapThenFoldSet,
         SumFunction, SumFunctionOnSet, FoldFunctionOnSet, MapThenFoldSet

\* The amounts of some rows of a finite set.
LEMMA AmountsOf ==
  ASSUME NEW S, IsFiniteSet(S), NEW amount, amount = [r \in S |-> r.amount], Whole(amount, S), NEW T \in SUBSET S
  PROVE  /\ SumFunction([r \in T |-> r.amount]) = SumFunctionOnSet(amount, T)
         /\ IsFiniteSet(T) /\ Whole(amount, T) /\ SumFunctionOnSet(amount, T) \in Int
  <1> DEFINE f == [r \in T |-> r.amount]
  <1>1. SumFunction(f) = SumFunctionOnSet(f, T)
    BY DEF SumFunction
  <1>2. IsFiniteSet(T) /\ Whole(amount, T) /\ \A r \in T : amount[r] = f[r]
    BY FS_Subset DEF Whole
  <1> HIDE DEF f
  <1>3. SumFunction(f) = SumFunctionOnSet(amount, T) /\ SumFunctionOnSet(amount, T) \in Int
    BY <1>1, <1>2, SumSame, SumType
  <1> QED BY <1>2, <1>3 DEF f

Scenarios == {"upside", "base", "downside"}

LEMMA DatesAre ==
  ASSUME NEW i, NEW late, IsOwed(i, late), NEW s \in Scenarios
  PROVE  /\ P!InflowDate(i, late[i.client], s) \in Int
         /\ late[i.client] = NoHistory \/ late[i.client] >= 0 =>
              /\ P!InflowDate(i, late[i.client], "upside") <= P!InflowDate(i, late[i.client], "base")
              /\ P!InflowDate(i, late[i.client], "base") <= P!InflowDate(i, late[i.client], "downside")
  <1> DEFINE l == late[i.client]
             y == P!Delay(l)
  <1>1. i.due \in Int /\ (l = NoHistory \/ l \in Int)
    BY DEF IsOwed
  <1>2. y \in Int /\ (l = NoHistory \/ l >= 0 => y >= 0)
    <2>1. CASE l = NoHistory
      <3>1. y = 7 * 10
        BY <2>1 DEF P!Delay, P!DEFAULT_PAY_DELAY, P!TENTHS
      <3> HIDE DEF y
      <3> QED BY SMT, <3>1
    <2>2. CASE l # NoHistory
      <3>1. y = l
        BY <2>2 DEF P!Delay
      <3> HIDE DEF l, y
      <3> QED BY <1>1, <2>2, <3>1
    <2> QED BY <2>1, <2>2
  <1>3. /\ P!InflowDate(i, l, "upside") = i.due
        /\ P!InflowDate(i, l, "base") = i.due + y
        /\ P!InflowDate(i, l, "downside") = i.due + (y + 14 * 10)
    BY DEF P!InflowDate, P!DownsideDelay, P!DOWNSIDE_SLIP, P!TENTHS
  <1> HIDE DEF l, y
  <1>4. \A r \in Scenarios : P!InflowDate(i, l, r) \in Int
    BY SMT, <1>1, <1>2, <1>3 DEF Scenarios
  <1>5. l = NoHistory \/ l >= 0 => /\ P!InflowDate(i, l, "upside") <= P!InflowDate(i, l, "base")
                                   /\ P!InflowDate(i, l, "base") <= P!InflowDate(i, l, "downside")
    BY SMT, <1>1, <1>2, <1>3
  <1> QED BY <1>4, <1>5 DEF l

LEMMA WeeksAre ==
  ASSUME NEW x \in Int
  PROVE  P!WeekIndex(x) \in Nat /\ \A w \in Nat : P!WeekIndex(x) <= w <=> x < 7 * P!TENTHS * (w + 1)
  <1>1. 7 * P!TENTHS = 70 /\ P!TENTHS = 10
    BY SMT DEF P!TENTHS
  <1>2. P!WeekIndex(x) = IF x < 0 THEN 0 ELSE (x \div 10) \div 7
    BY SMT DEF P!WeekIndex, P!Days, P!TENTHS
  <1>3. CASE x < 0
    <2>1. \A w \in Nat : 0 <= w /\ x < 70 * (w + 1)
      BY SMT, <1>3
    <2> QED BY SMT, <1>1, <1>2, <1>3, <2>1
  <1>4. CASE x >= 0
    <2> DEFINE a == x \div 10
               b == a \div 7
    <2>1. a \in Nat /\ 10 * a <= x /\ x < 10 * a + 10
      BY SMT, <1>4
    <2>2. b \in Nat /\ 7 * b <= a /\ a < 7 * b + 7
      <3> HIDE DEF a
      <3> QED BY SMT, <2>1
    <2>3. P!WeekIndex(x) = b
      BY SMT, <1>2, <1>4
    <2> HIDE DEF a, b
    <2>4. \A w \in Nat : b <= w <=> x < 70 * (w + 1)
      BY SMT, <2>1, <2>2
    <2> QED BY SMT, <1>1, <2>2, <2>3, <2>4
  <1> QED BY <1>3, <1>4

LEMMA OutflowIs ==
  ASSUME NEW m \in Int
  PROVE  P!WeeklyOutflow(m) \in Int
  <1> DEFINE n == 100 * m
             q == n \div 433
  <1>1. q \in Int
    BY SMT
  <1>2. P!WeeklyOutflow(m) = q \/ P!WeeklyOutflow(m) = q + 1
    BY SMT DEF P!WeeklyOutflow, P!RoundHalfEven
  <1> HIDE DEF q
  <1> QED BY SMT, <1>1, <1>2

\* A forecast's inputs.
ForecastOf(c) ==
  /\ c.horizon \in Nat /\ c.opening \in Int /\ c.monthly \in Int
  /\ IsFiniteSet(c.invoices) /\ \A i \in c.invoices : IsOwed(i, c.late)

PaidBy(c, s, w) == {j \in c.invoices : P!InflowDate(j, c.late[j.client], s) < 7 * P!TENTHS * (w + 1)}
Owed(c) == [i \in c.invoices |-> i.amount]

LEMMA OwedIs ==
  ASSUME NEW c, ForecastOf(c)
  PROVE  IsFiniteSet(c.invoices) /\ Whole(Owed(c), c.invoices) /\ \A i \in c.invoices : Owed(c)[i] \in Nat
  <1>1. IsFiniteSet(c.invoices) /\ \A i \in c.invoices : i.amount \in Nat
    BY DEF ForecastOf, IsOwed
  <1>2. \A i \in c.invoices : Owed(c)[i] = i.amount
    BY DEF Owed
  <1> QED BY <1>1, <1>2 DEF Whole

\* What comes in within a week is what is paid by then and was not before.
LEMMA InflowIs ==
  ASSUME NEW c, ForecastOf(c), NEW s \in Scenarios, NEW w \in Nat
  PROVE  LET paid(v) == SumFunctionOnSet(Owed(c), PaidBy(c, s, v))
             inflow == P!Inflow(c.invoices, c.late, s, w)
         IN  /\ inflow \in Int /\ paid(w) \in Int
             /\ w = 0 => inflow = paid(w)
             /\ w > 0 => inflow = paid(w) - paid(w - 1) /\ paid(w - 1) \in Int
  <1> DEFINE date(j) == P!InflowDate(j, c.late[j.client], s)
             now == {j \in c.invoices : P!WeekIndex(date(j)) = w}
             inflow == P!Inflow(c.invoices, c.late, s, w)
  <1>1. inflow = SumFunction([r \in now |-> r.amount])
    BY SameSumP DEF P!Inflow
  <1>2. \A j \in c.invoices : date(j) \in Int
    BY DatesAre DEF ForecastOf
  <1>3. \A j \in c.invoices : P!WeekIndex(date(j)) \in Nat
    BY <1>2, WeeksAre
  <1>4. ASSUME NEW v \in Nat
        PROVE  PaidBy(c, s, v) = {j \in c.invoices : P!WeekIndex(date(j)) <= v}
    BY <1>2, WeeksAre DEF PaidBy
  <1>5. now \in SUBSET c.invoices
    OBVIOUS
  <1>6. ASSUME NEW v \in Nat PROVE PaidBy(c, s, v) \in SUBSET c.invoices
    BY DEF PaidBy
  <1>7. w = 0 => PaidBy(c, s, w) = now
    BY <1>3, <1>4
  <1>8. w > 0 => PaidBy(c, s, w - 1) \in SUBSET PaidBy(c, s, w) /\ PaidBy(c, s, w) \ PaidBy(c, s, w - 1) = now
    <2> SUFFICES ASSUME w > 0
                 PROVE  PaidBy(c, s, w - 1) \in SUBSET PaidBy(c, s, w) /\ PaidBy(c, s, w) \ PaidBy(c, s, w - 1) = now
      OBVIOUS
    <2>1. w - 1 \in Nat
      OBVIOUS
    <2>2. PaidBy(c, s, w) = {j \in c.invoices : P!WeekIndex(date(j)) <= w}
          /\ PaidBy(c, s, w - 1) = {j \in c.invoices : P!WeekIndex(date(j)) <= w - 1}
      BY <1>4, <2>1
    <2>3. \A j \in c.invoices : /\ P!WeekIndex(date(j)) <= w - 1 => P!WeekIndex(date(j)) <= w
                                /\ (P!WeekIndex(date(j)) <= w /\ ~(P!WeekIndex(date(j)) <= w - 1)) <=> P!WeekIndex(date(j)) = w
      BY <1>3
    <2> QED BY <2>2, <2>3
  <1> HIDE DEF now
  <1>9. inflow = SumFunctionOnSet(Owed(c), now) /\ SumFunctionOnSet(Owed(c), now) \in Int
    BY <1>1, <1>5, OwedIs, AmountsOf DEF Owed
  <1>10. ASSUME NEW v \in Nat
         PROVE  /\ SumFunctionOnSet(Owed(c), PaidBy(c, s, v)) \in Int
                /\ IsFiniteSet(PaidBy(c, s, v)) /\ Whole(Owed(c), PaidBy(c, s, v))
    BY <1>6, OwedIs, AmountsOf DEF Owed
  <1>11. ASSUME w > 0
         PROVE  /\ SumFunctionOnSet(Owed(c), PaidBy(c, s, w))
                   = SumFunctionOnSet(Owed(c), PaidBy(c, s, w - 1)) + SumFunctionOnSet(Owed(c), now)
                /\ SumFunctionOnSet(Owed(c), PaidBy(c, s, w - 1)) \in Int
    <2>1. w - 1 \in Nat
      BY <1>11
    <2> QED BY <1>8, <1>10, <1>11, <2>1, SumOfBoth
  <1> HIDE DEF inflow
  <1>12. /\ inflow \in Int /\ SumFunctionOnSet(Owed(c), PaidBy(c, s, w)) \in Int
         /\ w = 0 => inflow = SumFunctionOnSet(Owed(c), PaidBy(c, s, w))
         /\ w > 0 => /\ inflow = SumFunctionOnSet(Owed(c), PaidBy(c, s, w)) - SumFunctionOnSet(Owed(c), PaidBy(c, s, w - 1))
                     /\ SumFunctionOnSet(Owed(c), PaidBy(c, s, w - 1)) \in Int
    BY <1>7, <1>9, <1>10, <1>11
  <1> QED BY <1>12 DEF inflow

\* The closing balances of a scenario, week by week.
LEMMA ClosingsAre ==
  ASSUME NEW c, ForecastOf(c), NEW s \in Scenarios, c.horizon > 0
  PROVE  LET f == P!Closings(c, s)
             out == P!WeeklyOutflow(c.monthly)
             paid(v) == SumFunctionOnSet(Owed(c), PaidBy(c, s, v))
         IN  /\ DOMAIN f = 0..(c.horizon - 1)
             /\ \A w \in 0..(c.horizon - 1) : f[w] = c.opening - (w + 1) * out + paid(w) /\ f[w] \in Int
  <1> DEFINE N == c.horizon - 1
             out == P!WeeklyOutflow(c.monthly)
             in(w) == P!Inflow(c.invoices, c.late, s, w)
             paid(v) == SumFunctionOnSet(Owed(c), PaidBy(c, s, v))
             Is(f) == f = [w \in 0..N |-> (IF w = 0 THEN c.opening ELSE f[w - 1]) + in(w) - out]
             f == P!Closings(c, s)
  <1>1. N \in Nat /\ out \in Int /\ c.opening \in Int
    <2>1. c.horizon \in Nat /\ c.opening \in Int /\ c.monthly \in Int
      BY DEF ForecastOf
    <2> QED BY <2>1, OutflowIs
  <1>2. \A w \in Nat : in(w) \in Int /\ paid(w) \in Int
    BY InflowIs
  <1>3. f = CHOOSE g : Is(g)
    BY DEF P!Closings
  <1> HIDE DEF in, out, paid, f, N
  <1>4. \E g : Is(g)
    <2> DEFINE base == c.opening + in(0) - out
               F == [w \in (1..N) \X Int |-> w[2] + in(w[1]) - out]
    <2>1. \A w \in 1..N : w \in Nat /\ in(w) \in Int
      BY <1>1, <1>2
    <2>2. F \in [(1..N) \X Int -> Int] /\ base \in Int /\ in(0) \in Int
      BY <1>1, <1>2, <2>1
    <2>3. PICK g \in [0..N -> Int] : Goes(g, N, base, F)
      <3> HIDE DEF F, base
      <3> QED BY <1>1, <2>2, StepsLead
    <2>4. \A w \in 0..N : g[w] = IF w = 0 THEN base ELSE F[<<w, g[w - 1]>>]
      BY <2>3 DEF Goes
    <2>5. \A w \in 1..N : F[<<w, g[w - 1]>>] = g[w - 1] + in(w) - out
      <3>1. \A w \in 1..N : <<w, g[w - 1]>> \in (1..N) \X Int
        BY <1>1
      <3> QED BY <3>1
    <2>6. \A w \in 0..N : g[w] = (IF w = 0 THEN c.opening ELSE g[w - 1]) + in(w) - out
      <3>1. \A w \in 0..N : w # 0 => w \in 1..N
        BY <1>1
      <3> HIDE DEF F
      <3> QED BY <2>4, <2>5, <3>1
    <2>7. g = [w \in 0..N |-> g[w]]
      OBVIOUS
    <2>8. Is(g)
      BY <2>6, <2>7
    <2> QED BY <2>8
  <1>5. Is(f)
    BY <1>3, <1>4
  <1>6. DOMAIN f = 0..N
    BY <1>5
  <1>7. \A w \in 0..N : f[w] = (IF w = 0 THEN c.opening ELSE f[w - 1]) + in(w) - out
    BY <1>5
  <1> HIDE DEF Is
  <1>8. \A w \in 0..N : f[w] = c.opening - (w + 1) * out + paid(w)
    <2> DEFINE Good == {w \in 0..N : f[w] = c.opening - (w + 1) * out + paid(w)}
    <2>1. 0 \in Good
      <3>1. in(0) = paid(0)
        BY InflowIs DEF in, paid
      <3>2. 0 \in 0..N /\ paid(0) \in Int
        BY <1>1, <1>2
      <3>3. f[0] = c.opening + in(0) - out
        BY <1>7, <3>2
      <3>4. (0 + 1) * out = out
        BY <1>1
      <3> QED BY <1>1, <3>1, <3>2, <3>3, <3>4
    <2>2. ASSUME NEW w \in 1..N, w - 1 \in Good PROVE w \in Good
      <3>1. w \in Nat /\ w > 0 /\ w \in 0..N /\ w # 0 /\ w - 1 \in Nat /\ w - 1 \in 0..N
        BY <1>1
      <3>2. in(w) = paid(w) - paid(w - 1)
        BY <3>1, InflowIs DEF in, paid
      <3>3. paid(w) \in Int /\ paid(w - 1) \in Int
        BY <1>2, <3>1
      <3>4. f[w - 1] = c.opening - (w - 1 + 1) * out + paid(w - 1)
        BY <2>2
      <3>5. f[w] = f[w - 1] + in(w) - out
        BY <1>7, <3>1
      <3>6. (w - 1 + 1) * out = w * out /\ (w + 1) * out = w * out + out /\ w * out \in Int
        BY <1>1, <3>1
      <3> DEFINE x == w * out
      <3>7. f[w - 1] = c.opening - x + paid(w - 1) /\ (w + 1) * out = x + out /\ x \in Int
        BY <3>4, <3>6
      <3> HIDE DEF x
      <3>8. f[w] = c.opening - (x + out) + paid(w)
        BY <1>1, <3>2, <3>3, <3>5, <3>7
      <3>9. f[w] = c.opening - (w + 1) * out + paid(w)
        BY <3>7, <3>8
      <3> QED BY <3>1, <3>9
    <2> HIDE DEF Good
    <2>3. \A w \in 0..N : w \in Good
      BY <1>1, <2>1, <2>2, UpTo
    <2> QED BY <2>3 DEF Good
  <1>9. ASSUME NEW w \in 0..N PROVE f[w] \in Int
    <2> DEFINE x == (w + 1) * out
    <2>1. w \in Nat
      BY <1>1
    <2>2. x \in Int /\ paid(w) \in Int
      BY <1>1, <1>2, <2>1
    <2>3. f[w] = c.opening - x + paid(w)
      BY <1>8
    <2> HIDE DEF x
    <2> QED BY <1>1, <2>2, <2>3
  <1> QED BY <1>6, <1>8, <1>9 DEF N, out, paid, f

LEMMA NoClosings ==
  ASSUME NEW c, NEW s, c.horizon = 0
  PROVE  DOMAIN P!Closings(c, s) = {} /\ 0..(c.horizon - 1) = {}
  <1> DEFINE out == P!WeeklyOutflow(c.monthly)
             in(w) == P!Inflow(c.invoices, c.late, s, w)
             Is(f) == f = [w \in 0..(c.horizon - 1) |-> (IF w = 0 THEN c.opening ELSE f[w - 1]) + in(w) - out]
  <1>1. 0..(c.horizon - 1) = {}
    OBVIOUS
  <1>2. P!Closings(c, s) = CHOOSE g : Is(g)
    BY DEF P!Closings
  <1> HIDE DEF in, out
  <1>3. Is([w \in 0..(c.horizon - 1) |-> 0])
    BY <1>1
  <1>4. Is(P!Closings(c, s))
    BY <1>2, <1>3
  <1>5. DOMAIN P!Closings(c, s) = 0..(c.horizon - 1)
    BY <1>4
  <1> QED BY <1>1, <1>5

LEMMA ProjectIs ==
  ASSUME NEW c
  PROVE  /\ DOMAIN P!Project(c) = Scenarios
         /\ \A s \in Scenarios : P!Project(c)[s] = P!Closings(c, s)
  <1>1. P!ToSet(P!SCENARIOS) = Scenarios
    <2>1. DOMAIN P!SCENARIOS = 1..3 /\ P!SCENARIOS[1] = "upside" /\ P!SCENARIOS[2] = "base" /\ P!SCENARIOS[3] = "downside"
      BY DEF P!SCENARIOS
    <2>2. 1..3 = {1, 2, 3}
      OBVIOUS
    <2>3. P!ToSet(P!SCENARIOS) = {P!SCENARIOS[k] : k \in {1, 2, 3}}
      BY <2>1, <2>2 DEF P!ToSet
    <2> QED BY <2>1, <2>3 DEF Scenarios
  <1> QED BY <1>1 DEF P!Project

LEMMA ConservesIs ==
  ASSUME NEW c, ForecastOf(c), NEW s \in Scenarios, NEW w \in 0..(c.horizon - 1)
  PROVE  P!Project(c)[s][w] =
           c.opening - (w + 1) * P!WeeklyOutflow(c.monthly)
           + SumFunction([i \in {j \in c.invoices :
                                    P!InflowDate(j, c.late[j.client], s) < 7 * P!TENTHS * (w + 1)} |-> i.amount])
  <1>1. c.horizon > 0
    BY DEF ForecastOf
  <1> DEFINE T == {j \in c.invoices : P!InflowDate(j, c.late[j.client], s) < 7 * P!TENTHS * (w + 1)}
             x == P!WeeklyOutflow(c.monthly)
  <1>2. T = PaidBy(c, s, w) /\ T \in SUBSET c.invoices
    BY DEF PaidBy
  <1> HIDE DEF T
  <1>3. SumFunction([i \in T |-> i.amount]) = SumFunctionOnSet(Owed(c), T)
    BY <1>2, OwedIs, AmountsOf DEF Owed
  <1>4. P!Closings(c, s)[w] = c.opening - (w + 1) * x + SumFunctionOnSet(Owed(c), PaidBy(c, s, w))
    BY <1>1, ClosingsAre
  <1>5. P!Project(c)[s] = P!Closings(c, s)
    BY ProjectIs
  <1> HIDE DEF x
  <1>6. P!Project(c)[s][w] = c.opening - (w + 1) * x + SumFunction([i \in T |-> i.amount])
    BY <1>2, <1>3, <1>4, <1>5
  <1> QED BY <1>6 DEF T, x

\* The bands: a scenario that pays sooner has no less in any week.
LEMMA SoonerIsMore ==
  ASSUME NEW c, ForecastOf(c), NEW s \in Scenarios, NEW r \in Scenarios, NEW w \in 0..(c.horizon - 1),
         \A j \in c.invoices : P!InflowDate(j, c.late[j.client], r) <= P!InflowDate(j, c.late[j.client], s)
  PROVE  P!Project(c)[s][w] <= P!Project(c)[r][w]
  <1> DEFINE x == (w + 1) * P!WeeklyOutflow(c.monthly)
             sums(q) == SumFunctionOnSet(Owed(c), PaidBy(c, q, w))
  <1>1. c.horizon > 0 /\ w \in Nat /\ c.opening \in Int /\ x \in Int
    <2>1. c.horizon \in Nat /\ c.opening \in Int /\ c.monthly \in Int
      BY DEF ForecastOf
    <2>2. P!WeeklyOutflow(c.monthly) \in Int
      BY <2>1, OutflowIs
    <2> QED BY <2>1, <2>2
  <1>2. \A q \in Scenarios : P!Project(c)[q][w] = c.opening - x + sums(q) /\ sums(q) \in Int
    <2> TAKE q \in Scenarios
    <2>1. P!Closings(c, q)[w] = c.opening - x + sums(q)
      BY <1>1, ClosingsAre
    <2>2. sums(q) \in Int
      BY <1>1, InflowIs
    <2> QED BY <2>1, <2>2, ProjectIs
  <1>3. PaidBy(c, s, w) \in SUBSET PaidBy(c, r, w)
    <2> DEFINE t == 7 * P!TENTHS * (w + 1)
    <2>1. t \in Int
      BY <1>1 DEF P!TENTHS
    <2>2. \A j \in c.invoices : P!InflowDate(j, c.late[j.client], r) \in Int /\ P!InflowDate(j, c.late[j.client], s) \in Int
      BY DatesAre DEF ForecastOf
    <2>3. PaidBy(c, s, w) = {j \in c.invoices : P!InflowDate(j, c.late[j.client], s) < t}
          /\ PaidBy(c, r, w) = {j \in c.invoices : P!InflowDate(j, c.late[j.client], r) < t}
      BY DEF PaidBy
    <2> HIDE DEF t
    <2>4. \A j \in c.invoices : P!InflowDate(j, c.late[j.client], s) < t => P!InflowDate(j, c.late[j.client], r) < t
      BY <2>1, <2>2
    <2> QED BY <2>3, <2>4
  <1>4. PaidBy(c, r, w) \in SUBSET c.invoices
    BY DEF PaidBy
  <1>5. sums(s) <= sums(r)
    <2>1. IsFiniteSet(PaidBy(c, r, w)) /\ \A j \in PaidBy(c, r, w) : Owed(c)[j] \in Nat
      BY <1>4, OwedIs, FS_Subset
    <2> QED BY <1>3, <2>1, SumOfParts
  <1> HIDE DEF x, sums
  <1> QED BY <1>1, <1>2, <1>5

\* The first of the weeks of a set.
LEMMA FirstWeek ==
  ASSUME NEW T \in SUBSET Nat, T # {}
  PROVE  P!Min(T) \in T /\ \A y \in T : P!Min(T) <= y
  BY LeastOf DEF P!Min

Unhurried(c) == \A k \in DOMAIN c.late : c.late[k] = NoHistory \/ c.late[k] >= 0

LEMMA BandsAre ==
  ASSUME NEW c, ForecastOf(c), Unhurried(c), NEW w \in 0..(c.horizon - 1)
  PROVE  /\ P!Project(c)["downside"][w] <= P!Project(c)["base"][w]
         /\ P!Project(c)["base"][w] <= P!Project(c)["upside"][w]
  <1>1. \A j \in c.invoices :
          /\ P!InflowDate(j, c.late[j.client], "upside") <= P!InflowDate(j, c.late[j.client], "base")
          /\ P!InflowDate(j, c.late[j.client], "base") <= P!InflowDate(j, c.late[j.client], "downside")
    <2> TAKE j \in c.invoices
    <2>1. IsOwed(j, c.late)
      BY DEF ForecastOf
    <2>2. c.late[j.client] = NoHistory \/ c.late[j.client] >= 0
      BY <2>1 DEF IsOwed, Unhurried
    <2>3. "base" \in Scenarios
      BY DEF Scenarios
    <2> QED BY <2>1, <2>2, <2>3, DatesAre
  <1>2. "base" \in Scenarios /\ "upside" \in Scenarios /\ "downside" \in Scenarios
    BY DEF Scenarios
  <1>3. P!Project(c)["downside"][w] <= P!Project(c)["base"][w]
    BY <1>1, <1>2, SoonerIsMore
  <1>4. P!Project(c)["base"][w] <= P!Project(c)["upside"][w]
    BY <1>1, <1>2, SoonerIsMore
  <1> QED BY <1>3, <1>4

LEMMA GapIs ==
  ASSUME NEW c, ForecastOf(c), Unhurried(c)
  PROVE  LET dry == {w \in 0..(c.horizon - 1) : \E s \in DOMAIN P!Project(c) : P!Project(c)[s][w] < 0}
             gap == P!DetectGap(P!Project(c))
         IN  /\ gap = {} <=> dry = {}
             /\ \A g \in gap : g.week \in dry /\ \A w \in dry : g.week <= w
  <1> DEFINE r == P!Project(c)
             H == 0..(c.horizon - 1)
             dry == {w \in H : \E s \in DOMAIN r : r[s][w] < 0}
             short == {k \in DOMAIN P!GapOrder : P!Negative(r[P!GapOrder[k]]) # {}}
             low == P!Negative(r["downside"])
  <1>1. DOMAIN r = Scenarios /\ \A s \in Scenarios : DOMAIN r[s] = H /\ \A w \in H : r[s][w] \in Int
    <2>1. ASSUME NEW s \in Scenarios PROVE DOMAIN P!Closings(c, s) = H /\ \A w \in H : P!Closings(c, s)[w] \in Int
      <3>1. CASE c.horizon = 0
        BY <3>1, NoClosings
      <3>2. CASE c.horizon > 0
        BY <3>2, ClosingsAre
      <3>3. c.horizon \in Nat
        BY DEF ForecastOf
      <3> QED BY <3>1, <3>2, <3>3
    <2> HIDE DEF H
    <2> QED BY <2>1, ProjectIs
  <1>2. \A w \in H : r["downside"][w] <= r["base"][w] /\ r["base"][w] <= r["upside"][w]
    BY BandsAre
  <1>3. H \subseteq Nat
    BY DEF ForecastOf
  <1>4. DOMAIN P!GapOrder = {1, 2, 3} /\ P!GapOrder[1] = "downside" /\ P!GapOrder[2] = "base" /\ P!GapOrder[3] = "upside"
    BY DEF P!GapOrder
  <1>5. P!DetectGap(r) = IF short = {} THEN {}
                         ELSE {[scenario |-> P!GapOrder[P!Min(short)], week |-> P!Min(P!Negative(r[P!GapOrder[P!Min(short)]]))]}
    BY DEF P!DetectGap
  <1> HIDE DEF r, H
  <1>6. \A s \in Scenarios : P!Negative(r[s]) = {w \in H : r[s][w] < 0}
    BY <1>1 DEF P!Negative
  <1>7. low = dry
    <2>1. \A w \in H : (\E s \in Scenarios : r[s][w] < 0) <=> r["downside"][w] < 0
      <3> TAKE w \in H
      <3>1. \A s \in Scenarios : r[s][w] \in Int
        BY <1>1
      <3>2. r["downside"][w] \in Int /\ r["base"][w] \in Int /\ r["upside"][w] \in Int
        BY <3>1 DEF Scenarios
      <3>3. \A s \in Scenarios : r["downside"][w] <= r[s][w]
        BY <1>2, <3>2 DEF Scenarios
      <3> QED BY <3>1, <3>2, <3>3 DEF Scenarios
    <2>2. "downside" \in Scenarios
      BY DEF Scenarios
    <2> QED BY <1>1, <1>6, <2>1, <2>2
  <1>8. short = {} <=> dry = {}
    <2>1. ASSUME dry # {} PROVE 1 \in short
      BY <1>4, <1>7, <2>1
    <2>2. ASSUME NEW k \in short PROVE dry # {}
      <3>1. P!GapOrder[k] \in Scenarios
        BY <1>4 DEF Scenarios
      <3>2. PICK w \in P!Negative(r[P!GapOrder[k]]) : TRUE
        OBVIOUS
      <3>3. w \in H /\ r[P!GapOrder[k]][w] < 0
        BY <1>6, <3>1, <3>2
      <3> QED BY <1>1, <3>1, <3>3
    <2> HIDE DEF short, dry
    <2> QED BY <2>1, <2>2
  <1>9. ASSUME dry # {} PROVE P!DetectGap(r) = {[scenario |-> "downside", week |-> P!Min(dry)]}
    <2>1. short \in SUBSET Nat /\ short \subseteq {1, 2, 3} /\ 1 \in short
      BY <1>4, <1>7, <1>9
    <2> HIDE DEF short
    <2>2. P!Min(short) \in short /\ P!Min(short) <= 1
      BY <2>1, FirstWeek
    <2>3. P!Min(short) = 1
      <3> DEFINE m == P!Min(short)
      <3>1. m \in {1, 2, 3} /\ m <= 1
        BY <2>1, <2>2
      <3> HIDE DEF m
      <3>2. m = 1
        BY <3>1
      <3> QED BY <3>2 DEF m
    <2> QED BY <1>4, <1>5, <1>7, <2>1, <2>3
  <1>10. dry # {} => P!Min(dry) \in dry /\ \A w \in dry : P!Min(dry) <= w
    <2>1. dry \in SUBSET Nat
      BY <1>3
    <2> HIDE DEF dry
    <2> QED BY <2>1, FirstWeek
  <1>11. P!DetectGap(r) = {} <=> dry = {}
    <2> HIDE DEF short, dry
    <2> QED BY <1>5, <1>8, <1>9
  <1>12. \A g \in P!DetectGap(r) : g.week \in dry /\ \A w \in dry : g.week <= w
    <2> HIDE DEF dry
    <2> QED BY <1>9, <1>10, <1>11
  <1> QED BY <1>11, <1>12 DEF r, H

-----------------------------------------------------------------------------
InterestAnswered == call = "interest" => input \in InterestInputs /\ result = P!AccruedInterest(input.principal, input.days)
ForecastAnswered == call = "forecast" => input \in ForecastInputs /\ result = P!Project(input)
OptionsAnswered == call = "options" => input \in OptionInputs /\ result = P!BuildOptions(input.invoices, input.late)

LEMMA InterestsAnswer == CallSpec => []InterestAnswered
  <1>1. Uncalled => InterestAnswered
    BY DEF Uncalled, InterestAnswered
  <1>2. InterestAnswered /\ [OneCall]_callVars => InterestAnswered'
    BY Zenon DEF InterestAnswered, OneCall, callVars, Match, Accrue, Forecast, Rank, Scan, Pack, Mine, Grade, Report,
              ReadStatement, ReadExport, Chase, AfterCall, Return
  <1> QED BY <1>1, <1>2, PTL DEF CallSpec
LEMMA ForecastsAnswer == CallSpec => []ForecastAnswered
  <1>1. Uncalled => ForecastAnswered
    BY DEF Uncalled, ForecastAnswered
  <1>2. ForecastAnswered /\ [OneCall]_callVars => ForecastAnswered'
    BY Zenon DEF ForecastAnswered, OneCall, callVars, Match, Accrue, Forecast, Rank, Scan, Pack, Mine, Grade, Report,
              ReadStatement, ReadExport, Chase, AfterCall, Return
  <1> QED BY <1>1, <1>2, PTL DEF CallSpec
LEMMA OptionsAnswer == CallSpec => []OptionsAnswered
  <1>1. Uncalled => OptionsAnswered
    BY DEF Uncalled, OptionsAnswered
  <1>2. OptionsAnswered /\ [OneCall]_callVars => OptionsAnswered'
    BY Zenon DEF OptionsAnswered, OneCall, callVars, Match, Accrue, Forecast, Rank, Scan, Pack, Mine, Grade, Report,
              ReadStatement, ReadExport, Chase, AfterCall, Return
  <1> QED BY <1>1, <1>2, PTL DEF CallSpec

LEMMA ForecastsAreSound ==
  ASSUME InterestsAreGiven, ForecastsAreGiven, InterestAnswered, ForecastAnswered
  PROVE  InterestCompounds /\ ForecastConserves /\ BandsAreOrdered /\ GapIsFirst
  <1>1. InterestCompounds
    <2> SUFFICES ASSUME call = "interest" PROVE InterestCompounds
      BY DEF InterestCompounds, Called
    <2>1. result = P!AccruedInterest(input.principal, input.days) /\ input.principal \in Int /\ input.days \in Int
      BY DEF InterestAnswered, InterestsAreGiven
    <2> QED BY <2>1, InterestIsSound DEF InterestCompounds
  <1>2. call = "forecast" => result = P!Project(input) /\ ForecastOf(input)
    BY DEF ForecastAnswered, ForecastsAreGiven, ForecastOf
  <1>3. ForecastConserves
    BY <1>2, ConservesIs, ProjectIs DEF ForecastConserves, Called
  <1>4. NobodyIsEarly <=> Unhurried(input)
    BY DEF NobodyIsEarly, Unhurried
  <1>5. BandsAreOrdered
    BY <1>2, <1>4, BandsAre DEF BandsAreOrdered, Called
  <1>6. GapIsFirst
    BY <1>2, <1>4, GapIs DEF GapIsFirst, Called
  <1> QED BY <1>1, <1>3, <1>5, <1>6

-----------------------------------------------------------------------------
(* Sequences flattened and ranked.                                          *)

\* h holds what the first of the sequences ss give one after another.
Joins(h, ss, n) == /\ h[0] = <<>>
                   /\ \A k \in 1..n : h[k] = h[k - 1] \o ss[k]
Flattens(f, ss, n) == f = [i \in 1..n |-> IF i = 1 THEN ss[i] ELSE f[i - 1] \o ss[i]]

LEMMA NothingFirst ==
  ASSUME NEW V, NEW x \in Seq(V)
  PROVE  <<>> \o x = x
  OBVIOUS

LEMMA FlattenIs ==
  ASSUME NEW V, NEW n \in Nat, NEW ss \in [1..n -> Seq(V)]
  PROVE  \E h \in [0..n -> Seq(V)] : Joins(h, ss, n) /\ FlattenSeq(ss) = h[n]
  <1> DEFINE F == [w \in (1..n) \X Seq(V) |-> w[2] \o ss[w[1]]]
  <1>1. F \in [(1..n) \X Seq(V) -> Seq(V)] /\ <<>> \in Seq(V)
    OBVIOUS
  <1>2. PICK h \in [0..n -> Seq(V)] : Goes(h, n, <<>>, F)
    <2> HIDE DEF F
    <2> QED BY <1>1, StepsLead
  <1>3. h[0] = <<>> /\ \A k \in 1..n : h[k] = h[k - 1] \o ss[k]
    <2>1. \A k \in 0..n : h[k] = IF k = 0 THEN <<>> ELSE F[<<k, h[k - 1]>>]
      BY <1>2 DEF Goes
    <2>2. \A k \in 1..n : k \in 0..n /\ k # 0 /\ <<k, h[k - 1]>> \in (1..n) \X Seq(V)
      BY <1>2
    <2>3. \A k \in 1..n : F[<<k, h[k - 1]>>] = h[k - 1] \o ss[k]
      BY <2>2
    <2> HIDE DEF F
    <2>4. h[0] = <<>>
      <3>1. 0 \in 0..n
        OBVIOUS
      <3> QED BY Zenon, <2>1, <3>1
    <2>5. \A k \in 1..n : h[k] = h[k - 1] \o ss[k]
      BY Zenon, <2>1, <2>2, <2>3
    <2> QED BY <2>4, <2>5
  <1>4. ss \in Seq(Seq(V)) /\ Len(ss) = n
    OBVIOUS
  <1>5. CASE n = 0
    <2>1. ss = <<>>
      BY <1>4, <1>5
    <2>2. FlattenSeq(ss) = ss
      BY <1>4, <1>5 DEF FlattenSeq
    <2> QED BY <1>3, <1>5, <2>1, <2>2 DEF Joins
  <1>6. CASE n # 0
    <2> DEFINE g == CHOOSE f : Flattens(f, ss, n)
               f0 == [i \in 1..n |-> h[i]]
    <2>1. FlattenSeq(ss) = g[n]
      BY <1>4, <1>6 DEF FlattenSeq, Flattens
    <2>2. Flattens(f0, ss, n)
      <3>1. \A i \in 1..n : f0[i] = h[i]
        OBVIOUS
      <3>2. \A i \in 1..n : i # 1 => i - 1 \in 1..n
        OBVIOUS
      <3>3. ASSUME NEW i \in 1..n PROVE f0[i] = IF i = 1 THEN ss[i] ELSE f0[i - 1] \o ss[i]
        <4>1. CASE i = 1
          <5>0. 1 \in 1..n /\ 1 - 1 = 0
            BY <4>1
          <5>1. h[1] = h[1 - 1] \o ss[1] /\ ss[1] \in Seq(V)
            BY <1>3, <5>0
          <5>2. h[1] = ss[1]
            BY <1>3, <5>0, <5>1, NothingFirst
          <5> QED BY <3>1, <4>1, <5>2
        <4>2. CASE i # 1
          BY <1>3, <3>1, <3>2, <4>2
        <4> QED BY <4>1, <4>2
      <3>4. f0 = [i \in 1..n |-> f0[i]]
        OBVIOUS
      <3> HIDE DEF f0
      <3> QED BY <3>3, <3>4 DEF Flattens
    <2>3. Flattens(g, ss, n)
      BY <2>2
    <2> HIDE DEF g
    <2>4. \A i \in 1..n : g[i] = IF i = 1 THEN ss[i] ELSE g[i - 1] \o ss[i]
      BY <2>3 DEF Flattens
    <2> DEFINE Good == {i \in 0..n : i # 0 => g[i] = h[i]}
    <2>5. 0 \in Good
      OBVIOUS
    <2>6. ASSUME NEW i \in 1..n, i - 1 \in Good PROVE i \in Good
      <3>1. CASE i = 1
        <4>0. 1 \in 1..n /\ 1 - 1 = 0 /\ g[1] = ss[1]
          BY <2>4, <3>1
        <4>1. h[1] = h[1 - 1] \o ss[1] /\ ss[1] \in Seq(V)
          BY <1>3, <4>0
        <4>2. h[1] = ss[1]
          BY <1>3, <4>0, <4>1, NothingFirst
        <4> QED BY <3>1, <4>0, <4>2
      <3>2. CASE i # 1
        <4>1. g[i - 1] = h[i - 1]
          BY <2>6, <3>2
        <4>2. g[i] = g[i - 1] \o ss[i]
          BY <2>4, <3>2
        <4>3. h[i] = h[i - 1] \o ss[i]
          BY <1>3
        <4>4. g[i] = h[i]
          BY <4>1, <4>2, <4>3
        <4> QED BY <4>4
      <3> QED BY <3>1, <3>2
    <2> HIDE DEF Good
    <2>7. \A i \in 0..n : i \in Good
      BY <2>5, <2>6, UpTo
    <2>8. g[n] = h[n]
      <3>1. n \in 0..n
        OBVIOUS
      <3>2. n \in Good
        BY <2>7, <3>1
      <3> QED BY <1>6, <3>2 DEF Good
    <2> QED BY <1>3, <2>1, <2>8 DEF Joins
  <1> QED BY <1>5, <1>6

\* Where each sequence gives at most one element, each element of the whole
\* comes from a sequence of its own, in their order.
Single(h, ss, n, at) ==
  /\ at \in [1..Len(h[n]) -> 1..n]
  /\ \A r \in 1..Len(h[n]) : ss[at[r]] = <<h[n][r]>>
  /\ \A r, s \in 1..Len(h[n]) : r < s => at[r] < at[s]
  /\ \A k \in 1..n : ss[k] # <<>> => \E r \in 1..Len(h[n]) : at[r] = k

LEMMA EachFromOne ==
  ASSUME NEW V, NEW n \in Nat, NEW ss \in [1..n -> Seq(V)], NEW h \in [0..n -> Seq(V)], Joins(h, ss, n),
         \A k \in 1..n : ss[k] = <<>> \/ \E v \in V : ss[k] = <<v>>
  PROVE  \E at : Single(h, ss, n, at)
  <1> DEFINE Good == {k \in 0..n : \E at : Single(h, ss, k, at)}
  <1>1. 0 \in Good
    <2>1. Len(h[0]) = 0 /\ 0 \in 0..n
      BY DEF Joins
    <2>2. Single(h, ss, 0, [r \in 1..0 |-> 0])
      BY <2>1 DEF Single
    <2> QED BY <2>1, <2>2
  <1>2. ASSUME NEW k \in 1..n, k - 1 \in Good PROVE k \in Good
    <2>1. PICK at : Single(h, ss, k - 1, at)
      BY <1>2
    <2> DEFINE a == h[k - 1]
               b == h[k]
               L == Len(a)
    <2>2. a \in Seq(V) /\ b \in Seq(V) /\ b = a \o ss[k] /\ L \in Nat /\ k \in Nat
      <3>1. b = a \o ss[k]
        BY DEF Joins
      <3>2. k \in 0..n /\ k - 1 \in 0..n /\ k \in Nat
        OBVIOUS
      <3>3. a \in Seq(V) /\ b \in Seq(V)
        BY <3>2
      <3> HIDE DEF a, b
      <3>4. L \in Nat
        BY <3>3
      <3> QED BY <3>1, <3>2, <3>3, <3>4
    <2>3. /\ at \in [1..L -> 1..(k - 1)]
          /\ \A r \in 1..L : ss[at[r]] = <<a[r]>>
          /\ \A r, s \in 1..L : r < s => at[r] < at[s]
          /\ \A j \in 1..(k - 1) : ss[j] # <<>> => \E r \in 1..L : at[r] = j
      BY <2>1 DEF Single
    <2>20. L \in Nat
      BY <2>2
    <2> HIDE DEF a, b, L
    <2>4. CASE ss[k] = <<>>
      <3>1. b = a /\ Len(b) = L
        BY <2>2, <2>4 DEF L
      <3>2. at \in [1..Len(b) -> 1..k]
        <4>1. 1..(k - 1) \subseteq 1..k
          OBVIOUS
        <4> QED BY <2>3, <3>1, <4>1
      <3>3. \A j \in 1..k : ss[j] # <<>> => \E r \in 1..Len(b) : at[r] = j
        <4> SUFFICES ASSUME NEW j \in 1..k, ss[j] # <<>> PROVE \E r \in 1..Len(b) : at[r] = j
          OBVIOUS
        <4>0. j # k
          BY <2>4
        <4>1. j \in 1..(k - 1)
          BY <2>2, <4>0
        <4>2. PICK r \in 1..L : at[r] = j
          BY <2>3, <4>1
        <4> QED BY <3>1, <4>2
      <3>4. Single(h, ss, k, at)
        BY <2>3, <3>1, <3>2, <3>3 DEF Single, b
      <3> QED BY <3>4
    <2>5. ASSUME NEW v \in V, ss[k] = <<v>> PROVE k \in Good
      <3> DEFINE new == [r \in 1..(L + 1) |-> IF r = L + 1 THEN k ELSE at[r]]
      <3>0. Len(b) = L + 1
        BY <2>2, <2>5 DEF L
      <3>1. b[L + 1] = v /\ \A r \in 1..L : b[r] = a[r]
        BY <2>2, <2>5 DEF L
      <3>2. new[L + 1] = k /\ \A r \in 1..L : new[r] = at[r]
        BY <2>20
      <3>3. new \in [1..Len(b) -> 1..k]
        <4> SUFFICES ASSUME NEW r \in 1..(L + 1) PROVE new[r] \in 1..k
          BY <3>0
        <4>1. r # L + 1 => r \in 1..L
          BY <2>20
        <4>2. r \in 1..L => at[r] \in 1..(k - 1)
          BY <2>3
        <4>3. r # L + 1 => new[r] \in 1..(k - 1)
          BY <3>2, <4>1, <4>2
        <4> HIDE DEF new
        <4>4. k \in 1..k /\ 1..(k - 1) \subseteq 1..k
          OBVIOUS
        <4> QED BY <3>2, <4>3, <4>4
      <3> HIDE DEF new
      <3>4. \A r \in 1..Len(b) : ss[new[r]] = <<b[r]>>
        <4> TAKE r \in 1..Len(b)
        <4>1. CASE r = L + 1
          BY <2>5, <3>1, <3>2, <4>1
        <4>2. CASE r # L + 1
          <5>1. r \in 1..L
            BY <2>20, <3>0, <4>2
          <5> QED BY <2>3, <3>1, <3>2, <5>1
        <4> QED BY <4>1, <4>2
      <3>5. \A r, s \in 1..Len(b) : r < s => new[r] < new[s]
        <4> SUFFICES ASSUME NEW r \in 1..Len(b), NEW s \in 1..Len(b), r < s PROVE new[r] < new[s]
          OBVIOUS
        <4>1. r \in 1..L
          BY <2>20, <3>0
        <4>2. new[r] = at[r] /\ at[r] \in 1..(k - 1)
          BY <2>3, <3>2, <4>1
        <4>3. CASE s = L + 1
          <5>1. new[s] = k /\ at[r] < k
            BY <2>2, <3>2, <4>2, <4>3
          <5> QED BY <4>2, <5>1
        <4>4. CASE s # L + 1
          <5>1. s \in 1..L
            BY <2>20, <3>0, <4>4
          <5> QED BY <2>3, <3>2, <4>1, <5>1
        <4> QED BY <4>3, <4>4
      <3>6. \A j \in 1..k : ss[j] # <<>> => \E r \in 1..Len(b) : new[r] = j
        <4> SUFFICES ASSUME NEW j \in 1..k, ss[j] # <<>> PROVE \E r \in 1..Len(b) : new[r] = j
          OBVIOUS
        <4>1. CASE j = k
          <5>1. L + 1 \in 1..Len(b)
            BY <2>20, <3>0
          <5> QED BY <3>2, <4>1, <5>1
        <4>2. CASE j # k
          <5>1. j \in 1..(k - 1)
            BY <2>2, <4>2
          <5>2. PICK r \in 1..L : at[r] = j
            BY <2>3, <5>1
          <5>3. r \in 1..Len(b)
            BY <2>20, <3>0
          <5> QED BY <3>2, <5>2, <5>3
        <4> QED BY <4>1, <4>2
      <3>7. Single(h, ss, k, new)
        BY <3>3, <3>4, <3>5, <3>6 DEF Single, b
      <3>8. k \in 0..n
        OBVIOUS
      <3> QED BY <3>7, <3>8
    <2> QED BY <2>4, <2>5
  <1> HIDE DEF Good
  <1>3. \A k \in 0..n : k \in Good
    BY <1>1, <1>2, UpTo
  <1>4. n \in 0..n
    OBVIOUS
  <1> QED BY <1>3, <1>4 DEF Good

\* Places in a linear order of 1..n, L holding the pairs in that order.
Orders(L, n) ==
  /\ \A j, k \in 1..n : <<j, k>> \in L \/ <<k, j>> \in L
  /\ \A j, k \in 1..n : <<j, k>> \in L /\ <<k, j>> \in L => j = k
  /\ \A i, j, k \in 1..n : <<i, j>> \in L /\ <<j, k>> \in L => <<i, k>> \in L
Places(place, L, n) == place = [k \in 1..n |-> Cardinality({j \in 1..n : <<j, k>> \in L})]

LEMMA PlacesAre ==
  ASSUME NEW n \in Nat, NEW L, Orders(L, n), NEW place, Places(place, L, n)
  PROVE  /\ place \in [1..n -> 1..n]
         /\ \A j, k \in 1..n : place[j] <= place[k] <=> <<j, k>> \in L
         /\ \A j, k \in 1..n : place[j] = place[k] => j = k
         /\ \A r \in 1..n : \E k \in 1..n : place[k] = r
  <1> DEFINE Upto(k) == {j \in 1..n : <<j, k>> \in L}
  <1>1. IsFiniteSet(1..n) /\ Cardinality(1..n) = n
    BY FS_Interval
  <1>2. ASSUME NEW k \in 1..n
        PROVE  /\ IsFiniteSet(Upto(k)) /\ Cardinality(Upto(k)) \in Nat /\ Cardinality(Upto(k)) <= n
               /\ Cardinality(Upto(k)) # 0 /\ place[k] = Cardinality(Upto(k)) /\ k \in Upto(k)
    <2>1. k \in Upto(k)
      BY DEF Orders
    <2>2. Upto(k) \in SUBSET (1..n)
      OBVIOUS
    <2>3. place[k] = Cardinality(Upto(k))
      BY DEF Places
    <2> HIDE DEF Upto
    <2>4. IsFiniteSet(Upto(k)) /\ Cardinality(Upto(k)) <= n
      BY <1>1, <2>2, FS_Subset
    <2>5. Cardinality(Upto(k)) \in Nat /\ Cardinality(Upto(k)) # 0
      BY <2>1, <2>4, FS_CardinalityType, FS_EmptySet
    <2> QED BY <2>1, <2>3, <2>4, <2>5
  <1>3. place \in [1..n -> 1..n]
    <2>1. ASSUME NEW k \in 1..n PROVE place[k] \in 1..n
      <3> DEFINE m == Cardinality(Upto(k))
      <3>1. m \in Nat /\ m <= n /\ m # 0 /\ place[k] = m
        BY <1>2
      <3> HIDE DEF m
      <3> QED BY <3>1
    <2>2. place = [k \in 1..n |-> place[k]]
      BY DEF Places
    <2> QED BY <2>1, <2>2
  <1>4. ASSUME NEW j \in 1..n, NEW k \in 1..n, <<j, k>> \in L, j # k PROVE place[j] < place[k]
    <2>1. Upto(j) \in SUBSET Upto(k)
      BY <1>4 DEF Orders
    <2>2. k \in Upto(k) /\ k \notin Upto(j)
      <3>1. <<k, j>> \notin L
        BY <1>4 DEF Orders
      <3> QED BY <1>2, <3>1
    <2> HIDE DEF Upto
    <2>3. Cardinality(Upto(j)) <= Cardinality(Upto(k)) /\ Cardinality(Upto(j)) # Cardinality(Upto(k))
      BY <1>2, <2>1, <2>2, FS_Subset
    <2> QED BY <1>2, <2>3
  <1>5. \A j, k \in 1..n : place[j] <= place[k] <=> <<j, k>> \in L
    <2> SUFFICES ASSUME NEW j \in 1..n, NEW k \in 1..n PROVE place[j] <= place[k] <=> <<j, k>> \in L
      OBVIOUS
    <2>1. place[j] \in Nat /\ place[k] \in Nat
      BY <1>3
    <2>2. CASE j = k
      <3>1. <<j, k>> \in L
        BY <2>2 DEF Orders
      <3> QED BY <2>1, <2>2, <3>1
    <2>3. CASE j # k /\ <<j, k>> \in L
      BY <1>4, <2>1, <2>3
    <2>4. CASE j # k /\ <<j, k>> \notin L
      <3>1. <<k, j>> \in L
        BY <2>4 DEF Orders
      <3>2. place[k] < place[j]
        BY <1>4, <2>4, <3>1
      <3> QED BY <2>1, <2>4, <3>2
    <2> QED BY <2>2, <2>3, <2>4
  <1>6. \A j, k \in 1..n : place[j] = place[k] => j = k
    <2> SUFFICES ASSUME NEW j \in 1..n, NEW k \in 1..n, place[j] = place[k] PROVE j = k
      OBVIOUS
    <2>1. place[j] <= place[k] /\ place[k] <= place[j]
      BY <1>3
    <2>2. <<j, k>> \in L /\ <<k, j>> \in L
      BY <1>5, <2>1
    <2> QED BY <2>2 DEF Orders
  <1>7. place \in Surjection(1..n, 1..n)
    <2>1. place \in Injection(1..n, 1..n)
      BY <1>3, <1>6 DEF Injection, IsInjective
    <2> QED BY <1>1, <2>1, FS_Injection
  <1>8. \A r \in 1..n : \E k \in 1..n : place[k] = r
    BY <1>7 DEF Surjection
  <1> QED BY <1>3, <1>5, <1>6, <1>8

-----------------------------------------------------------------------------
(* Financing options.                                                       *)

LEMMA SameFlattenP ==
  ASSUME NEW s
  PROVE  P!FlattenSeq(s) = FlattenSeq(s)
  BY DEF P!FlattenSeq, FlattenSeq

Offer(o) == o.cost \in Nat /\ o.unlock \in Int

LEMMA CostIs ==
  ASSUME NEW a \in Nat, NEW t \in Int
  PROVE  P!QuoteCost(a, t) \in Nat
  <1> DEFINE n == a * 18 * P!AtLeastOne(t)
             q == n \div 36500
  <1>1. P!AtLeastOne(t) \in Nat
    BY DEF P!AtLeastOne
  <1>2. n \in Nat
    BY <1>1
  <1>3. P!QuoteCost(a, t) = q \/ P!QuoteCost(a, t) = q + 1
    BY SMT DEF P!QuoteCost, P!RoundHalfEven
  <1>4. q \in Nat
    <2> HIDE DEF n
    <2> QED BY SMT, <1>2
  <1> HIDE DEF q
  <1> QED BY <1>3, <1>4

\* An option is none or one, of its invoice, whose amount it splits.
LEMMA OptionIs ==
  ASSUME NEW i, NEW late, IsOwed(i, late)
  PROVE  LET os == P!OptionOf(i, late[i.client]) IN
         os = <<>> \/ \E o : /\ os = <<o>>
                            /\ o.invoice = i.id /\ o.unlock + o.cost = i.amount /\ o.cost >= 0
                            /\ o.cost \in Nat /\ o.unlock \in Int
  <1> DEFINE l == late[i.client]
             os == P!OptionOf(i, l)
             t == P!DaysToCash(i, l)
             c == P!QuoteCost(i.amount, t)
             o1 == [kind |-> "treds", invoice |-> i.id, cost |-> c, unlock |-> i.amount - c]
             o2 == [kind |-> "collect", invoice |-> i.id, cost |-> 0, unlock |-> i.amount]
  <1>1. i.amount \in Nat
    BY DEF IsOwed
  <1>2. t \in Int
    <2>1. i.due \in Int /\ (l = NoHistory \/ l \in Int)
      BY DEF IsOwed
    <2>2. P!Delay(l) \in Int
      <3>1. 7 * 10 \in Int
        BY SMT
      <3> HIDE DEF l
      <3> QED BY <2>1, <3>1 DEF P!Delay, P!DEFAULT_PAY_DELAY, P!TENTHS
    <2> DEFINE x == i.due + P!Delay(l)
    <2>3. x \in Int /\ t = x \div 10
      BY <2>1, <2>2 DEF P!DaysToCash, P!Days, P!TENTHS
    <2> HIDE DEF x, t
    <2> QED BY SMT, <2>3
  <1>3. c \in Nat
    BY <1>1, <1>2, CostIs
  <1>4. os = <<o1>> \/ os = <<o2>> \/ os = <<>>
    BY DEF P!OptionOf
  <1>5. o1.invoice = i.id /\ o1.cost = c /\ o1.unlock = i.amount - c
        /\ o2.invoice = i.id /\ o2.cost = 0 /\ o2.unlock = i.amount
    OBVIOUS
  <1> HIDE DEF os, o1, o2, c
  <1>6. CASE os = <<o1>>
    <2>1. o1.invoice = i.id /\ o1.unlock + o1.cost = i.amount /\ o1.cost >= 0 /\ o1.cost \in Nat /\ o1.unlock \in Int
      BY <1>1, <1>3, <1>5
    <2> QED BY <1>6, <2>1 DEF os
  <1>7. CASE os = <<o2>>
    <2>1. o2.invoice = i.id /\ o2.unlock + o2.cost = i.amount /\ o2.cost >= 0 /\ o2.cost \in Nat /\ o2.unlock \in Int
      BY <1>1, <1>5
    <2> QED BY <1>7, <2>1 DEF os
  <1> QED BY <1>4, <1>6, <1>7 DEF os

\* Cross products order as the ratios do.
LEMMA RatiosOrder ==
  ASSUME NEW a \in Int, NEW b \in Int, NEW c \in Int,
         NEW x \in Nat \ {0}, NEW y \in Nat \ {0}, NEW z \in Nat \ {0}, a * y <= b * x, b * z <= c * y
  PROVE  /\ a * z <= c * x
         /\ a * y < b * x \/ b * z < c * y => a * z < c * x
  <1> DEFINE p == a * y
             q == b * x
             r == b * z
             s == c * y
             t == a * z
             u == c * x
  <1>1. p \in Int /\ q \in Int /\ r \in Int /\ s \in Int /\ t \in Int /\ u \in Int
    OBVIOUS
  <1>2. t * y = p * z /\ q * z = r * x /\ s * x = u * y
    OBVIOUS
  <1>3. p <= q /\ r <= s
    OBVIOUS
  <1> HIDE DEF p, q, r, s, t, u
  <1>4. p * z <= q * z /\ r * x <= s * x
    BY <1>1, <1>3
  <1>5. (p < q => p * z < q * z) /\ (r < s => r * x < s * x)
    BY <1>1
  <1>6. p * z \in Int /\ q * z \in Int /\ r * x \in Int /\ s * x \in Int /\ t * y \in Int /\ u * y \in Int
    BY <1>1
  <1>7. t * y <= u * y /\ (p < q \/ r < s => t * y < u * y)
    BY <1>2, <1>4, <1>5, <1>6
  <1>8. t > u => t * y > u * y
    BY <1>1
  <1>9. t = u => t * y = u * y
    OBVIOUS
  <1>10. t <= u /\ (p < q \/ r < s => t < u)
    BY <1>1, <1>6, <1>7, <1>8, <1>9
  <1> QED BY <1>10 DEF p, q, r, s, t, u

AtLeast(o) == P!AtLeastOne(o.unlock)
\* a comes before b, in one of their two orders or both.
NotWorse(a, b) ==
  \/ a.cost * AtLeast(b) < b.cost * AtLeast(a)
  \/ a.cost * AtLeast(b) = b.cost * AtLeast(a) /\ a.unlock >= b.unlock

LEMMA BetterIs ==
  ASSUME NEW a, NEW b, Offer(a), Offer(b)
  PROVE  /\ AtLeast(a) \in Nat \ {0} /\ AtLeast(b) \in Nat \ {0}
         /\ a.cost * AtLeast(b) \in Int /\ b.cost * AtLeast(a) \in Int
         /\ ~P!Better(b, a) <=> NotWorse(a, b)
         /\ P!Better(a, b) <=> ~NotWorse(b, a)
         /\ NotWorse(a, b) \/ NotWorse(b, a)
         /\ NotWorse(a, b) => a.cost * AtLeast(b) <= b.cost * AtLeast(a)
  <1>1. a.cost \in Nat /\ a.unlock \in Int /\ b.cost \in Nat /\ b.unlock \in Int
    BY DEF Offer
  <1>2. AtLeast(a) \in Nat \ {0} /\ AtLeast(b) \in Nat \ {0}
    BY <1>1 DEF AtLeast, P!AtLeastOne
  <1> DEFINE p == a.cost * AtLeast(b)
             q == b.cost * AtLeast(a)
  <1>3. p \in Int /\ q \in Int
    BY <1>1, <1>2
  <1>4. /\ P!Better(b, a) <=> (q < p \/ (q = p /\ b.unlock > a.unlock))
        /\ P!Better(a, b) <=> (p < q \/ (p = q /\ a.unlock > b.unlock))
    BY DEF P!Better, AtLeast
  <1>5. /\ NotWorse(a, b) <=> (p < q \/ (p = q /\ a.unlock >= b.unlock))
        /\ NotWorse(b, a) <=> (q < p \/ (q = p /\ b.unlock >= a.unlock))
    BY DEF NotWorse
  <1> HIDE DEF p, q
  <1>6. /\ ~P!Better(b, a) <=> NotWorse(a, b)
        /\ P!Better(a, b) <=> ~NotWorse(b, a)
        /\ NotWorse(a, b) \/ NotWorse(b, a)
        /\ NotWorse(a, b) => p <= q
    BY <1>1, <1>3, <1>4, <1>5
  <1> QED BY <1>2, <1>3, <1>6 DEF p, q

LEMMA NotWorseGoesOn ==
  ASSUME NEW a, NEW b, NEW c, Offer(a), Offer(b), Offer(c), NotWorse(a, b), NotWorse(b, c)
  PROVE  NotWorse(a, c) /\ (~NotWorse(b, a) \/ ~NotWorse(c, b) => ~NotWorse(c, a))
  <1> DEFINE x == AtLeast(a)
             y == AtLeast(b)
             z == AtLeast(c)
             k == a.cost
             l == b.cost
             m == c.cost
  <1>1. k \in Int /\ l \in Int /\ m \in Int /\ a.unlock \in Int /\ b.unlock \in Int /\ c.unlock \in Int
    BY DEF Offer
  <1>2. x \in Nat \ {0} /\ y \in Nat \ {0} /\ z \in Nat \ {0}
    BY BetterIs
  <1>3. /\ NotWorse(a, b) <=> (k * y < l * x \/ (k * y = l * x /\ a.unlock >= b.unlock))
        /\ NotWorse(b, c) <=> (l * z < m * y \/ (l * z = m * y /\ b.unlock >= c.unlock))
        /\ NotWorse(a, c) <=> (k * z < m * x \/ (k * z = m * x /\ a.unlock >= c.unlock))
        /\ NotWorse(b, a) <=> (l * x < k * y \/ (l * x = k * y /\ b.unlock >= a.unlock))
        /\ NotWorse(c, b) <=> (m * y < l * z \/ (m * y = l * z /\ c.unlock >= b.unlock))
        /\ NotWorse(c, a) <=> (m * x < k * z \/ (m * x = k * z /\ c.unlock >= a.unlock))
    BY DEF NotWorse
  <1> HIDE DEF x, y, z, k, l, m
  <1>4. k * y \in Int /\ l * x \in Int /\ l * z \in Int /\ m * y \in Int /\ k * z \in Int /\ m * x \in Int
    BY <1>1, <1>2
  <1>5. k * y <= l * x /\ l * z <= m * y
    BY <1>1, <1>3, <1>4
  <1>6. k * z <= m * x /\ (k * y < l * x \/ l * z < m * y => k * z < m * x)
    BY <1>1, <1>2, <1>5, RatiosOrder
  <1> DEFINE ky == k * y
             lx == l * x
             lz == l * z
             my == m * y
             kz == k * z
             mx == m * x
  <1>7. ky \in Int /\ lx \in Int /\ lz \in Int /\ my \in Int /\ kz \in Int /\ mx \in Int
        /\ kz <= mx /\ (ky < lx \/ lz < my => kz < mx)
    BY <1>4, <1>6
  <1>8. /\ ky < lx \/ (ky = lx /\ a.unlock >= b.unlock)
        /\ lz < my \/ (lz = my /\ b.unlock >= c.unlock)
        /\ NotWorse(a, c) <=> (kz < mx \/ (kz = mx /\ a.unlock >= c.unlock))
        /\ NotWorse(b, a) <=> (lx < ky \/ (lx = ky /\ b.unlock >= a.unlock))
        /\ NotWorse(c, b) <=> (my < lz \/ (my = lz /\ c.unlock >= b.unlock))
        /\ NotWorse(c, a) <=> (mx < kz \/ (mx = kz /\ c.unlock >= a.unlock))
    BY <1>3
  <1> HIDE DEF ky, lx, lz, my, kz, mx
  <1> QED BY <1>1, <1>7, <1>8

-----------------------------------------------------------------------------
LEMMA SameCountP ==
  ASSUME NEW s
  PROVE  P!Cardinality(s) = Cardinality(s)
  BY DEF P!Cardinality, Cardinality

\* The options ranked are the options, each once, none before a better one.
InTurn(by, o, n) ==
  /\ by \in [1..n -> 1..n]
  /\ \A r, s \in 1..n : by[r] = by[s] => r = s
  /\ \A r, s \in 1..n : r < s => NotWorse(o[by[r]], o[by[s]])

Comes(o, j, k) == P!Better(o[j], o[k]) \/ (~P!Better(o[k], o[j]) /\ j <= k)

LEMMA ComesIs ==
  ASSUME NEW n \in Nat, NEW o, \A k \in 1..n : Offer(o[k])
  PROVE  LET L == {p \in (1..n) \X (1..n) : Comes(o, p[1], p[2])} IN
         /\ Orders(L, n)
         /\ \A j, k \in 1..n : <<j, k>> \in L => NotWorse(o[j], o[k])
         /\ \A j, k \in 1..n : <<j, k>> \in L <=> Comes(o, j, k)
  <1> DEFINE L == {p \in (1..n) \X (1..n) : Comes(o, p[1], p[2])}
  <1>1. \A j, k \in 1..n : <<j, k>> \in L <=> Comes(o, j, k)
    OBVIOUS
  <1>2. ASSUME NEW j \in 1..n, NEW k \in 1..n
        PROVE  /\ Comes(o, j, k) <=> (~NotWorse(o[k], o[j]) \/ (NotWorse(o[j], o[k]) /\ j <= k))
               /\ NotWorse(o[j], o[k]) \/ NotWorse(o[k], o[j])
    BY BetterIs DEF Comes
  <1>3. ASSUME NEW i \in 1..n, NEW j \in 1..n, NEW k \in 1..n, NotWorse(o[i], o[j]), NotWorse(o[j], o[k])
        PROVE  NotWorse(o[i], o[k]) /\ (~NotWorse(o[j], o[i]) \/ ~NotWorse(o[k], o[j]) => ~NotWorse(o[k], o[i]))
    <2>1. Offer(o[i]) /\ Offer(o[j]) /\ Offer(o[k])
      OBVIOUS
    <2> QED BY <1>3, <2>1, NotWorseGoesOn
  <1> HIDE DEF L
  <1>4. \A j, k \in 1..n : <<j, k>> \in L => NotWorse(o[j], o[k])
    <2> SUFFICES ASSUME NEW j \in 1..n, NEW k \in 1..n, <<j, k>> \in L PROVE NotWorse(o[j], o[k])
      OBVIOUS
    <2>1. Comes(o, j, k)
      BY <1>1
    <2>2. ~NotWorse(o[k], o[j]) \/ (NotWorse(o[j], o[k]) /\ j <= k)
      BY <1>2, <2>1
    <2> QED BY <1>2, <2>2
  <1>5. \A j, k \in 1..n : <<j, k>> \in L \/ <<k, j>> \in L
    <2> SUFFICES ASSUME NEW j \in 1..n, NEW k \in 1..n PROVE <<j, k>> \in L \/ <<k, j>> \in L
      OBVIOUS
    <2>1. Comes(o, j, k) \/ Comes(o, k, j)
      <3>1. Comes(o, j, k) <=> (~NotWorse(o[k], o[j]) \/ (NotWorse(o[j], o[k]) /\ j <= k))
        BY <1>2
      <3>2. Comes(o, k, j) <=> (~NotWorse(o[j], o[k]) \/ (NotWorse(o[k], o[j]) /\ k <= j))
        BY <1>2
      <3> QED BY <3>1, <3>2
    <2> QED BY <1>1, <2>1
  <1>6. \A j, k \in 1..n : <<j, k>> \in L /\ <<k, j>> \in L => j = k
    BY <1>1, <1>2
  <1>7. ASSUME NEW i \in 1..n, NEW j \in 1..n, NEW k \in 1..n, <<i, j>> \in L, <<j, k>> \in L
        PROVE  <<i, k>> \in L
    <2>1. NotWorse(o[i], o[j]) /\ NotWorse(o[j], o[k])
      BY <1>4, <1>7
    <2>2. NotWorse(o[i], o[k]) /\ (~NotWorse(o[j], o[i]) \/ ~NotWorse(o[k], o[j]) => ~NotWorse(o[k], o[i]))
      BY <1>3, <2>1
    <2>3. /\ ~NotWorse(o[j], o[i]) \/ (NotWorse(o[i], o[j]) /\ i <= j)
          /\ ~NotWorse(o[k], o[j]) \/ (NotWorse(o[j], o[k]) /\ j <= k)
      BY <1>1, <1>2, <1>7
    <2>4. ~NotWorse(o[k], o[i]) \/ (NotWorse(o[i], o[k]) /\ i <= k)
      BY <2>2, <2>3
    <2> QED BY <1>1, <1>2, <2>4
  <1> QED BY <1>1, <1>4, <1>5, <1>6, <1>7 DEF Orders, L

Ordering(place, L, n) == n \in Nat /\ Orders(L, n) /\ Places(place, L, n)
Placing(place, L, n) ==
  /\ place \in [1..n -> 1..n]
  /\ \A j, k \in 1..n : place[j] <= place[k] <=> <<j, k>> \in L
  /\ \A j, k \in 1..n : place[j] = place[k] => j = k
  /\ \A r \in 1..n : \E k \in 1..n : place[k] = r
LEMMA PlacesOf ==
  ASSUME NEW place, NEW L, NEW n, Ordering(place, L, n)
  PROVE  Placing(place, L, n)
  BY PlacesAre DEF Ordering, Placing

LEMMA RankedIs ==
  ASSUME NEW n \in Nat, NEW o, DOMAIN o = 1..n, \A k \in 1..n : Offer(o[k])
  PROVE  \E by : InTurn(by, o, n) /\ P!Ranked(o) = [r \in 1..n |-> o[by[r]]]
  <1> DEFINE L == {p \in (1..n) \X (1..n) : Comes(o, p[1], p[2])}
             place == [k \in 1..n |-> Cardinality({j \in 1..n : <<j, k>> \in L})]
             by == [r \in 1..n |-> CHOOSE k \in 1..n : place[k] = r]
  <1>1. /\ Orders(L, n)
        /\ \A j, k \in 1..n : <<j, k>> \in L => NotWorse(o[j], o[k])
        /\ \A j, k \in 1..n : <<j, k>> \in L <=> Comes(o, j, k)
    BY ComesIs
  <1> HIDE DEF L
  <1>2. Places(place, L, n)
    BY DEF Places
  <1>3. \A k \in 1..n : place[k] = Cardinality({j \in 1..n : <<j, k>> \in L})
    OBVIOUS
  <1> HIDE DEF place
  <1>4. /\ place \in [1..n -> 1..n]
        /\ \A j, k \in 1..n : place[j] <= place[k] <=> <<j, k>> \in L
        /\ \A j, k \in 1..n : place[j] = place[k] => j = k
        /\ \A r \in 1..n : \E k \in 1..n : place[k] = r
    <2>1. Ordering(place, L, n)
      BY <1>1, <1>2 DEF Ordering
    <2> QED BY <2>1, PlacesOf DEF Placing
  <1>5. \A r \in 1..n : by[r] \in 1..n /\ place[by[r]] = r
    BY <1>4
  <1>6. \A k \in 1..n : P!Cardinality({j \in 1..n : P!Better(o[j], o[k]) \/ (~P!Better(o[k], o[j]) /\ j <= k)}) = place[k]
    <2> TAKE k \in 1..n
    <2>1. {j \in 1..n : P!Better(o[j], o[k]) \/ (~P!Better(o[k], o[j]) /\ j <= k)} = {j \in 1..n : <<j, k>> \in L}
      BY <1>1 DEF Comes
    <2> QED BY <1>3, <2>1, SameCountP
  <1>7. P!Ranked(o) = [r \in 1..n |-> o[by[r]]]
    <2> DEFINE rank(k) == P!Cardinality({j \in 1..n : P!Better(o[j], o[k]) \/ (~P!Better(o[k], o[j]) /\ j <= k)})
    <2>1. P!Ranked(o) = [r \in 1..n |-> o[CHOOSE k \in 1..n : rank(k) = r]]
      BY DEF P!Ranked
    <2>2. \A k \in 1..n : rank(k) = place[k]
      BY <1>6
    <2> HIDE DEF rank
    <2>3. \A r \in 1..n : (CHOOSE k \in 1..n : rank(k) = r) = (CHOOSE k \in 1..n : place[k] = r)
      BY <2>2
    <2> QED BY <2>1, <2>3
  <1>8. InTurn(by, o, n)
    <2>1. by \in [1..n -> 1..n]
      BY <1>5
    <2> HIDE DEF by
    <2>2. \A r, s \in 1..n : by[r] = by[s] => r = s
      BY <1>5
    <2>3. \A r, s \in 1..n : r < s => NotWorse(o[by[r]], o[by[s]])
      <3> SUFFICES ASSUME NEW r \in 1..n, NEW s \in 1..n, r < s PROVE NotWorse(o[by[r]], o[by[s]])
        OBVIOUS
      <3>1. by[r] \in 1..n /\ by[s] \in 1..n /\ place[by[r]] <= place[by[s]]
        BY <1>5
      <3>2. <<by[r], by[s]>> \in L
        BY <1>4, <3>1
      <3> QED BY <1>1, <3>1, <3>2
    <2> QED BY <2>1, <2>2, <2>3 DEF InTurn
  <1> HIDE DEF by
  <1> QED BY <1>7, <1>8

Offered(o, n) == n \in Nat /\ DOMAIN o = 1..n /\ \A k \in 1..n : Offer(o[k])
InOrder(o, n) == \E by : InTurn(by, o, n) /\ P!Ranked(o) = [r \in 1..n |-> o[by[r]]]
LEMMA RankedOf ==
  ASSUME NEW o, NEW n, Offered(o, n)
  PROVE  InOrder(o, n)
  BY RankedIs DEF Offered, InOrder

Pieces(V, n, ss) == n \in Nat /\ ss \in [1..n -> Seq(V)]
Joined(V, n, ss) == \E h \in [0..n -> Seq(V)] : Joins(h, ss, n) /\ FlattenSeq(ss) = h[n]
LEMMA FlattenOf ==
  ASSUME NEW V, NEW n, NEW ss, Pieces(V, n, ss)
  PROVE  Joined(V, n, ss)
  BY FlattenIs DEF Pieces, Joined

LEMMA RanksAre ==
  ASSUME NEW invoices, NEW late, invoices \in Seq({invoices[k] : k \in DOMAIN invoices}),
         \A k \in DOMAIN invoices : IsOwed(invoices[k], late),
         \A j, k \in DOMAIN invoices : invoices[j].id = invoices[k].id => j = k,
         NEW out, out = P!BuildOptions(invoices, late)
  PROVE  /\ \A r, s \in DOMAIN out : r < s => out[r].cost * P!AtLeastOne(out[s].unlock) <= out[s].cost * P!AtLeastOne(out[r].unlock)
         /\ \A r, s \in DOMAIN out : out[r].invoice = out[s].invoice => r = s
         /\ \A r \in DOMAIN out : \E i \in ToSet(invoices) :
              out[r].invoice = i.id /\ out[r].unlock + out[r].cost = i.amount /\ out[r].cost >= 0
  <1> DEFINE n == Len(invoices)
             OfRow(k) == P!OptionOf(invoices[k], late[invoices[k].client])
             ss == [k \in 1..n |-> OfRow(k)]
             Fits(o, k) == /\ o.invoice = invoices[k].id /\ o.unlock + o.cost = invoices[k].amount /\ o.cost >= 0
                           /\ o.cost \in Nat /\ o.unlock \in Int
             V == UNION {{ss[k][j] : j \in DOMAIN ss[k]} : k \in 1..n}
  <1>1. n \in Nat /\ DOMAIN invoices = 1..n
    OBVIOUS
  <1> HIDE DEF n
  <1>2. \A k \in 1..n : ss[k] = OfRow(k)
    OBVIOUS
  <1>3. ASSUME NEW k \in 1..n PROVE OfRow(k) = <<>> \/ \E o : OfRow(k) = <<o>> /\ Fits(o, k)
    <2>1. IsOwed(invoices[k], late)
      BY <1>1
    <2> QED BY <2>1, OptionIs
  <1> HIDE DEF OfRow, Fits
  <1>4. ASSUME NEW k \in 1..n PROVE ss[k] \in Seq(V) /\ (ss[k] = <<>> \/ \E v \in V : ss[k] = <<v>> /\ Fits(v, k))
    <2>1. CASE ss[k] = <<>>
      <3> HIDE DEF ss, V
      <3>1. <<>> \in Seq(V)
        OBVIOUS
      <3> QED BY <2>1, <3>1
    <2>2. ASSUME NEW o, ss[k] = <<o>>, Fits(o, k) PROVE o \in V
      <3>1. DOMAIN ss[k] = {1} /\ ss[k][1] = o
        BY <2>2
      <3> HIDE DEF ss
      <3> QED BY <3>1
    <2> HIDE DEF V
    <2>3. ASSUME NEW o, ss[k] = <<o>>, Fits(o, k) PROVE o \in V /\ ss[k] \in Seq(V)
      <3>1. o \in V
        BY <2>2, <2>3
      <3>2. <<o>> \in Seq(V)
        BY <3>1
      <3> QED BY <2>3, <3>1, <3>2
    <2>4. ss[k] = <<>> \/ \E o : ss[k] = <<o>> /\ Fits(o, k)
      BY <1>2, <1>3
    <2> HIDE DEF ss
    <2> QED BY <2>1, <2>3, <2>4
  <1>5. ss = [k \in 1..n |-> ss[k]]
    OBVIOUS
  <1>6. P!BuildOptions(invoices, late) = P!Ranked(FlattenSeq(ss))
    <2>1. P!BuildOptions(invoices, late) = P!Ranked(P!FlattenSeq(ss))
      BY <1>1 DEF P!BuildOptions, OfRow
    <2> QED BY <2>1, SameFlattenP
  <1> HIDE DEF ss, V
  <1>7. ss \in [1..n -> Seq(V)]
    BY <1>4, <1>5
  <1>8. PICK h \in [0..n -> Seq(V)] : Joins(h, ss, n) /\ FlattenSeq(ss) = h[n]
    <2>1. Pieces(V, n, ss)
      BY <1>1, <1>7 DEF Pieces
    <2> QED BY <2>1, FlattenOf DEF Joined
  <1>9. PICK at : Single(h, ss, n, at)
    <2>1. \A k \in 1..n : ss[k] = <<>> \/ \E v \in V : ss[k] = <<v>>
      BY <1>4
    <2> QED BY <1>1, <1>7, <1>8, <2>1, EachFromOne
  <1> DEFINE o == h[n]
             m == Len(o)
  <1>10. o \in Seq(V) /\ m \in Nat /\ DOMAIN o = 1..m
    <2>1. n \in 0..n
      BY <1>1
    <2>2. h[n] \in Seq(V)
      BY <2>1
    <2> QED BY <2>2
  <1>11. /\ at \in [1..m -> 1..n]
         /\ \A r \in 1..m : ss[at[r]] = <<o[r]>>
         /\ \A r, s \in 1..m : r < s => at[r] < at[s]
    BY <1>9 DEF Single
  <1> HIDE DEF o, m
  <1>12. \A r \in 1..m : at[r] \in 1..n /\ Fits(o[r], at[r])
    <2> TAKE r \in 1..m
    <2>1. at[r] \in 1..n /\ ss[at[r]] = <<o[r]>>
      BY <1>11
    <2>2. \E v \in V : ss[at[r]] = <<v>> /\ Fits(v, at[r])
      <3> DEFINE k == at[r]
      <3>1. k \in 1..n /\ ss[k] = <<o[r]>> /\ <<o[r]>> # <<>>
        BY <2>1
      <3> HIDE DEF k
      <3>2. \E v \in V : ss[k] = <<v>> /\ Fits(v, k)
        BY <1>4, <3>1
      <3> QED BY <3>2 DEF k
    <2>3. PICK v \in V : ss[at[r]] = <<v>> /\ Fits(v, at[r])
      BY <2>2
    <2>4. v = o[r]
      <3>1. <<v>> = <<o[r]>>
        BY <2>1, <2>3
      <3> QED BY <3>1
    <2> QED BY <2>1, <2>3, <2>4
  <1>13. \A r \in 1..m : Offer(o[r])
    BY <1>12 DEF Offer, Fits
  <1>14. PICK by : InTurn(by, o, m) /\ P!Ranked(o) = [r \in 1..m |-> o[by[r]]]
    <2>1. Offered(o, m)
      BY <1>10, <1>13 DEF Offered
    <2> QED BY <2>1, RankedOf DEF InOrder
  <1>15. out = [r \in 1..m |-> o[by[r]]]
    BY <1>6, <1>8, <1>14 DEF o
  <1>16. DOMAIN out = 1..m /\ \A r \in 1..m : out[r] = o[by[r]]
    BY <1>15
  <1>17. /\ \A r \in 1..m : by[r] \in 1..m
         /\ \A r, s \in 1..m : by[r] = by[s] => r = s
         /\ \A r, s \in 1..m : r < s => NotWorse(o[by[r]], o[by[s]])
    BY <1>14 DEF InTurn
  <1>18. ASSUME NEW r \in 1..m, NEW s \in 1..m, r < s
         PROVE  out[r].cost * P!AtLeastOne(out[s].unlock) <= out[s].cost * P!AtLeastOne(out[r].unlock)
    <2>1. Offer(out[r]) /\ Offer(out[s]) /\ NotWorse(out[r], out[s])
      BY <1>13, <1>16, <1>17, <1>18
    <2> QED BY <2>1, BetterIs DEF AtLeast
  <1>19. ASSUME NEW r \in 1..m, NEW s \in 1..m, out[r].invoice = out[s].invoice PROVE r = s
    <2>1. by[r] \in 1..m /\ by[s] \in 1..m
      BY <1>17
    <2>2. o[by[r]].invoice = invoices[at[by[r]]].id /\ o[by[s]].invoice = invoices[at[by[s]]].id
      BY <1>12, <2>1 DEF Fits
    <2>3. at[by[r]] = at[by[s]]
      <3>1. at[by[r]] \in DOMAIN invoices /\ at[by[s]] \in DOMAIN invoices
        BY <1>1, <1>12, <2>1
      <3> QED BY <1>16, <1>19, <2>2, <3>1
    <2>4. by[r] = by[s]
      <3> DEFINE a == by[r]
                 b == by[s]
      <3>1. a \in 1..m /\ b \in 1..m /\ at[a] = at[b] /\ at[a] \in Int
        BY <1>12, <2>1, <2>3
      <3> HIDE DEF a, b
      <3>2. ~(a < b) /\ ~(b < a)
        BY <1>11, <3>1
      <3>3. a = b
        BY <3>1, <3>2
      <3> QED BY <3>3 DEF a, b
    <2> QED BY <1>17, <2>4
  <1>20. ASSUME NEW r \in 1..m
         PROVE  \E i \in ToSet(invoices) : out[r].invoice = i.id /\ out[r].unlock + out[r].cost = i.amount /\ out[r].cost >= 0
    <2>1. by[r] \in 1..m
      BY <1>17
    <2>2. at[by[r]] \in 1..n /\ Fits(out[r], at[by[r]])
      BY <1>12, <1>16, <2>1
    <2>3. invoices[at[by[r]]] \in ToSet(invoices)
      BY <1>1, <2>2 DEF ToSet
    <2> QED BY <2>2, <2>3 DEF Fits
  <1> QED BY <1>16, <1>18, <1>19, <1>20

LEMMA OptionsAreInOrder ==
  ASSUME OptionsAreGiven, OptionsAnswered
  PROVE  OptionsAreRanked
  <1> SUFFICES ASSUME call = "options" PROVE OptionsAreRanked
    BY DEF OptionsAreRanked, Called
  <1>1. result = P!BuildOptions(input.invoices, input.late)
        /\ input.invoices \in Seq({input.invoices[k] : k \in DOMAIN input.invoices})
        /\ (\A k \in DOMAIN input.invoices : IsOwed(input.invoices[k], input.late))
        /\ \A j, k \in DOMAIN input.invoices : input.invoices[j].id = input.invoices[k].id => j = k
    BY DEF OptionsAnswered, OptionsAreGiven
  <1> QED BY <1>1, RanksAre DEF OptionsAreRanked

\* Whatever is owed and however late clients pay: interest compounds with
\* monthly rests, a forecast receives each invoice once or leaves it past the
\* horizon, the scenarios' bands are in order, the gap raised is the first, and
\* options are ranked by what unlocking a rupee costs.
THEOREM ProjectionsStaySound ==
  ASSUME InterestsAreGiven, ForecastsAreGiven, OptionsAreGiven
  PROVE  CallSpec => []ProjectionsSound
  <1>1. InterestAnswered /\ ForecastAnswered /\ OptionsAnswered => ProjectionsSound
    BY ForecastsAreSound, OptionsAreInOrder DEF ProjectionsSound
  <1> QED BY <1>1, InterestsAnswer, ForecastsAnswer, OptionsAnswer, PTL

-----------------------------------------------------------------------------
(* Files read line by line.                                                 *)

\* Where the lines of K give a row and the others are skipped.
Reads(f, n, K, row) ==
  f = [m \in 0..n |-> IF m = 0 THEN [rows |-> <<>>, skipped |-> 0]
                      ELSE IF m \in K THEN [f[m - 1] EXCEPT !.rows = Append(@, row[m])]
                      ELSE [f[m - 1] EXCEPT !.skipped = @ + 1]]
Given(n, K, row) == [k \in 1..n |-> IF k \in K THEN <<row[k]>> ELSE <<>>]

LEMMA GivenIs ==
  ASSUME NEW n \in Nat, NEW K, NEW row, NEW V, \A k \in 1..n : row[k] \in V
  PROVE  Pieces(V, n, Given(n, K, row))
  <1> DEFINE g == Given(n, K, row)
  <1>1. g = [k \in 1..n |-> g[k]] /\ \A k \in 1..n : g[k] = IF k \in K THEN <<row[k]>> ELSE <<>>
    BY DEF Given
  <1> HIDE DEF g
  <1>2. \A k \in 1..n : g[k] \in Seq(V)
    <2> TAKE k \in 1..n
    <2>1. <<row[k]>> \in Seq(V) /\ <<>> \in Seq(V)
      OBVIOUS
    <2> QED BY <1>1, <2>1
  <1> QED BY <1>1, <1>2 DEF Pieces, g

\* What the loop has read after each line.
SoFar(h, n) == [m \in 0..n |-> [rows |-> h[m], skipped |-> m - Len(h[m])]]

LEMMA SoFarReads ==
  ASSUME NEW n \in Nat, NEW K, NEW row, NEW V, \A k \in 1..n : row[k] \in V,
         NEW h \in [0..n -> Seq(V)], Joins(h, Given(n, K, row), n)
  PROVE  Reads(SoFar(h, n), n, K, row)
  <1> DEFINE f == SoFar(h, n)
  <1>1. f = [m \in 0..n |-> f[m]] /\ \A m \in 0..n : f[m] = [rows |-> h[m], skipped |-> m - Len(h[m])]
    BY DEF SoFar
  <1>2. h[0] = <<>> /\ \A k \in 1..n : h[k] = h[k - 1] \o (IF k \in K THEN <<row[k]>> ELSE <<>>)
    BY DEF Joins, Given
  <1> HIDE DEF f
  <1>3. f[0] = [rows |-> <<>>, skipped |-> 0]
    <2>0. 0 \in 0..n
      OBVIOUS
    <2>1. 0 - Len(<<>>) = 0
      <3> DEFINE l == Len(<<>>)
      <3>1. l = 0
        OBVIOUS
      <3> HIDE DEF l
      <3>2. 0 - l = 0
        BY <3>1
      <3> QED BY <3>2 DEF l
    <2> QED BY <1>1, <1>2, <2>0, <2>1
  <1>4. ASSUME NEW m \in 1..n
        PROVE  f[m] = IF m \in K THEN [f[m - 1] EXCEPT !.rows = Append(@, row[m])]
                      ELSE [f[m - 1] EXCEPT !.skipped = @ + 1]
    <2> DEFINE a == h[m - 1]
               l == Len(a)
               b == h[m]
    <2>1. m \in 0..n /\ m - 1 \in 0..n /\ m \in Int
      OBVIOUS
    <2>2. a \in Seq(V) /\ b \in Seq(V) /\ row[m] \in V /\ b = a \o (IF m \in K THEN <<row[m]>> ELSE <<>>)
      BY <1>2, <2>1
    <2>3. f[m] = [rows |-> b, skipped |-> m - Len(b)] /\ f[m - 1] = [rows |-> a, skipped |-> (m - 1) - l]
      BY <1>1, <2>1
    <2> HIDE DEF a, b
    <2>4. l \in Nat
      BY <2>2
    <2>5. CASE m \in K
      <3>1. b = Append(a, row[m]) /\ Len(b) = l + 1
        BY <2>2, <2>5
      <3> HIDE DEF l
      <3>2. m - Len(b) = (m - 1) - l
        BY <2>1, <2>4, <3>1
      <3>3. [f[m - 1] EXCEPT !.rows = Append(@, row[m])] = [rows |-> Append(a, row[m]), skipped |-> (m - 1) - l]
        <4> DEFINE p == f[m - 1]
                   s == (m - 1) - l
                   v == row[m]
        <4>1. p = [rows |-> a, skipped |-> s]
          BY <2>3
        <4> HIDE DEF p, s, v
        <4>2. [p EXCEPT !.rows = Append(@, v)] = [rows |-> Append(a, v), skipped |-> s]
          <5>1. p.rows = a
            BY <4>1
          <5>2. [p EXCEPT !.rows = Append(@, v)] = [p EXCEPT !.rows = Append(a, v)]
            BY Zenon, <5>1
          <5> DEFINE w == Append(a, v)
          <5> HIDE DEF w
          <5>3. [p EXCEPT !.rows = w] = [rows |-> w, skipped |-> s]
            BY <4>1
          <5> QED BY <5>2, <5>3 DEF w
        <4> QED BY <4>2 DEF p, s, v
      <3> QED BY <2>3, <2>5, <3>1, <3>2, <3>3
    <2>6. CASE m \notin K
      <3>1. b = a /\ Len(b) = l
        BY <2>2, <2>6
      <3> HIDE DEF l
      <3>2. m - Len(b) = ((m - 1) - l) + 1
        BY <2>1, <2>4, <3>1
      <3>3. [f[m - 1] EXCEPT !.skipped = @ + 1] = [rows |-> a, skipped |-> ((m - 1) - l) + 1]
        BY <2>3
      <3> QED BY <2>3, <2>6, <3>1, <3>2, <3>3
    <2> QED BY <2>5, <2>6
  <1>5. ASSUME NEW m \in 0..n
        PROVE  f[m] = IF m = 0 THEN [rows |-> <<>>, skipped |-> 0]
                      ELSE IF m \in K THEN [f[m - 1] EXCEPT !.rows = Append(@, row[m])]
                      ELSE [f[m - 1] EXCEPT !.skipped = @ + 1]
    <2>1. CASE m = 0
      BY <1>3, <2>1
    <2>2. CASE m # 0
      <3>1. m \in 1..n
        BY <2>2
      <3> QED BY <1>4, <2>2, <3>1
    <2> QED BY <2>1, <2>2
  <1> QED BY <1>1, <1>5 DEF Reads, f

LEMMA ReadsOnce ==
  ASSUME NEW n \in Nat, NEW K, NEW row, NEW f, NEW g, Reads(f, n, K, row), Reads(g, n, K, row)
  PROVE  f[n] = g[n]
  <1> DEFINE Good == {m \in 0..n : f[m] = g[m]}
  <1>1. \A m \in 0..n : /\ f[m] = IF m = 0 THEN [rows |-> <<>>, skipped |-> 0]
                                  ELSE IF m \in K THEN [f[m - 1] EXCEPT !.rows = Append(@, row[m])]
                                  ELSE [f[m - 1] EXCEPT !.skipped = @ + 1]
                        /\ g[m] = IF m = 0 THEN [rows |-> <<>>, skipped |-> 0]
                                  ELSE IF m \in K THEN [g[m - 1] EXCEPT !.rows = Append(@, row[m])]
                                  ELSE [g[m - 1] EXCEPT !.skipped = @ + 1]
    BY Zenon DEF Reads
  <1>2. 0 \in Good
    <2>1. 0 \in 0..n
      OBVIOUS
    <2>2. f[0] = g[0]
      BY Zenon, <1>1, <2>1
    <2> QED BY <2>1, <2>2
  <1>3. ASSUME NEW m \in 1..n, m - 1 \in Good PROVE m \in Good
    <2>1. m \in 0..n /\ m # 0
      OBVIOUS
    <2>2. f[m - 1] = g[m - 1]
      BY <1>3
    <2>3. f[m] = g[m]
      BY Zenon, <1>1, <2>1, <2>2
    <2> QED BY <2>1, <2>3
  <1> HIDE DEF Good
  <1>4. \A m \in 0..n : m \in Good
    BY <1>2, <1>3, UpTo
  <1>5. n \in 0..n
    OBVIOUS
  <1> QED BY <1>4, <1>5 DEF Good

\* The loop reads what the lines give, and counts the others.
ReadIs(r, n, K, row) ==
  LET given == FlattenSeq(Given(n, K, row))
  IN  given \in Seq({row[k] : k \in 1..n}) /\ r = [rows |-> given, skipped |-> n - Len(given)]

LEMMA LoopIs ==
  ASSUME NEW n \in Nat, NEW K, NEW row
  PROVE  /\ \E f : Reads(f, n, K, row)
         /\ \A f : Reads(f, n, K, row) => ReadIs(f[n], n, K, row)
  <1> DEFINE V == {row[k] : k \in 1..n}
             ss == Given(n, K, row)
  <1>1. \A k \in 1..n : row[k] \in V
    OBVIOUS
  <1> HIDE DEF V
  <1>2. Pieces(V, n, ss)
    BY <1>1, GivenIs
  <1> HIDE DEF ss
  <1>3. PICK h \in [0..n -> Seq(V)] : Joins(h, ss, n) /\ FlattenSeq(ss) = h[n]
    BY <1>2, FlattenOf DEF Joined
  <1>4. Reads(SoFar(h, n), n, K, row)
    BY <1>1, <1>3, SoFarReads DEF ss
  <1>5. n \in 0..n
    OBVIOUS
  <1>6. SoFar(h, n)[n] = [rows |-> h[n], skipped |-> n - Len(h[n])] /\ h[n] \in Seq(V)
    BY <1>5 DEF SoFar
  <1>7. ASSUME NEW f, Reads(f, n, K, row) PROVE ReadIs(f[n], n, K, row)
    <2>1. f[n] = SoFar(h, n)[n]
      BY <1>4, <1>7, ReadsOnce
    <2> QED BY <1>3, <1>6, <2>1 DEF ReadIs, ss, V
  <1> QED BY <1>4, <1>7

KeptOfStatement(lines) == {k \in 1..Len(lines) : X!Kept(lines[k])}
RowsOfStatement(lines) == [k \in 1..Len(lines) |-> X!Movement(lines[k])]

LEMMA StatementRead ==
  ASSUME NEW lines, lines \in Seq({lines[k] : k \in DOMAIN lines})
  PROVE  ReadIs(X!ReadLines(lines, X!Kept, X!Movement), Len(lines), KeptOfStatement(lines), RowsOfStatement(lines))
  <1> DEFINE n == Len(lines)
             K == KeptOfStatement(lines)
             row == RowsOfStatement(lines)
             Loop(f) == [m \in 0..n |-> IF m = 0 THEN [rows |-> <<>>, skipped |-> 0]
                                        ELSE IF X!Kept(lines[m]) THEN [f[m - 1] EXCEPT !.rows = Append(@, X!Movement(lines[m]))]
                                        ELSE [f[m - 1] EXCEPT !.skipped = @ + 1]]
             Same(f) == [m \in 0..n |-> IF m = 0 THEN [rows |-> <<>>, skipped |-> 0]
                                        ELSE IF m \in K THEN [f[m - 1] EXCEPT !.rows = Append(@, row[m])]
                                        ELSE [f[m - 1] EXCEPT !.skipped = @ + 1]]
             g == CHOOSE f : f = Loop(f)
  <1>1. n \in Nat
    OBVIOUS
  <1>2. X!ReadLines(lines, X!Kept, X!Movement) = g[n]
    BY DEF X!ReadLines
  <1>3. \A k \in 1..n : (k \in K <=> X!Kept(lines[k])) /\ row[k] = X!Movement(lines[k])
    BY DEF KeptOfStatement, RowsOfStatement
  <1> HIDE DEF n, K, row
  <1>4. ASSUME NEW f PROVE Loop(f) = Same(f)
    <2>1. \A m \in 0..n : m # 0 => m \in 1..n
      BY <1>1
    <2>2. \A m \in 0..n : m # 0 => (m \in K <=> X!Kept(lines[m])) /\ row[m] = X!Movement(lines[m])
      BY <1>3, <2>1
    <2> QED BY Zenon, <2>2
  <1>5. \A f : Reads(f, n, K, row) <=> f = Same(f)
    BY DEF Reads
  <1> HIDE DEF Loop, Same
  <1>6. \A f : Reads(f, n, K, row) <=> f = Loop(f)
    BY <1>4, <1>5
  <1>7. (\E f : Reads(f, n, K, row)) /\ \A f : Reads(f, n, K, row) => ReadIs(f[n], n, K, row)
    BY <1>1, LoopIs
  <1>8. g = Loop(g)
    BY <1>6, <1>7
  <1> HIDE DEF g
  <1>9. ReadIs(g[n], n, K, row)
    BY <1>6, <1>7, <1>8
  <1> QED BY <1>2, <1>9 DEF n, K, row

KeptOfExport(lines) == {k \in 1..Len(lines) : X!KeptInvoice(lines[k])}
RowsOfExport(lines) == [k \in 1..Len(lines) |-> X!Invoice(lines[k])]

LEMMA ExportRead ==
  ASSUME NEW lines, lines \in Seq({lines[k] : k \in DOMAIN lines})
  PROVE  ReadIs(X!ReadLines(lines, X!KeptInvoice, X!Invoice), Len(lines), KeptOfExport(lines), RowsOfExport(lines))
  <1> DEFINE n == Len(lines)
             K == KeptOfExport(lines)
             row == RowsOfExport(lines)
             Loop(f) == [m \in 0..n |-> IF m = 0 THEN [rows |-> <<>>, skipped |-> 0]
                                        ELSE IF X!KeptInvoice(lines[m]) THEN [f[m - 1] EXCEPT !.rows = Append(@, X!Invoice(lines[m]))]
                                        ELSE [f[m - 1] EXCEPT !.skipped = @ + 1]]
             Same(f) == [m \in 0..n |-> IF m = 0 THEN [rows |-> <<>>, skipped |-> 0]
                                        ELSE IF m \in K THEN [f[m - 1] EXCEPT !.rows = Append(@, row[m])]
                                        ELSE [f[m - 1] EXCEPT !.skipped = @ + 1]]
             g == CHOOSE f : f = Loop(f)
  <1>1. n \in Nat
    OBVIOUS
  <1>2. X!ReadLines(lines, X!KeptInvoice, X!Invoice) = g[n]
    BY DEF X!ReadLines
  <1>3. \A k \in 1..n : (k \in K <=> X!KeptInvoice(lines[k])) /\ row[k] = X!Invoice(lines[k])
    BY DEF KeptOfExport, RowsOfExport
  <1> HIDE DEF n, K, row
  <1>4. ASSUME NEW f PROVE Loop(f) = Same(f)
    <2>1. \A m \in 0..n : m # 0 => m \in 1..n
      BY <1>1
    <2>2. \A m \in 0..n : m # 0 => (m \in K <=> X!KeptInvoice(lines[m])) /\ row[m] = X!Invoice(lines[m])
      BY <1>3, <2>1
    <2> QED BY Zenon, <2>2
  <1>5. \A f : Reads(f, n, K, row) <=> f = Same(f)
    BY DEF Reads
  <1> HIDE DEF Loop, Same
  <1>6. \A f : Reads(f, n, K, row) <=> f = Loop(f)
    BY <1>4, <1>5
  <1>7. (\E f : Reads(f, n, K, row)) /\ \A f : Reads(f, n, K, row) => ReadIs(f[n], n, K, row)
    BY <1>1, LoopIs
  <1>8. g = Loop(g)
    BY <1>6, <1>7
  <1> HIDE DEF g
  <1>9. ReadIs(g[n], n, K, row)
    BY <1>6, <1>7, <1>8
  <1> QED BY <1>2, <1>9 DEF n, K, row

\* A line alone.
LEMMA AloneIs ==
  ASSUME NEW r, NEW K, NEW row, ReadIs(r, 1, K, row)
  PROVE  r.rows = IF 1 \in K THEN <<row[1]>> ELSE <<>>
  <1> DEFINE V == {row[1]}
             ss == Given(1, K, row)
             one == IF 1 \in K THEN <<row[1]>> ELSE <<>>
  <1>1. \A k \in 1..1 : row[k] \in V
    OBVIOUS
  <1>2. ss[1] = one
    BY DEF Given
  <1> HIDE DEF V, ss
  <1>3. Pieces(V, 1, ss)
    BY <1>1, GivenIs DEF ss
  <1>4. PICK h \in [0..1 -> Seq(V)] : Joins(h, ss, 1) /\ FlattenSeq(ss) = h[1]
    BY <1>3, FlattenOf DEF Joined
  <1>5. h[0] = <<>> /\ h[1] = h[1 - 1] \o ss[1] /\ 1 - 1 = 0
    <2>1. 1 \in 1..1
      OBVIOUS
    <2> QED BY <1>4, <2>1 DEF Joins
  <1>6. ss[1] \in Seq(V)
    BY <1>3 DEF Pieces
  <1>7. h[1] = ss[1]
    BY <1>5, <1>6, NothingFirst
  <1>8. r.rows = h[1]
    BY <1>4 DEF ReadIs, ss
  <1> QED BY <1>2, <1>7, <1>8

\* What a parser makes of some lines costs each bad line itself only.
Costs(res, one, n, cut) ==
  /\ res = {} <=> cut \/ one = <<>>
  /\ \A r \in res : r.rows = one /\ Len(one) + r.skipped = n

LEMMA ReadCounts ==
  ASSUME NEW r, NEW n \in Nat, NEW K, NEW row, ReadIs(r, n, K, row)
  PROVE  r.rows = FlattenSeq(Given(n, K, row)) /\ Len(r.rows) + r.skipped = n
  <1> DEFINE given == FlattenSeq(Given(n, K, row))
             V == {row[k] : k \in 1..n}
             l == Len(given)
  <1>1. given \in Seq(V) /\ r = [rows |-> given, skipped |-> n - l]
    BY DEF ReadIs
  <1> HIDE DEF given, V
  <1>2. l \in Nat
    BY <1>1
  <1>3. r.rows = given /\ r.skipped = n - l /\ Len(r.rows) = l
    BY <1>1
  <1> HIDE DEF l
  <1> QED BY <1>2, <1>3 DEF given

OneRow(alone) == IF alone = {} THEN <<>> ELSE (CHOOSE r \in alone : TRUE).rows

LEMMA StatementAlone ==
  ASSUME NEW line, ~X!CutShort(line)
  PROVE  OneRow(X!ParseStatement(<<line>>)) = IF X!Kept(line) THEN <<X!Movement(line)>> ELSE <<>>
  <1> DEFINE lines == <<line>>
             read == X!ReadLines(lines, X!Kept, X!Movement)
             res == X!ParseStatement(lines)
  <1>1. lines \in Seq({lines[k] : k \in DOMAIN lines}) /\ Len(lines) = 1 /\ DOMAIN lines = {1} /\ lines[1] = line
    OBVIOUS
  <1> HIDE DEF lines
  <1>2. ReadIs(read, 1, KeptOfStatement(lines), RowsOfStatement(lines))
    BY <1>1, StatementRead
  <1>3. read.rows = IF 1 \in KeptOfStatement(lines) THEN <<RowsOfStatement(lines)[1]>> ELSE <<>>
    BY <1>2, AloneIs
  <1>4. (1 \in KeptOfStatement(lines) <=> X!Kept(line)) /\ RowsOfStatement(lines)[1] = X!Movement(line)
    BY <1>1 DEF KeptOfStatement, RowsOfStatement
  <1>5. ~\E k \in DOMAIN lines : X!CutShort(lines[k])
    BY <1>1
  <1>6. PICK r : res = (IF read.rows = <<>> THEN {} ELSE {r}) /\ r.rows = read.rows
    <2> DEFINE days == {t.date : t \in X!ToSet(read.rows)}
               r0 == [rows |-> read.rows, skipped |-> read.skipped, first |-> X!Min(days), last |-> X!Max(days)]
    <2>1. res = IF read.rows = <<>> \/ (\E k \in DOMAIN lines : X!CutShort(lines[k])) THEN {} ELSE {r0}
      BY Zenon DEF X!ParseStatement
    <2>2. r0.rows = read.rows /\ r0.skipped = read.skipped
      OBVIOUS
    <2> HIDE DEF read, res, days, r0
    <2> QED BY <1>5, <2>1, <2>2
  <1> HIDE DEF read, res
  <1>7. OneRow(res) = read.rows
    BY <1>6 DEF OneRow
  <1>8. read.rows = IF X!Kept(line) THEN <<X!Movement(line)>> ELSE <<>>
    BY <1>3, <1>4
  <1> QED BY <1>7, <1>8 DEF res, lines

LEMMA ExportAlone ==
  ASSUME NEW line
  PROVE  OneRow(X!ParseInvoiceExport(<<line>>)) = IF X!KeptInvoice(line) THEN <<X!Invoice(line)>> ELSE <<>>
  <1> DEFINE lines == <<line>>
             read == X!ReadLines(lines, X!KeptInvoice, X!Invoice)
             res == X!ParseInvoiceExport(lines)
  <1>1. lines \in Seq({lines[k] : k \in DOMAIN lines}) /\ Len(lines) = 1 /\ DOMAIN lines = {1} /\ lines[1] = line
    OBVIOUS
  <1> HIDE DEF lines
  <1>2. ReadIs(read, 1, KeptOfExport(lines), RowsOfExport(lines))
    BY <1>1, ExportRead
  <1>3. read.rows = IF 1 \in KeptOfExport(lines) THEN <<RowsOfExport(lines)[1]>> ELSE <<>>
    BY <1>2, AloneIs
  <1>4. (1 \in KeptOfExport(lines) <=> X!KeptInvoice(line)) /\ RowsOfExport(lines)[1] = X!Invoice(line)
    BY <1>1 DEF KeptOfExport, RowsOfExport
  <1>6. res = (IF read.rows = <<>> THEN {} ELSE {read})
    BY DEF X!ParseInvoiceExport, X!Invoices
  <1> HIDE DEF read, res
  <1>7. OneRow(res) = read.rows
    BY <1>6 DEF OneRow
  <1>8. read.rows = IF X!KeptInvoice(line) THEN <<X!Invoice(line)>> ELSE <<>>
    BY <1>3, <1>4
  <1> QED BY <1>7, <1>8 DEF res, lines

LEMMA StatementCosts ==
  ASSUME NEW lines, lines \in Seq({lines[k] : k \in DOMAIN lines})
  PROVE  Costs(X!ParseStatement(lines), FlattenSeq([k \in DOMAIN lines |-> OneRow(X!ParseStatement(<<lines[k]>>))]),
               Len(lines), \E k \in DOMAIN lines : X!CutShort(lines[k]))
  <1> DEFINE n == Len(lines)
             read == X!ReadLines(lines, X!Kept, X!Movement)
             res == X!ParseStatement(lines)
             cut == \E k \in DOMAIN lines : X!CutShort(lines[k])
             ones == [k \in DOMAIN lines |-> OneRow(X!ParseStatement(<<lines[k]>>))]
             given == Given(n, KeptOfStatement(lines), RowsOfStatement(lines))
  <1>1. n \in Nat /\ DOMAIN lines = 1..n
    OBVIOUS
  <1>2. ReadIs(read, n, KeptOfStatement(lines), RowsOfStatement(lines))
    BY StatementRead
  <1>3. read.rows = FlattenSeq(given) /\ Len(read.rows) + read.skipped = n
    BY <1>1, <1>2, ReadCounts
  <1>4. PICK r : /\ res = (IF read.rows = <<>> \/ cut THEN {} ELSE {r})
                 /\ r.rows = read.rows /\ r.skipped = read.skipped
    <2> DEFINE days == {t.date : t \in X!ToSet(read.rows)}
               r0 == [rows |-> read.rows, skipped |-> read.skipped, first |-> X!Min(days), last |-> X!Max(days)]
    <2>1. res = IF read.rows = <<>> \/ cut THEN {} ELSE {r0}
      BY Zenon DEF X!ParseStatement
    <2>2. r0.rows = read.rows /\ r0.skipped = read.skipped
      OBVIOUS
    <2> HIDE DEF read, res, days, r0
    <2> QED BY <2>1, <2>2
  <1>5. ASSUME ~cut PROVE ones = given
    <2>1. ASSUME NEW k \in 1..n
          PROVE  OneRow(X!ParseStatement(<<lines[k]>>)) =
                   IF k \in KeptOfStatement(lines) THEN <<RowsOfStatement(lines)[k]>> ELSE <<>>
      <3>1. ~X!CutShort(lines[k])
        BY <1>1, <1>5
      <3>2. (k \in KeptOfStatement(lines) <=> X!Kept(lines[k])) /\ RowsOfStatement(lines)[k] = X!Movement(lines[k])
        BY DEF KeptOfStatement, RowsOfStatement
      <3> QED BY <3>1, <3>2, StatementAlone
    <2> QED BY Zenon, <1>1, <2>1 DEF Given
  <1> HIDE DEF n, read, res, cut, ones, given
  <1>6. Costs(res, FlattenSeq(ones), n, cut)
    <2>1. res = {} <=> cut \/ FlattenSeq(ones) = <<>>
      BY <1>3, <1>4, <1>5
    <2>2. ASSUME NEW s \in res PROVE s.rows = FlattenSeq(ones) /\ Len(FlattenSeq(ones)) + s.skipped = n
      BY <1>3, <1>4, <1>5
    <2> QED BY <2>1, <2>2 DEF Costs
  <1> QED BY <1>6 DEF n, res, cut, ones

LEMMA ExportCosts ==
  ASSUME NEW lines, lines \in Seq({lines[k] : k \in DOMAIN lines})
  PROVE  Costs(X!ParseInvoiceExport(lines),
               FlattenSeq([k \in DOMAIN lines |-> OneRow(X!ParseInvoiceExport(<<lines[k]>>))]), Len(lines), FALSE)
  <1> DEFINE n == Len(lines)
             read == X!ReadLines(lines, X!KeptInvoice, X!Invoice)
             res == X!ParseInvoiceExport(lines)
             ones == [k \in DOMAIN lines |-> OneRow(X!ParseInvoiceExport(<<lines[k]>>))]
             given == Given(n, KeptOfExport(lines), RowsOfExport(lines))
  <1>1. n \in Nat /\ DOMAIN lines = 1..n
    OBVIOUS
  <1>2. ReadIs(read, n, KeptOfExport(lines), RowsOfExport(lines))
    BY ExportRead
  <1>3. read.rows = FlattenSeq(given) /\ Len(read.rows) + read.skipped = n
    BY <1>1, <1>2, ReadCounts
  <1>4. res = (IF read.rows = <<>> THEN {} ELSE {read})
    BY DEF X!ParseInvoiceExport, X!Invoices
  <1>5. ones = given
    <2>1. ASSUME NEW k \in 1..n
          PROVE  OneRow(X!ParseInvoiceExport(<<lines[k]>>)) =
                   IF k \in KeptOfExport(lines) THEN <<RowsOfExport(lines)[k]>> ELSE <<>>
      <3>2. (k \in KeptOfExport(lines) <=> X!KeptInvoice(lines[k])) /\ RowsOfExport(lines)[k] = X!Invoice(lines[k])
        BY DEF KeptOfExport, RowsOfExport
      <3> QED BY <3>2, ExportAlone
    <2> QED BY Zenon, <1>1, <2>1 DEF Given
  <1> HIDE DEF n, read, res, ones, given
  <1>6. Costs(res, FlattenSeq(ones), n, FALSE)
    <2>1. res = {} <=> FALSE \/ FlattenSeq(ones) = <<>>
      BY <1>3, <1>4, <1>5
    <2>2. ASSUME NEW s \in res PROVE s.rows = FlattenSeq(ones) /\ Len(FlattenSeq(ones)) + s.skipped = n
      BY <1>3, <1>4, <1>5
    <2> QED BY <2>1, <2>2 DEF Costs
  <1> QED BY <1>6 DEF n, res, ones

-----------------------------------------------------------------------------
FileAnswered ==
  /\ call = "statement" => input \in StatementInputs /\ result = X!ParseStatement(input)
  /\ call = "export" => input \in ExportInputs /\ result = X!ParseInvoiceExport(input)

LEMMA FilesAnswer == CallSpec => []FileAnswered
  <1>1. Uncalled => FileAnswered
    BY DEF Uncalled, FileAnswered
  <1>2. FileAnswered /\ [OneCall]_callVars => FileAnswered'
    BY Zenon DEF FileAnswered, OneCall, callVars, Match, Accrue, Forecast, Rank, Scan, Pack, Mine, Grade, Report,
              ReadStatement, ReadExport, Chase, AfterCall, Return
  <1> QED BY <1>1, <1>2, PTL DEF CallSpec

LEMMA FilesCost ==
  ASSUME FilesAreGiven, FileAnswered
  PROVE  BadLinesCostThemselves
  <1> DEFINE Parse(lines) == IF call = "export" THEN X!ParseInvoiceExport(lines) ELSE X!ParseStatement(lines)
             cut == call = "statement" /\ \E k \in DOMAIN input : X!CutShort(input[k])
             alone == FlattenSeq([k \in DOMAIN input |-> OneRow(Parse(<<input[k]>>))])
  <1>1. CASE call = "statement"
    <2>1. input \in Seq({input[k] : k \in DOMAIN input}) /\ result = X!ParseStatement(input)
      BY <1>1 DEF FilesAreGiven, FileAnswered
    <2>2. \A k \in DOMAIN input : OneRow(Parse(<<input[k]>>)) = OneRow(X!ParseStatement(<<input[k]>>))
      BY <1>1
    <2>3. alone = FlattenSeq([k \in DOMAIN input |-> OneRow(X!ParseStatement(<<input[k]>>))])
      <3> HIDE DEF Parse
      <3>1. [k \in DOMAIN input |-> OneRow(Parse(<<input[k]>>))] = [k \in DOMAIN input |-> OneRow(X!ParseStatement(<<input[k]>>))]
        BY Zenon, <2>2
      <3> QED BY Zenon, <3>1
    <2>4. cut <=> \E k \in DOMAIN input : X!CutShort(input[k])
      BY <1>1
    <2> HIDE DEF alone, cut
    <2>5. Costs(result, alone, Len(input), cut)
      <3>1. Costs(X!ParseStatement(input), FlattenSeq([k \in DOMAIN input |-> OneRow(X!ParseStatement(<<input[k]>>))]),
                  Len(input), \E k \in DOMAIN input : X!CutShort(input[k]))
        BY <2>1, StatementCosts
      <3> QED BY <2>1, <2>3, <2>4, <3>1 DEF Costs
    <2> QED BY <2>5 DEF BadLinesCostThemselves, Singly, OneRow, Costs, alone, cut
  <1>2. CASE call = "export"
    <2>1. input \in Seq({input[k] : k \in DOMAIN input}) /\ result = X!ParseInvoiceExport(input)
      BY <1>2 DEF FilesAreGiven, FileAnswered
    <2>2. \A k \in DOMAIN input : OneRow(Parse(<<input[k]>>)) = OneRow(X!ParseInvoiceExport(<<input[k]>>))
      BY <1>2
    <2>3. alone = FlattenSeq([k \in DOMAIN input |-> OneRow(X!ParseInvoiceExport(<<input[k]>>))])
      <3> HIDE DEF Parse
      <3>1. [k \in DOMAIN input |-> OneRow(Parse(<<input[k]>>))] = [k \in DOMAIN input |-> OneRow(X!ParseInvoiceExport(<<input[k]>>))]
        BY Zenon, <2>2
      <3> QED BY Zenon, <3>1
    <2>4. ~cut
      BY <1>2
    <2> HIDE DEF alone, cut
    <2>5. Costs(result, alone, Len(input), cut)
      <3>1. Costs(X!ParseInvoiceExport(input),
                  FlattenSeq([k \in DOMAIN input |-> OneRow(X!ParseInvoiceExport(<<input[k]>>))]), Len(input), FALSE)
        BY <2>1, ExportCosts
      <3> QED BY <2>1, <2>3, <2>4, <3>1 DEF Costs
    <2> QED BY <2>5 DEF BadLinesCostThemselves, Singly, OneRow, Costs, alone, cut
  <1>3. CASE call \notin {"export", "statement"}
    BY <1>3 DEF BadLinesCostThemselves
  <1> QED BY <1>1, <1>2, <1>3

\* Whatever the lines of a file, a bad one costs its own row and no other,
\* unless it is cut short in a statement and the file is refused.
THEOREM BadLinesAlwaysCostThemselves ==
  ASSUME FilesAreGiven
  PROVE  CallSpec => []BadLinesCostThemselves
  BY FilesAnswer, FilesCost, PTL

-----------------------------------------------------------------------------
(* Sequences sorted.                                                        *)

\* Each place of a linear order is taken by one.
Takes(by, L, n) ==
  /\ by \in [1..n -> 1..n]
  /\ \A r, s \in 1..n : by[r] = by[s] => r = s
  /\ \A k \in 1..n : \E r \in 1..n : by[r] = k
  /\ \A r, s \in 1..n : r < s => <<by[r], by[s]>> \in L
  /\ \A r \in 1..n : by[r] = CHOOSE k \in 1..n : Cardinality({j \in 1..n : <<j, k>> \in L}) = r

LEMMA PlacesTaken ==
  ASSUME NEW n \in Nat, NEW L, Orders(L, n)
  PROVE  \E by : Takes(by, L, n)
  <1> DEFINE place == [k \in 1..n |-> Cardinality({j \in 1..n : <<j, k>> \in L})]
             by == [r \in 1..n |-> CHOOSE k \in 1..n : place[k] = r]
  <1>1. Places(place, L, n)
    BY DEF Places
  <1>2. \A k \in 1..n : place[k] = Cardinality({j \in 1..n : <<j, k>> \in L})
    OBVIOUS
  <1> HIDE DEF place
  <1>3. Placing(place, L, n)
    <2>1. Ordering(place, L, n)
      BY <1>1 DEF Ordering
    <2> QED BY <2>1, PlacesOf
  <1>4. /\ place \in [1..n -> 1..n]
        /\ \A j, k \in 1..n : place[j] <= place[k] <=> <<j, k>> \in L
        /\ \A j, k \in 1..n : place[j] = place[k] => j = k
        /\ \A r \in 1..n : \E k \in 1..n : place[k] = r
    BY <1>3 DEF Placing
  <1>5. \A r \in 1..n : by[r] \in 1..n /\ place[by[r]] = r
    BY <1>4
  <1>6. \A r \in 1..n : by[r] = CHOOSE k \in 1..n : Cardinality({j \in 1..n : <<j, k>> \in L}) = r
    <2> TAKE r \in 1..n
    <2>1. by[r] = CHOOSE k \in 1..n : place[k] = r
      OBVIOUS
    <2> HIDE DEF by
    <2> QED BY <1>2, <2>1
  <1>7. by \in [1..n -> 1..n]
    BY <1>5
  <1> HIDE DEF by
  <1>8. \A r, s \in 1..n : by[r] = by[s] => r = s
    BY <1>5
  <1>9. \A k \in 1..n : \E r \in 1..n : by[r] = k
    <2> TAKE k \in 1..n
    <2>1. place[k] \in 1..n
      BY <1>4
    <2>2. by[place[k]] \in 1..n /\ place[by[place[k]]] = place[k]
      BY <1>5, <2>1
    <2>3. by[place[k]] = k
      BY <1>4, <2>2
    <2> QED BY <2>1, <2>3
  <1>10. \A r, s \in 1..n : r < s => <<by[r], by[s]>> \in L
    <2> SUFFICES ASSUME NEW r \in 1..n, NEW s \in 1..n, r < s PROVE <<by[r], by[s]>> \in L
      OBVIOUS
    <2>1. by[r] \in 1..n /\ by[s] \in 1..n /\ place[by[r]] <= place[by[s]]
      BY <1>5
    <2> QED BY <1>4, <2>1
  <1> QED BY <1>6, <1>7, <1>8, <1>9, <1>10 DEF Takes

\* A stable sort by the keys v.
Sorts(by, v, n) ==
  /\ by \in [1..n -> 1..n]
  /\ \A r, s \in 1..n : by[r] = by[s] => r = s
  /\ \A k \in 1..n : \E r \in 1..n : by[r] = k
  /\ \A r, s \in 1..n : r < s => v[by[r]] < v[by[s]] \/ (v[by[r]] = v[by[s]] /\ by[r] < by[s])

SortOf(s, v, n) ==
  [r \in 1..n |-> s[CHOOSE k \in 1..n :
      Cardinality({j \in 1..n : v[j] < v[k] \/ (v[j] = v[k] /\ j <= k)}) = r]]

Keys(v, n) == n \in Nat /\ \A k \in 1..n : v[k] \in Int
InOrderOf(s, v, n) == \E by : Sorts(by, v, n) /\ SortOf(s, v, n) = [r \in 1..n |-> s[by[r]]]

LEMMA SortIs ==
  ASSUME NEW n, NEW v, Keys(v, n), NEW s
  PROVE  InOrderOf(s, v, n)
  <1>0. n \in Nat /\ \A k \in 1..n : v[k] \in Int
    BY DEF Keys
  <1> DEFINE L == {p \in (1..n) \X (1..n) : v[p[1]] < v[p[2]] \/ (v[p[1]] = v[p[2]] /\ p[1] <= p[2])}
  <1>1. \A j, k \in 1..n : <<j, k>> \in L <=> (v[j] < v[k] \/ (v[j] = v[k] /\ j <= k))
    OBVIOUS
  <1> HIDE DEF L
  <1>2. Orders(L, n)
    <2>1. \A j, k \in 1..n : <<j, k>> \in L \/ <<k, j>> \in L
      <3> SUFFICES ASSUME NEW j \in 1..n, NEW k \in 1..n PROVE <<j, k>> \in L \/ <<k, j>> \in L
        OBVIOUS
      <3>1. v[j] \in Int /\ v[k] \in Int
        BY <1>0
      <3> QED BY <1>1, <3>1
    <2>2. \A j, k \in 1..n : <<j, k>> \in L /\ <<k, j>> \in L => j = k
      <3> SUFFICES ASSUME NEW j \in 1..n, NEW k \in 1..n, <<j, k>> \in L, <<k, j>> \in L PROVE j = k
        OBVIOUS
      <3>1. v[j] \in Int /\ v[k] \in Int /\ j \in Int /\ k \in Int
        BY <1>0
      <3> QED BY <1>1, <3>1
    <2>3. \A i, j, k \in 1..n : <<i, j>> \in L /\ <<j, k>> \in L => <<i, k>> \in L
      <3> SUFFICES ASSUME NEW i \in 1..n, NEW j \in 1..n, NEW k \in 1..n, <<i, j>> \in L, <<j, k>> \in L
                   PROVE  <<i, k>> \in L
        OBVIOUS
      <3>1. v[i] \in Int /\ v[j] \in Int /\ v[k] \in Int
        BY <1>0
      <3> QED BY <1>1, <3>1
    <2> QED BY <2>1, <2>2, <2>3 DEF Orders
  <1>3. PICK by : Takes(by, L, n)
    BY <1>0, <1>2, PlacesTaken
  <1>4. /\ by \in [1..n -> 1..n]
        /\ \A r, t \in 1..n : by[r] = by[t] => r = t
        /\ \A k \in 1..n : \E r \in 1..n : by[r] = k
        /\ \A r, t \in 1..n : r < t => <<by[r], by[t]>> \in L
        /\ \A r \in 1..n : by[r] = CHOOSE k \in 1..n : Cardinality({j \in 1..n : <<j, k>> \in L}) = r
    BY <1>3 DEF Takes
  <1>5. SortOf(s, v, n) = [r \in 1..n |-> s[by[r]]]
    <2> DEFINE before(k) == {j \in 1..n : v[j] < v[k] \/ (v[j] = v[k] /\ j <= k)}
    <2>1. \A k \in 1..n : before(k) = {j \in 1..n : <<j, k>> \in L}
      BY <1>1
    <2>2. SortOf(s, v, n) = [r \in 1..n |-> s[CHOOSE k \in 1..n : Cardinality(before(k)) = r]]
      BY DEF SortOf
    <2> HIDE DEF before
    <2>3. \A r \in 1..n : (CHOOSE k \in 1..n : Cardinality(before(k)) = r) = by[r]
      <3> DEFINE after(k) == {j \in 1..n : <<j, k>> \in L}
      <3>1. \A k \in 1..n : Cardinality(before(k)) = Cardinality(after(k))
        BY <2>1
      <3>2. \A r \in 1..n : by[r] = CHOOSE k \in 1..n : Cardinality(after(k)) = r
        BY <1>4
      <3> HIDE DEF after
      <3> QED BY <3>1, <3>2
    <2> QED BY <2>2, <2>3
  <1>6. \A r, t \in 1..n : r < t => v[by[r]] < v[by[t]] \/ (v[by[r]] = v[by[t]] /\ by[r] < by[t])
    <2> SUFFICES ASSUME NEW r \in 1..n, NEW t \in 1..n, r < t
                 PROVE  v[by[r]] < v[by[t]] \/ (v[by[r]] = v[by[t]] /\ by[r] < by[t])
      OBVIOUS
    <2> DEFINE a == by[r]
               b == by[t]
    <2>1. a \in 1..n /\ b \in 1..n /\ a # b /\ <<a, b>> \in L
      <3>1. r # t
        BY <1>0
      <3> QED BY <1>4, <3>1
    <2> HIDE DEF a, b
    <2>2. v[a] < v[b] \/ (v[a] = v[b] /\ a < b)
      BY <1>1, <2>1
    <2> QED BY <2>2 DEF a, b
  <1>7. Sorts(by, v, n)
    BY <1>4, <1>6 DEF Sorts
  <1> QED BY <1>5, <1>7 DEF InOrderOf

LEMMA SameCountD ==
  ASSUME NEW s
  PROVE  D!Cardinality(s) = Cardinality(s)
  BY DEF D!Cardinality, Cardinality
LEMMA SameFlattenD ==
  ASSUME NEW s
  PROVE  D!FlattenSeq(s) = FlattenSeq(s)
  BY DEF D!FlattenSeq, FlattenSeq

\* The detectors' sorts: of debits by date, and of amounts.
LEMMA ByDateIs ==
  ASSUME NEW n \in Nat, NEW s, DOMAIN s = 1..n, \A k \in 1..n : s[k].day \in Int
  PROVE  \E by : Sorts(by, [k \in 1..n |-> s[k].day], n) /\ D!ByDate(s) = [r \in 1..n |-> s[by[r]]]
  <1> DEFINE v == [k \in 1..n |-> s[k].day]
             rank(k) == D!Cardinality({j \in 1..n : s[j].day < s[k].day \/ (s[j].day = s[k].day /\ j <= k)})
  <1>1. \A k \in 1..n : v[k] = s[k].day
    OBVIOUS
  <1>2. D!ByDate(s) = [r \in 1..n |-> s[CHOOSE k \in 1..n : rank(k) = r]]
    BY DEF D!ByDate, D!SortedBy
  <1> HIDE DEF v
  <1>3. \A k \in 1..n : rank(k) = Cardinality({j \in 1..n : v[j] < v[k] \/ (v[j] = v[k] /\ j <= k)})
    <2> TAKE k \in 1..n
    <2>1. {j \in 1..n : s[j].day < s[k].day \/ (s[j].day = s[k].day /\ j <= k)} =
          {j \in 1..n : v[j] < v[k] \/ (v[j] = v[k] /\ j <= k)}
      BY <1>1
    <2> QED BY <2>1, SameCountD
  <1> HIDE DEF rank
  <1>4. D!ByDate(s) = SortOf(s, v, n)
    <2> DEFINE before(k) == Cardinality({j \in 1..n : v[j] < v[k] \/ (v[j] = v[k] /\ j <= k)})
    <2>1. \A k \in 1..n : rank(k) = before(k)
      BY <1>3
    <2>2. SortOf(s, v, n) = [r \in 1..n |-> s[CHOOSE k \in 1..n : before(k) = r]]
      BY DEF SortOf
    <2> HIDE DEF before
    <2>3. \A r \in 1..n : (CHOOSE k \in 1..n : rank(k) = r) = (CHOOSE k \in 1..n : before(k) = r)
      BY <2>1
    <2> QED BY <1>2, <2>2, <2>3
  <1>5. \A k \in 1..n : v[k] \in Int
    BY <1>1
  <1>6. Keys(v, n)
    BY <1>5 DEF Keys
  <1>7. InOrderOf(s, v, n)
    BY <1>6, SortIs
  <1>8. PICK by : Sorts(by, v, n) /\ SortOf(s, v, n) = [r \in 1..n |-> s[by[r]]]
    BY Zenon, <1>7 DEF InOrderOf
  <1>9. D!ByDate(s) = [r \in 1..n |-> s[by[r]]]
    BY Zenon, <1>4, <1>8
  <1>10. Sorts(by, [k \in 1..n |-> s[k].day], n)
    BY Zenon, <1>8 DEF v
  <1> QED BY Zenon, <1>9, <1>10

LEMMA ByAmountIs ==
  ASSUME NEW n \in Nat, NEW s, DOMAIN s = 1..n, \A k \in 1..n : s[k] \in Int
  PROVE  \E by : Sorts(by, s, n) /\ D!SortedBy(s, LAMBDA a : a) = [r \in 1..n |-> s[by[r]]]
  <1> DEFINE rank(k) == D!Cardinality({j \in 1..n : s[j] < s[k] \/ (s[j] = s[k] /\ j <= k)})
             before(k) == Cardinality({j \in 1..n : s[j] < s[k] \/ (s[j] = s[k] /\ j <= k)})
  <1>1. D!SortedBy(s, LAMBDA a : a) = [r \in 1..n |-> s[CHOOSE k \in 1..n : rank(k) = r]]
    BY DEF D!SortedBy
  <1>2. SortOf(s, s, n) = [r \in 1..n |-> s[CHOOSE k \in 1..n : before(k) = r]]
    BY DEF SortOf
  <1>3. \A k \in 1..n : rank(k) = before(k)
    BY SameCountD
  <1> HIDE DEF rank, before
  <1>4. \A r \in 1..n : (CHOOSE k \in 1..n : rank(k) = r) = (CHOOSE k \in 1..n : before(k) = r)
    BY <1>3
  <1>5. D!SortedBy(s, LAMBDA a : a) = SortOf(s, s, n)
    BY <1>1, <1>2, <1>4
  <1>6. \E by : Sorts(by, s, n) /\ SortOf(s, s, n) = [r \in 1..n |-> s[by[r]]]
    <2>1. Keys(s, n)
      BY DEF Keys
    <2>2. InOrderOf(s, s, n)
      BY <2>1, SortIs
    <2> QED BY Zenon, <2>2 DEF InOrderOf
  <1> QED BY Zenon, <1>5, <1>6

-----------------------------------------------------------------------------
(* Duplicates: the debits of a scan, grouped and sorted.                    *)

\* g holds the debits with indices in K, in their order.
Grouping(at, g, debits, K) ==
  /\ Len(g) \in Nat /\ DOMAIN g = 1..Len(g)
  /\ at \in [1..Len(g) -> K]
  /\ \A r \in 1..Len(g) : g[r] = debits[at[r]]
  /\ \A r, s \in 1..Len(g) : r < s => at[r] < at[s]
  /\ \A k \in K : \E r \in 1..Len(g) : at[r] = k

LEMMA GroupIs ==
  ASSUME NEW n \in Nat, NEW debits, NEW K \in SUBSET (1..n)
  PROVE  \E at : Grouping(at, FlattenSeq(Given(n, K, debits)), debits, K)
  <1> DEFINE V == {debits[k] : k \in 1..n}
             ss == Given(n, K, debits)
  <1>1. \A k \in 1..n : debits[k] \in V
    OBVIOUS
  <1>2. \A k \in 1..n : ss[k] = IF k \in K THEN <<debits[k]>> ELSE <<>>
    BY DEF Given
  <1> HIDE DEF V
  <1>3. Pieces(V, n, ss)
    BY <1>1, GivenIs
  <1> HIDE DEF ss
  <1>4. PICK h \in [0..n -> Seq(V)] : Joins(h, ss, n) /\ FlattenSeq(ss) = h[n]
    BY <1>3, FlattenOf DEF Joined
  <1>5. ss \in [1..n -> Seq(V)]
    BY <1>3 DEF Pieces
  <1>6. PICK at : Single(h, ss, n, at)
    <2>1. \A k \in 1..n : ss[k] = <<>> \/ \E v \in V : ss[k] = <<v>>
      BY <1>1, <1>2
    <2> QED BY <1>4, <1>5, <2>1, EachFromOne
  <1> DEFINE g == h[n]
             m == Len(g)
  <1>7. g \in Seq(V) /\ m \in Nat /\ DOMAIN g = 1..m
    <2>1. n \in 0..n
      OBVIOUS
    <2>2. h[n] \in Seq(V)
      BY <2>1
    <2> QED BY <2>2
  <1>8. /\ at \in [1..m -> 1..n]
        /\ \A r \in 1..m : ss[at[r]] = <<g[r]>>
        /\ \A r, s \in 1..m : r < s => at[r] < at[s]
        /\ \A k \in 1..n : ss[k] # <<>> => \E r \in 1..m : at[r] = k
    BY <1>6 DEF Single
  <1> HIDE DEF g, m
  <1>9. \A r \in 1..m : at[r] \in K /\ g[r] = debits[at[r]]
    <2> TAKE r \in 1..m
    <2> DEFINE k == at[r]
    <2>1. k \in 1..n /\ ss[k] = <<g[r]>>
      BY <1>8
    <2> HIDE DEF k
    <2>2. <<g[r]>> # <<>>
      OBVIOUS
    <2>3. k \in K
      BY <1>2, <2>1, <2>2
    <2>4. <<g[r]>> = <<debits[k]>>
      BY <1>2, <2>1, <2>3
    <2>5. g[r] = debits[k]
      BY <2>4
    <2> QED BY <2>3, <2>5 DEF k
  <1>10. \A k \in K : \E r \in 1..m : at[r] = k
    <2> TAKE k \in K
    <2>1. k \in 1..n
      OBVIOUS
    <2>2. ss[k] = <<debits[k]>>
      BY <1>2, <2>1
    <2>3. ss[k] # <<>>
      BY <2>2
    <2> QED BY <1>8, <2>1, <2>3
  <1>11. at \in [1..m -> K]
    BY <1>8, <1>9
  <1>12. Grouping(at, g, debits, K)
    BY <1>7, <1>8, <1>9, <1>10, <1>11 DEF Grouping, m
  <1> QED BY <1>4, <1>12 DEF ss, g

\* Row i comes before row j.
Sooner(debits, i, j) == debits[i].day < debits[j].day \/ (debits[i].day = debits[j].day /\ i < j)

\* src holds the indices K in the order of their days.
Chronicle(src, m, debits, K) ==
  /\ m \in Nat /\ src \in [1..m -> K]
  /\ \A r, s \in 1..m : src[r] = src[s] => r = s
  /\ \A k \in K : \E r \in 1..m : src[r] = k
  /\ \A r, s \in 1..m : r < s => Sooner(debits, src[r], src[s])

Dated(s, n) == n \in Nat /\ DOMAIN s = 1..n /\ \A k \in 1..n : s[k].day \in Int
DateSorted(s, n) ==
  \E by : Sorts(by, [k \in 1..n |-> s[k].day], n) /\ D!ByDate(s) = [r \in 1..n |-> s[by[r]]]
LEMMA ByDateOf ==
  ASSUME NEW s, NEW n, Dated(s, n)
  PROVE  DateSorted(s, n)
  BY ByDateIs DEF Dated, DateSorted

LEMMA ChronicleIs ==
  ASSUME NEW n \in Nat, NEW debits, \A k \in 1..n : debits[k].day \in Int, NEW K \in SUBSET (1..n)
  PROVE  LET sorted == D!ByDate(FlattenSeq(Given(n, K, debits))) IN
         \E src, m : Chronicle(src, m, debits, K) /\ sorted = [r \in 1..m |-> debits[src[r]]]
  <1> DEFINE g == FlattenSeq(Given(n, K, debits))
             m == Len(g)
             days == [r \in 1..m |-> g[r].day]
  <1>1. PICK at : Grouping(at, g, debits, K)
    BY GroupIs
  <1> HIDE DEF g
  <1>2. /\ m \in Nat /\ DOMAIN g = 1..m
        /\ at \in [1..m -> K]
        /\ \A r \in 1..m : g[r] = debits[at[r]]
        /\ \A r, s \in 1..m : r < s => at[r] < at[s]
        /\ \A k \in K : \E r \in 1..m : at[r] = k
    BY <1>1 DEF Grouping
  <1> HIDE DEF m
  <1>3. \A r \in 1..m : g[r].day \in Int
    BY <1>2
  <1>4. PICK by : Sorts(by, days, m) /\ D!ByDate(g) = [r \in 1..m |-> g[by[r]]]
    <2>1. Dated(g, m)
      BY <1>2, <1>3 DEF Dated
    <2> QED BY <2>1, ByDateOf DEF DateSorted
  <1>5. \A r \in 1..m : days[r] = debits[at[r]].day
    BY <1>2
  <1> HIDE DEF days
  <1>6. /\ by \in [1..m -> 1..m]
        /\ \A r, s \in 1..m : by[r] = by[s] => r = s
        /\ \A k \in 1..m : \E r \in 1..m : by[r] = k
        /\ \A r, s \in 1..m : r < s => days[by[r]] < days[by[s]] \/ (days[by[r]] = days[by[s]] /\ by[r] < by[s])
    BY <1>4 DEF Sorts
  <1> DEFINE src == [r \in 1..m |-> at[by[r]]]
  <1>7. \A r \in 1..m : src[r] = at[by[r]] /\ by[r] \in 1..m /\ src[r] \in K
    BY <1>2, <1>6
  <1>8. src \in [1..m -> K]
    BY <1>7
  <1>9. D!ByDate(g) = [r \in 1..m |-> debits[src[r]]]
    BY <1>2, <1>4, <1>7
  <1> HIDE DEF src
  <1>10. \A a, b \in 1..m : at[a] = at[b] => a = b
    <2> SUFFICES ASSUME NEW a \in 1..m, NEW b \in 1..m, at[a] = at[b] PROVE a = b
      OBVIOUS
    <2>1. at[a] \in Int /\ at[b] \in Int
      <3>1. at[a] \in K /\ at[b] \in K
        BY <1>2
      <3>2. \A k \in K : k \in Int
        OBVIOUS
      <3> QED BY <3>1, <3>2
    <2> QED BY <1>2, <2>1
  <1>11. \A r, s \in 1..m : src[r] = src[s] => r = s
    <2> SUFFICES ASSUME NEW r \in 1..m, NEW s \in 1..m, src[r] = src[s] PROVE r = s
      OBVIOUS
    <2>1. by[r] \in 1..m /\ by[s] \in 1..m /\ at[by[r]] = at[by[s]]
      BY <1>7
    <2>2. by[r] = by[s]
      BY <1>10, <2>1
    <2> QED BY <1>6, <2>2
  <1>12. \A k \in K : \E r \in 1..m : src[r] = k
    <2> TAKE k \in K
    <2>1. PICK a \in 1..m : at[a] = k
      BY <1>2
    <2>2. PICK r \in 1..m : by[r] = a
      BY <1>6
    <2> QED BY <1>7, <2>1, <2>2
  <1>13. \A r, s \in 1..m : r < s => Sooner(debits, src[r], src[s])
    <2> SUFFICES ASSUME NEW r \in 1..m, NEW s \in 1..m, r < s PROVE Sooner(debits, src[r], src[s])
      OBVIOUS
    <2> DEFINE a == by[r]
               b == by[s]
    <2>1. a \in 1..m /\ b \in 1..m /\ (days[a] < days[b] \/ (days[a] = days[b] /\ a < b))
          /\ src[r] = at[a] /\ src[s] = at[b]
      BY <1>6, <1>7
    <2> HIDE DEF a, b
    <2>2. a < b => at[a] < at[b]
      BY <1>2, <2>1
    <2>3. days[a] = debits[at[a]].day /\ days[b] = debits[at[b]].day
      BY <1>5, <2>1
    <2> QED BY <2>1, <2>2, <2>3 DEF Sooner
  <1>14. Chronicle(src, m, debits, K)
    BY <1>2, <1>8, <1>11, <1>12, <1>13 DEF Chronicle
  <1> QED BY <1>9, <1>14 DEF g

Scanned(debits, n) ==
  /\ n \in Nat /\ DOMAIN debits = 1..n
  /\ \A k \in 1..n : debits[k].day \in Int /\ debits[k].amount \in Int
  /\ \A j, k \in 1..n : debits[j].id = debits[k].id => j = k
Alike(debits, i, j) == debits[i].vendor = debits[j].vendor /\ debits[i].amount = debits[j].amount
GroupOf(debits, n, x) == {k \in 1..n : Alike(debits, k, x)}

\* Row j is the next of its kind after row i, within a week.
Follows(debits, n, i, j) ==
  /\ Alike(debits, i, j) /\ Sooner(debits, i, j)
  /\ \A l \in 1..n : Alike(debits, l, i) => ~(Sooner(debits, i, l) /\ Sooner(debits, l, j))
  /\ debits[j].day - debits[i].day <= 7
Found(debits, i, j) ==
  [kind |-> "duplicate", first |-> debits[i].id, second |-> debits[j].id, recoverable |-> debits[j].amount]

\* Within a group those are the neighbours by date.
Repeats(src, m, debits) == {b \in 2..m : debits[src[b]].day - debits[src[b - 1]].day <= 7}

LEMMA SoonerIs ==
  ASSUME NEW debits, NEW n, Scanned(debits, n), NEW i \in 1..n, NEW j \in 1..n
  PROVE  /\ Sooner(debits, i, j) => ~Sooner(debits, j, i) /\ i # j
         /\ i # j => Sooner(debits, i, j) \/ Sooner(debits, j, i)
  <1>1. debits[i].day \in Int /\ debits[j].day \in Int /\ i \in Int /\ j \in Int
    BY DEF Scanned
  <1> QED BY <1>1 DEF Sooner

LEMMA InOrderOfDays ==
  ASSUME NEW debits, NEW n, Scanned(debits, n), NEW K \in SUBSET (1..n), NEW src, NEW m, Chronicle(src, m, debits, K),
         NEW r \in 1..m, NEW s \in 1..m
  PROVE  Sooner(debits, src[r], src[s]) <=> r < s
  <1>1. src[r] \in 1..n /\ src[s] \in 1..n /\ m \in Nat
    BY DEF Chronicle
  <1>2. r < s => Sooner(debits, src[r], src[s])
    BY DEF Chronicle
  <1>3. s < r => Sooner(debits, src[s], src[r])
    BY DEF Chronicle
  <1>4. s < r => ~Sooner(debits, src[r], src[s])
    BY <1>1, <1>3, SoonerIs
  <1>5. r = s => ~Sooner(debits, src[r], src[s])
    BY <1>1, SoonerIs
  <1> QED BY <1>2, <1>4, <1>5

LEMMA NeighboursAre ==
  ASSUME NEW debits, NEW n, Scanned(debits, n), NEW x \in 1..n,
         NEW src, NEW m, Chronicle(src, m, debits, GroupOf(debits, n, x)),
         NEW i \in 1..n, NEW j \in GroupOf(debits, n, x)
  PROVE  Follows(debits, n, i, j) <=> \E b \in Repeats(src, m, debits) : i = src[b - 1] /\ j = src[b]
  <1> DEFINE K == GroupOf(debits, n, x)
  <1>1. K \in SUBSET (1..n) /\ \A k \in 1..n : k \in K <=> Alike(debits, k, x)
    BY DEF GroupOf
  <1>2. Chronicle(src, m, debits, K)
    OBVIOUS
  <1> HIDE DEF K
  <1>3. /\ m \in Nat /\ src \in [1..m -> K]
        /\ \A r, s \in 1..m : src[r] = src[s] => r = s
        /\ \A k \in K : \E r \in 1..m : src[r] = k
    BY <1>2 DEF Chronicle
  <1>4. \A r, s \in 1..m : Sooner(debits, src[r], src[s]) <=> r < s
    BY <1>1, <1>2, InOrderOfDays
  <1>5. j \in K
    BY DEF K
  <1>6. ASSUME Follows(debits, n, i, j) PROVE \E b \in Repeats(src, m, debits) : i = src[b - 1] /\ j = src[b]
    <2>1. Alike(debits, i, j) /\ Sooner(debits, i, j) /\ debits[j].day - debits[i].day <= 7
      BY <1>6 DEF Follows
    <2>2. i \in K
      BY <1>1, <1>5, <2>1 DEF Alike
    <2>3. PICK a \in 1..m : src[a] = i
      BY <1>3, <2>2
    <2>4. PICK b \in 1..m : src[b] = j
      BY <1>3, <1>5
    <2>5. a < b
      BY <1>4, <2>1, <2>3, <2>4
    <2>6. b = a + 1
      <3> SUFFICES ASSUME b # a + 1 PROVE FALSE
        OBVIOUS
      <3>1. a + 1 \in 1..m /\ a < a + 1 /\ a + 1 < b
        BY <1>3, <2>5
      <3> DEFINE l == src[a + 1]
      <3>2. Sooner(debits, i, l) /\ Sooner(debits, l, j)
        BY <1>4, <2>3, <2>4, <3>1
      <3>3. l \in K
        BY <1>3, <3>1
      <3>4. l \in 1..n /\ Alike(debits, l, i)
        BY <1>1, <2>2, <3>3 DEF Alike
      <3> QED BY <1>6, <3>2, <3>4 DEF Follows
    <2>7. b \in 2..m /\ b - 1 = a
      BY <1>3, <2>5, <2>6
    <2>8. b \in Repeats(src, m, debits)
      BY <2>1, <2>3, <2>4, <2>7 DEF Repeats
    <2> QED BY <2>3, <2>4, <2>7, <2>8
  <1>7. ASSUME NEW b \in Repeats(src, m, debits), i = src[b - 1], j = src[b] PROVE Follows(debits, n, i, j)
    <2>1. b \in 2..m /\ debits[j].day - debits[i].day <= 7
      BY <1>7 DEF Repeats
    <2>2. b \in 1..m /\ b - 1 \in 1..m /\ b - 1 < b
      BY <1>3, <2>1
    <2>3. Sooner(debits, i, j)
      BY <1>4, <1>7, <2>2
    <2>4. i \in K
      BY <1>3, <1>7, <2>2
    <2>5. Alike(debits, i, j)
      BY <1>1, <1>5, <2>4 DEF Alike
    <2>6. ASSUME NEW l \in 1..n, Alike(debits, l, i), Sooner(debits, i, l), Sooner(debits, l, j) PROVE FALSE
      <3>1. l \in K
        BY <1>1, <2>4, <2>6 DEF Alike
      <3>2. PICK c \in 1..m : src[c] = l
        BY <1>3, <3>1
      <3>3. b - 1 < c /\ c < b
        BY <1>4, <1>7, <2>2, <2>6, <3>2
      <3>4. b \in Int /\ c \in Int
        BY <2>1
      <3> QED BY <3>3, <3>4
    <2> QED BY <2>1, <2>3, <2>5, <2>6 DEF Follows
  <1> QED BY <1>6, <1>7

\* What the detector makes of one row's group.
GroupByDate(debits, n, x) ==
  \E src, m : /\ Chronicle(src, m, debits, GroupOf(debits, n, x))
              /\ D!ByDate(D!Equal(debits, debits[x])) = [r \in 1..m |-> debits[src[r]]]
LEMMA GroupGives ==
  ASSUME NEW debits, NEW n, Scanned(debits, n), NEW x \in 1..n
  PROVE  GroupByDate(debits, n, x)
  <1> DEFINE K == GroupOf(debits, n, x)
             flat == [k \in DOMAIN debits |-> IF debits[k].vendor = debits[x].vendor /\ debits[k].amount = debits[x].amount
                                            THEN <<debits[k]>> ELSE <<>>]
  <1>1. n \in Nat /\ DOMAIN debits = 1..n /\ \A k \in 1..n : debits[k].day \in Int
    BY DEF Scanned
  <1>2. K \in SUBSET (1..n) /\ \A k \in 1..n : k \in K <=> (debits[k].vendor = debits[x].vendor /\ debits[k].amount = debits[x].amount)
    BY DEF GroupOf, Alike
  <1> HIDE DEF K
  <1>3. flat = Given(n, K, debits)
    BY <1>1, <1>2 DEF Given
  <1>4. D!Equal(debits, debits[x]) = FlattenSeq(flat)
    BY SameFlattenD DEF D!Equal
  <1> HIDE DEF flat
  <1>5. D!Equal(debits, debits[x]) = FlattenSeq(Given(n, K, debits))
    BY <1>3, <1>4
  <1>6. \E src, m : /\ Chronicle(src, m, debits, K)
                    /\ D!ByDate(FlattenSeq(Given(n, K, debits))) = [r \in 1..m |-> debits[src[r]]]
    BY <1>1, <1>2, ChronicleIs
  <1> QED BY <1>5, <1>6 DEF K, GroupByDate

Raised(sorted, amount) ==
  {[kind |-> "duplicate", first |-> sorted[p[1]].id, second |-> sorted[p[2]].id, recoverable |-> amount] :
     p \in {q \in D!Neighbours(sorted) : D!Close(sorted[q[1]], sorted[q[2]])}}

LEMMA GroupFinds ==
  ASSUME NEW debits, NEW n, Scanned(debits, n), NEW x \in 1..n, NEW src, NEW m,
         Chronicle(src, m, debits, GroupOf(debits, n, x)),
         NEW sorted, sorted = [r \in 1..m |-> debits[src[r]]]
  PROVE  Raised(sorted, debits[x].amount) = {Found(debits, src[b - 1], src[b]) : b \in Repeats(src, m, debits)}
  <1> DEFINE F(p) == [kind |-> "duplicate", first |-> sorted[p[1]].id, second |-> sorted[p[2]].id, recoverable |-> debits[x].amount]
             T == {q \in D!Neighbours(sorted) : D!Close(sorted[q[1]], sorted[q[2]])}
  <1>1. m \in Nat /\ src \in [1..m -> GroupOf(debits, n, x)]
    BY DEF Chronicle
  <1>2. D!Neighbours(sorted) = {<<k - 1, k>> : k \in 2..m}
    <2>1. Len(sorted) = m
      BY <1>1
    <2> QED BY <2>1 DEF D!Neighbours
  <1>3. \A r \in 1..m : sorted[r] = debits[src[r]]
    OBVIOUS
  <1>4. ASSUME NEW b \in 2..m
        PROVE  /\ b \in 1..m /\ b - 1 \in 1..m
               /\ F(<<b - 1, b>>) = Found(debits, src[b - 1], src[b])
               /\ D!Close(sorted[b - 1], sorted[b]) <=> b \in Repeats(src, m, debits)
    <2>1. b \in 1..m /\ b - 1 \in 1..m
      BY <1>1
    <2>2. sorted[b] = debits[src[b]] /\ sorted[b - 1] = debits[src[b - 1]]
      BY <1>3, <2>1
    <2>3. debits[src[b]].amount = debits[x].amount
      <3>1. src[b] \in GroupOf(debits, n, x)
        BY <1>1, <2>1
      <3> QED BY <3>1 DEF GroupOf, Alike
    <2>4. F(<<b - 1, b>>) = Found(debits, src[b - 1], src[b])
      BY <2>2, <2>3 DEF Found
    <2>5. D!Close(sorted[b - 1], sorted[b]) <=> b \in Repeats(src, m, debits)
      BY <2>2 DEF D!Close, D!DUPLICATE_WINDOW_DAYS, Repeats
    <2> QED BY <2>1, <2>4, <2>5
  <1>5. ASSUME NEW p \in T PROVE \E b \in Repeats(src, m, debits) : F(p) = Found(debits, src[b - 1], src[b])
    <2>1. PICK b \in 2..m : p = <<b - 1, b>>
      BY <1>2
    <2>2. D!Close(sorted[b - 1], sorted[b])
      BY <2>1
    <2> HIDE DEF F
    <2> QED BY <1>4, <2>1, <2>2
  <1>6. ASSUME NEW b \in Repeats(src, m, debits) PROVE \E p \in T : F(p) = Found(debits, src[b - 1], src[b])
    <2>1. b \in 2..m
      BY DEF Repeats
    <2>2. <<b - 1, b>> \in T
      BY <1>2, <1>4, <2>1
    <2> HIDE DEF F, T
    <2> QED BY <1>4, <2>1, <2>2
  <1> HIDE DEF F, T
  <1>7. {F(p) : p \in T} = {Found(debits, src[b - 1], src[b]) : b \in Repeats(src, m, debits)}
    BY <1>5, <1>6
  <1> QED BY <1>7 DEF F, T, Raised

LEMMA DuplicatesAre ==
  ASSUME NEW debits, NEW n, Scanned(debits, n)
  PROVE  \A f : f \in D!DetectDuplicates(debits) <=> \E i, j \in 1..n : Follows(debits, n, i, j) /\ f = Found(debits, i, j)
  <1> DEFINE S(t) == Raised(D!ByDate(D!Equal(debits, t)), t.amount)
  <1>1. D!DetectDuplicates(debits) = UNION {S(t) : t \in D!ToSet(debits)}
    BY DEF D!DetectDuplicates, Raised
  <1>2. D!ToSet(debits) = {debits[k] : k \in 1..n}
    BY DEF D!ToSet, Scanned
  <1>3. ASSUME NEW x \in 1..n
        PROVE  \E src, m : /\ Chronicle(src, m, debits, GroupOf(debits, n, x))
                           /\ S(debits[x]) = {Found(debits, src[b - 1], src[b]) : b \in Repeats(src, m, debits)}
    <2>1. PICK src, m : /\ Chronicle(src, m, debits, GroupOf(debits, n, x))
                        /\ D!ByDate(D!Equal(debits, debits[x])) = [r \in 1..m |-> debits[src[r]]]
      <3>1. GroupByDate(debits, n, x)
        BY GroupGives
      <3> QED BY Zenon, <3>1 DEF GroupByDate
    <2> DEFINE sorted == D!ByDate(D!Equal(debits, debits[x]))
    <2>2. S(debits[x]) = Raised(sorted, debits[x].amount)
      OBVIOUS
    <2>3. sorted = [r \in 1..m |-> debits[src[r]]]
      BY <2>1
    <2> HIDE DEF S, sorted
    <2>4. S(debits[x]) = {Found(debits, src[b - 1], src[b]) : b \in Repeats(src, m, debits)}
      BY <2>1, <2>2, <2>3, GroupFinds
    <2> QED BY <2>1, <2>4
  <1> HIDE DEF S
  <1>4. ASSUME NEW f, f \in D!DetectDuplicates(debits) PROVE \E i, j \in 1..n : Follows(debits, n, i, j) /\ f = Found(debits, i, j)
    <2>1. PICK x \in 1..n : f \in S(debits[x])
      BY <1>1, <1>2, <1>4
    <2>2. PICK src, m : /\ Chronicle(src, m, debits, GroupOf(debits, n, x))
                        /\ S(debits[x]) = {Found(debits, src[b - 1], src[b]) : b \in Repeats(src, m, debits)}
      BY <1>3
    <2>3. PICK b \in Repeats(src, m, debits) : f = Found(debits, src[b - 1], src[b])
      BY <2>1, <2>2
    <2>4. b \in 1..m /\ b - 1 \in 1..m
      <3>1. m \in Nat
        BY <2>2 DEF Chronicle
      <3>2. b \in 2..m
        BY DEF Repeats
      <3> QED BY <3>1, <3>2
    <2>5. src[b] \in GroupOf(debits, n, x) /\ src[b - 1] \in 1..n /\ src[b] \in 1..n
      BY <2>2, <2>4 DEF Chronicle, GroupOf
    <2>6. Follows(debits, n, src[b - 1], src[b])
      BY <2>2, <2>3, <2>5, NeighboursAre
    <2> QED BY <2>3, <2>5, <2>6
  <1>5. ASSUME NEW i \in 1..n, NEW j \in 1..n, Follows(debits, n, i, j) PROVE Found(debits, i, j) \in D!DetectDuplicates(debits)
    <2>1. PICK src, m : /\ Chronicle(src, m, debits, GroupOf(debits, n, j))
                        /\ S(debits[j]) = {Found(debits, src[b - 1], src[b]) : b \in Repeats(src, m, debits)}
      BY <1>3
    <2>2. j \in GroupOf(debits, n, j)
      BY DEF GroupOf, Alike
    <2>3. PICK b \in Repeats(src, m, debits) : i = src[b - 1] /\ j = src[b]
      BY <1>5, <2>1, <2>2, NeighboursAre
    <2>4. Found(debits, i, j) \in S(debits[j])
      BY <2>1, <2>3
    <2>5. debits[j] \in D!ToSet(debits)
      BY <1>2
    <2> QED BY <1>1, <2>4, <2>5
  <1> QED BY <1>4, <1>5

\* Of m days in order, the series of those within a week begin as many times
\* as there are days that repeat none.
Near(v, m) == {b \in 2..m : v[b] - v[b - 1] <= 7}
Starts(v, m) == LET days == {v[r] : r \in 1..m} IN {d \in days : \A e \in days : e < d => d - e > 7}
Ascending(v, m) == m \in Nat /\ (\A r \in 1..m : v[r] \in Int) /\ \A r, s \in 1..m : r <= s => v[r] <= v[s]

LEMMA StartsCount ==
  ASSUME NEW v, NEW m, Ascending(v, m)
  PROVE  Cardinality(Near(v, m)) \in Nat /\ Cardinality(Starts(v, m)) = m - Cardinality(Near(v, m))
  <1> DEFINE N == Near(v, m)
             G == (1..m) \ N
             f == [b \in G |-> v[b]]
  <1>1. m \in Nat /\ (\A r \in 1..m : v[r] \in Int) /\ \A r, s \in 1..m : r <= s => v[r] <= v[s]
    BY DEF Ascending
  <1>2. IsFiniteSet(1..m) /\ Cardinality(1..m) = m
    BY <1>1, FS_Interval
  <1>3. N \subseteq 1..m /\ \A b \in 2..m : b \in N <=> v[b] - v[b - 1] <= 7
    BY <1>1 DEF Near
  <1>4. \A b \in N : b \in 2..m
    BY DEF Near
  <1> HIDE DEF N
  <1>5. IsFiniteSet(N) /\ Cardinality(N) \in Nat /\ IsFiniteSet(G) /\ Cardinality(G) = m - Cardinality(N)
    <2>1. (1..m) \cap N = N
      BY <1>3
    <2>2. IsFiniteSet(N)
      BY <1>2, <1>3, FS_Subset
    <2>3. Cardinality(G) = Cardinality(1..m) - Cardinality((1..m) \cap N) /\ IsFiniteSet(G)
      BY <1>2, FS_Difference
    <2> QED BY <1>2, <2>1, <2>2, <2>3, FS_CardinalityType
  <1>6. \A b \in G : b \in 1..m /\ (b # 1 => b - 1 \in 1..m /\ v[b] - v[b - 1] > 7)
    <2> TAKE b \in G
    <2>1. b \in 1..m /\ b \notin N
      OBVIOUS
    <2>2. ASSUME b # 1 PROVE b - 1 \in 1..m /\ v[b] - v[b - 1] > 7
      <3>1. b \in 2..m /\ b - 1 \in 1..m
        BY <1>1, <2>1, <2>2
      <3>2. v[b] \in Int /\ v[b - 1] \in Int
        BY <1>1, <2>1, <3>1
      <3> QED BY <1>3, <2>1, <3>1, <3>2
    <2> QED BY <2>1, <2>2
  <1>7. \A b \in 1..m : b = 1 \/ (b - 1 \in 1..m /\ v[b] - v[b - 1] > 7) => b \in G
    <2> SUFFICES ASSUME NEW b \in 1..m, b = 1 \/ (b - 1 \in 1..m /\ v[b] - v[b - 1] > 7), b \in N PROVE FALSE
      OBVIOUS
    <2>1. b \in 2..m
      BY <1>4
    <2>2. b - 1 \in 1..m /\ v[b] \in Int /\ v[b - 1] \in Int /\ v[b] - v[b - 1] > 7
      <3>1. b # 1
        BY <2>1
      <3>2. b - 1 \in 1..m
        BY <3>1
      <3> QED BY <1>1, <3>1, <3>2
    <2>3. v[b] - v[b - 1] <= 7
      BY <1>3, <2>1
    <2> QED BY <2>2, <2>3
  <1>8. \A b \in G : f[b] = v[b]
    OBVIOUS
  <1> HIDE DEF G
  <1>9. ASSUME NEW b \in G, NEW c \in G, b < c, v[b] = v[c] PROVE FALSE
    <2>1. b \in 1..m /\ c \in 1..m
      BY <1>6
    <2>2. c # 1
      BY <1>9, <2>1
    <2>3. c - 1 \in 1..m /\ v[c] - v[c - 1] > 7
      BY <1>6, <2>2
    <2>4. b <= c - 1
      BY <1>9, <2>1
    <2>5. v[b] <= v[c - 1]
      BY <1>1, <2>1, <2>3, <2>4
    <2>6. v[b] \in Int /\ v[c] \in Int /\ v[c - 1] \in Int
      BY <1>1, <2>1, <2>3
    <2> QED BY <1>9, <2>3, <2>5, <2>6
  <1>10. \A b, c \in G : f[b] = f[c] => b = c
    <2> SUFFICES ASSUME NEW b \in G, NEW c \in G, f[b] = f[c] PROVE b = c
      OBVIOUS
    <2>1. v[b] = v[c]
      BY <1>8
    <2>2. ~(b < c) /\ ~(c < b)
      BY <1>9, <2>1
    <2>3. b \in Int /\ c \in Int
      BY <1>6
    <2> QED BY <2>2, <2>3
  <1>11. ASSUME NEW b \in G PROVE f[b] \in Starts(v, m)
    <2>1. b \in 1..m
      BY <1>6
    <2>2. ASSUME NEW r \in 1..m, v[r] < v[b] PROVE v[b] - v[r] > 7
      <3>1. v[r] \in Int /\ v[b] \in Int
        BY <1>1, <2>1
      <3>2. ~(b <= r)
        BY <1>1, <2>1, <2>2, <3>1
      <3>3. b # 1 /\ r <= b - 1
        BY <2>1, <3>2
      <3>4. b - 1 \in 1..m /\ v[b] - v[b - 1] > 7
        BY <1>6, <3>3
      <3>5. v[r] <= v[b - 1] /\ v[b - 1] \in Int
        BY <1>1, <3>3, <3>4
      <3> QED BY <3>1, <3>4, <3>5
    <2> QED BY <1>8, <2>1, <2>2 DEF Starts
  <1>12. ASSUME NEW d \in Starts(v, m) PROVE \E b \in G : f[b] = d
    <2> DEFINE T == {r \in 1..m : v[r] = d}
    <2>1. (\E r \in 1..m : d = v[r]) /\ \A r \in 1..m : v[r] < d => d - v[r] > 7
      BY DEF Starts
    <2>2. T \in SUBSET Nat /\ T # {}
      BY <2>1
    <2>3. PICK b \in T : \A r \in T : b <= r
      BY <2>2, LeastOf
    <2>4. b \in 1..m /\ v[b] = d
      OBVIOUS
    <2>5. ASSUME b # 1 PROVE b - 1 \in 1..m /\ v[b] - v[b - 1] > 7
      <3>1. b - 1 \in 1..m /\ b - 1 <= b /\ ~(b <= b - 1)
        <4> HIDE DEF T
        <4>1. b \in 1..m /\ b # 1
          BY <2>4, <2>5
        <4>2. m \in Nat
          BY <1>1
        <4>3. b - 1 \in 1..m
          BY <4>1, <4>2
        <4>4. b \in Int
          BY <4>1
        <4> QED BY <4>3, <4>4
      <3>2. b - 1 \notin T
        BY <2>3, <3>1
      <3>3. v[b - 1] # d /\ v[b - 1] <= v[b]
        BY <1>1, <2>4, <3>1, <3>2
      <3>4. v[b - 1] \in Int /\ v[b] \in Int
        BY <1>1, <2>4, <3>1
      <3>5. v[b - 1] < d
        BY <2>4, <3>3, <3>4
      <3> QED BY <2>1, <2>4, <3>1, <3>5
    <2>6. b \in G
      BY <1>7, <2>4, <2>5
    <2> QED BY <1>8, <2>4, <2>6
  <1>13. Starts(v, m) = {f[b] : b \in G}
    BY <1>11, <1>12
  <1>14. DOMAIN f = G /\ f \in [G -> {f[b] : b \in G}]
    OBVIOUS
  <1> HIDE DEF f
  <1>15. Cardinality({f[b] : b \in G}) = Cardinality(G)
    BY <1>5, <1>10, <1>14, OneToOne
  <1> QED BY <1>5, <1>13, <1>15 DEF N

LEMMA RaisedOnce ==
  ASSUME NEW debits, NEW n, Scanned(debits, n),
         NEW f \in D!DetectDuplicates(debits), NEW g \in D!DetectDuplicates(debits), f.second = g.second
  PROVE  f = g
  <1>1. PICK i \in 1..n, j \in 1..n : Follows(debits, n, i, j) /\ f = Found(debits, i, j)
    BY DuplicatesAre
  <1>2. PICK a \in 1..n, b \in 1..n : Follows(debits, n, a, b) /\ g = Found(debits, a, b)
    BY DuplicatesAre
  <1>3. b = j
    <2>1. debits[j].id = debits[b].id
      BY <1>1, <1>2 DEF Found
    <2> QED BY <2>1 DEF Scanned
  <1>4. a = i
    <2> SUFFICES ASSUME a # i PROVE FALSE
      OBVIOUS
    <2>1. Sooner(debits, i, a) \/ Sooner(debits, a, i)
      BY SoonerIs
    <2>2. Alike(debits, a, i) /\ Alike(debits, i, a)
      BY <1>1, <1>2, <1>3 DEF Follows, Alike
    <2> QED BY <1>1, <1>2, <1>3, <2>1, <2>2 DEF Follows
  <1> QED BY <1>1, <1>2, <1>3, <1>4

\* As many are raised of the equal debits as do not begin a series.
Counted(debits, all, t) ==
  LET equal == {u \in all : u.vendor = t.vendor /\ u.amount = t.amount}
      days == {u.day : u \in equal}
      first == {d \in days : \A e \in days : e < d => d - e > 7}
      raised == {f \in D!DetectDuplicates(debits) : \E u \in equal : u.id = f.second /\ f.recoverable = u.amount}
  IN  Cardinality(raised) = Cardinality(equal) - Cardinality(first)

\* The debits equal to one, and what is raised about them.
LEMMA RepeatsCount ==
  ASSUME NEW debits, NEW n, Scanned(debits, n), NEW t \in {debits[k] : k \in 1..n},
         NEW all, all = {debits[k] : k \in 1..n}
  PROVE  Counted(debits, all, t)
  <1> DEFINE equal == {u \in all : u.vendor = t.vendor /\ u.amount = t.amount}
             days == {u.day : u \in equal}
             first == {d \in days : \A e \in days : e < d => d - e > 7}
             raised == {f \in D!DetectDuplicates(debits) : \E u \in equal : u.id = f.second /\ f.recoverable = u.amount}
  <1>1. PICK x \in 1..n : t = debits[x]
    OBVIOUS
  <1> DEFINE K == GroupOf(debits, n, x)
  <1>2. PICK src, m : Chronicle(src, m, debits, K)
    <2>1. GroupByDate(debits, n, x)
      BY GroupGives
    <2> QED BY <2>1 DEF GroupByDate, K
  <1>3. K \in SUBSET (1..n) /\ \A k \in 1..n : k \in K <=> (debits[k].vendor = t.vendor /\ debits[k].amount = t.amount)
    BY <1>1 DEF GroupOf, Alike
  <1>4. /\ n \in Nat /\ \A k \in 1..n : debits[k].day \in Int
        /\ \A j, k \in 1..n : debits[j].id = debits[k].id => j = k
    BY DEF Scanned
  <1> HIDE DEF K
  <1>5. /\ m \in Nat /\ src \in [1..m -> K]
        /\ \A r, s \in 1..m : src[r] = src[s] => r = s
        /\ \A k \in K : \E r \in 1..m : src[r] = k
        /\ \A r, s \in 1..m : r < s => Sooner(debits, src[r], src[s])
    BY <1>2 DEF Chronicle
  <1> DEFINE row == [r \in 1..m |-> debits[src[r]]]
             v == [r \in 1..m |-> debits[src[r]].day]
             hit == [b \in Near(v, m) |-> Found(debits, src[b - 1], src[b])]
  <1>6. \A r \in 1..m : src[r] \in 1..n /\ row[r] = debits[src[r]] /\ v[r] = debits[src[r]].day
    BY <1>3, <1>5
  <1>7. DOMAIN row = 1..m /\ row \in [1..m -> {row[r] : r \in 1..m}]
    OBVIOUS
  <1>8. DOMAIN hit = Near(v, m) /\ hit \in [Near(v, m) -> {hit[b] : b \in Near(v, m)}]
        /\ \A b \in Near(v, m) : hit[b] = Found(debits, src[b - 1], src[b])
    OBVIOUS
  <1> HIDE DEF row, v, hit
  <1>9. equal = {row[r] : r \in 1..m}
    <2>1. ASSUME NEW u \in equal PROVE \E r \in 1..m : row[r] = u
      <3>1. PICK k \in 1..n : u = debits[k]
        OBVIOUS
      <3>2. k \in K
        BY <1>3, <3>1
      <3> QED BY <1>5, <1>6, <3>1, <3>2
    <2>2. ASSUME NEW r \in 1..m PROVE row[r] \in equal
      <3>1. src[r] \in K
        BY <1>5
      <3> QED BY <1>3, <1>6, <3>1
    <2> HIDE DEF equal
    <2> QED BY <2>1, <2>2
  <1>10. IsFiniteSet(1..m) /\ Cardinality(1..m) = m
    BY <1>5, FS_Interval
  <1>11. Cardinality(equal) = m
    <2>1. \A r, s \in 1..m : row[r] = row[s] => r = s
      <3> SUFFICES ASSUME NEW r \in 1..m, NEW s \in 1..m, row[r] = row[s] PROVE r = s
        OBVIOUS
      <3>1. debits[src[r]].id = debits[src[s]].id
        BY <1>6
      <3>2. src[r] = src[s]
        BY <1>4, <1>6, <3>1
      <3> QED BY <1>5, <3>2
    <2> DEFINE S == 1..m
    <2>2. DOMAIN row = S /\ row \in [S -> {row[r] : r \in S}] /\ IsFiniteSet(S) /\ \A r, s \in S : row[r] = row[s] => r = s
      BY <1>7, <1>10, <2>1
    <2>3. Cardinality(S) = m /\ {row[r] : r \in 1..m} = {row[r] : r \in S}
      BY <1>10
    <2> HIDE DEF S
    <2>4. Cardinality({row[r] : r \in S}) = Cardinality(S)
      BY <2>2, OneToOne
    <2> QED BY <1>9, <2>3, <2>4
  <1>12. Ascending(v, m)
    <2>1. \A r \in 1..m : v[r] \in Int
      BY <1>4, <1>6
    <2>2. \A r, s \in 1..m : r <= s => v[r] <= v[s]
      <3> SUFFICES ASSUME NEW r \in 1..m, NEW s \in 1..m, r <= s PROVE v[r] <= v[s]
        OBVIOUS
      <3>1. CASE r = s
        BY <2>1, <3>1
      <3>2. CASE r # s
        <4>1. r < s
          BY <3>2
        <4>2. Sooner(debits, src[r], src[s])
          BY <1>5, <4>1
        <4> QED BY <1>6, <2>1, <4>2 DEF Sooner
      <3> QED BY <3>1, <3>2
    <2> QED BY <1>5, <2>1, <2>2 DEF Ascending
  <1>13. Cardinality(Near(v, m)) \in Nat /\ Cardinality(Starts(v, m)) = m - Cardinality(Near(v, m))
    BY <1>12, StartsCount
  <1>14. first = Starts(v, m)
    <2>1. days = {v[r] : r \in 1..m}
      <3>1. ASSUME NEW u \in equal PROVE \E r \in 1..m : v[r] = u.day
        BY <1>6, <1>9
      <3>2. ASSUME NEW r \in 1..m PROVE \E u \in equal : u.day = v[r]
        BY <1>6, <1>9
      <3> HIDE DEF equal
      <3> QED BY <3>1, <3>2
    <2> HIDE DEF days
    <2> QED BY <2>1 DEF Starts
  <1>15. Near(v, m) = Repeats(src, m, debits)
    <2>1. ASSUME NEW b \in 2..m PROVE v[b] = debits[src[b]].day /\ v[b - 1] = debits[src[b - 1]].day
      <3>1. b \in 1..m /\ b - 1 \in 1..m
        BY <1>5
      <3> QED BY <1>6, <3>1
    <2> QED BY <2>1 DEF Near, Repeats
  <1>16. \A b \in Near(v, m) : b \in 1..m /\ b - 1 \in 1..m
    BY <1>5 DEF Near
  <1>17. raised = {hit[b] : b \in Near(v, m)}
    <2>1. ASSUME NEW f \in raised PROVE \E b \in Near(v, m) : hit[b] = f
      <3>1. PICK i \in 1..n, j \in 1..n : Follows(debits, n, i, j) /\ f = Found(debits, i, j)
        BY DuplicatesAre
      <3>2. PICK r \in 1..m : row[r].id = f.second
        BY <1>9
      <3>3. debits[src[r]].id = debits[j].id
        BY <1>6, <3>1, <3>2 DEF Found
      <3>4. j = src[r]
        BY <1>4, <1>6, <3>3
      <3>5. j \in K
        BY <1>5, <3>4
      <3>6. PICK b \in Repeats(src, m, debits) : i = src[b - 1] /\ j = src[b]
        BY <1>2, <3>1, <3>5, NeighboursAre DEF K
      <3> QED BY <1>8, <1>15, <3>1, <3>6
    <2>2. ASSUME NEW b \in Near(v, m) PROVE hit[b] \in raised
      <3> DEFINE i == src[b - 1]
                 j == src[b]
      <3>1. i \in 1..n /\ j \in 1..n /\ j \in K /\ row[b] = debits[j] /\ row[b] \in equal
        BY <1>5, <1>6, <1>9, <1>16
      <3>2. \E c \in Repeats(src, m, debits) : i = src[c - 1] /\ j = src[c]
        BY <1>15
      <3>3. hit[b] = Found(debits, i, j)
        BY <1>8
      <3> HIDE DEF i, j, equal
      <3>4. Follows(debits, n, i, j)
        BY <1>2, <3>1, <3>2, NeighboursAre DEF K
      <3>5. hit[b] \in D!DetectDuplicates(debits)
        BY <3>1, <3>3, <3>4, DuplicatesAre
      <3>6. hit[b].second = debits[j].id /\ hit[b].recoverable = debits[j].amount
        BY <3>3 DEF Found
      <3>7. \E u \in equal : u.id = hit[b].second /\ hit[b].recoverable = u.amount
        BY <3>1, <3>6
      <3> QED BY <3>5, <3>7
    <2> HIDE DEF raised
    <2> QED BY <2>1, <2>2
  <1>18. IsFiniteSet(Near(v, m))
    <2>1. Near(v, m) \subseteq 1..m
      BY <1>16
    <2> QED BY <1>10, <2>1, FS_Subset
  <1>19. Cardinality(raised) = Cardinality(Near(v, m))
    <2>1. \A b, c \in Near(v, m) : hit[b] = hit[c] => b = c
      <3> SUFFICES ASSUME NEW b \in Near(v, m), NEW c \in Near(v, m), hit[b] = hit[c] PROVE b = c
        OBVIOUS
      <3>1. b \in 1..m /\ c \in 1..m
        BY <1>16
      <3>2. debits[src[b]].id = debits[src[c]].id
        BY <1>8 DEF Found
      <3>3. src[b] = src[c]
        BY <1>4, <1>6, <3>1, <3>2
      <3> QED BY <1>5, <3>1, <3>3
    <2>2. Cardinality({hit[b] : b \in Near(v, m)}) = Cardinality(Near(v, m))
      BY <1>8, <1>18, <2>1, OneToOne
    <2> QED BY <1>17, <2>2
  <1> HIDE DEF equal, first, raised
  <1>20. Cardinality(raised) = Cardinality(equal) - Cardinality(first)
    BY <1>5, <1>11, <1>13, <1>14, <1>19
  <1> QED BY <1>20 DEF equal, first, raised, days, Counted

LEMMA SameSetD ==
  ASSUME NEW s
  PROVE  D!ToSet(s) = ToSet(s)
  BY DEF D!ToSet, ToSet

\* A series begins on the days with no equal debit in the week before.
LEMMA RepeatsAreCounted ==
  ASSUME NEW debits, NEW n, Scanned(debits, n), NEW t \in ToSet(debits)
  PROVE  LET equal == {u \in ToSet(debits) : u.vendor = t.vendor /\ u.amount = t.amount} IN
         Cardinality({f \in D!DetectDuplicates(debits) : \E u \in equal : u.id = f.second /\ f.recoverable = u.amount}) =
           Cardinality(equal) - Cardinality(Begins(debits, t))
  <1> DEFINE all == {debits[k] : k \in 1..n}
             equal == {u \in all : u.vendor = t.vendor /\ u.amount = t.amount}
             days == {u.day : u \in equal}
             first == {d \in days : \A e \in days : e < d => d - e > 7}
             raised == {f \in D!DetectDuplicates(debits) : \E u \in equal : u.id = f.second /\ f.recoverable = u.amount}
  <1>1. ToSet(debits) = all
    BY DEF ToSet, Scanned
  <1>2. Begins(debits, t) = first
    BY <1>1 DEF Begins, D!DUPLICATE_WINDOW_DAYS
  <1>3. t \in all
    BY <1>1
  <1>4. Cardinality(raised) = Cardinality(equal) - Cardinality(first)
    <2>1. all = {debits[k] : k \in 1..n}
      OBVIOUS
    <2> HIDE DEF all
    <2>2. Counted(debits, all, t)
      BY <1>3, <2>1, RepeatsCount
    <2> QED BY <2>2 DEF Counted
  <1> QED BY <1>1, <1>2, <1>4

-----------------------------------------------------------------------------
(* Rescans, where days tell the debits apart.                               *)

OneADayOf(debits, n) == Scanned(debits, n) /\ \A j, k \in 1..n : debits[j].day = debits[k].day => j = k

\* What is raised about a set of debits.
AlikeRows(t, u) == t.vendor = u.vendor /\ t.amount = u.amount
NextOf(S, t, u) ==
  /\ AlikeRows(t, u) /\ t.day < u.day /\ u.day - t.day <= 7
  /\ \A v \in S : AlikeRows(v, t) => ~(t.day < v.day /\ v.day < u.day)
FoundAbout(t, u) == [kind |-> "duplicate", first |-> t.id, second |-> u.id, recoverable |-> u.amount]
FoundIn(S, f) == \E t, u \in S : NextOf(S, t, u) /\ f = FoundAbout(t, u)

LEMMA FollowsIsNext ==
  ASSUME NEW debits, NEW n, OneADayOf(debits, n), NEW i \in 1..n, NEW j \in 1..n
  PROVE  Follows(debits, n, i, j) <=> NextOf({debits[k] : k \in 1..n}, debits[i], debits[j])
  <1>1. \A a, b \in 1..n : Sooner(debits, a, b) <=> debits[a].day < debits[b].day
    <2> TAKE a, b \in 1..n
    <2>1. a \in Int /\ b \in Int /\ debits[a].day \in Int /\ debits[b].day \in Int /\ (debits[a].day = debits[b].day => a = b)
      BY DEF OneADayOf, Scanned
    <2> QED BY <2>1 DEF Sooner
  <1>2. \A l \in 1..n : Alike(debits, l, i) <=> AlikeRows(debits[l], debits[i])
    BY DEF Alike, AlikeRows
  <1>3. Alike(debits, i, j) <=> AlikeRows(debits[i], debits[j])
    BY DEF Alike, AlikeRows
  <1>4. (\A l \in 1..n : Alike(debits, l, i) => ~(Sooner(debits, i, l) /\ Sooner(debits, l, j))) <=>
        (\A v \in {debits[k] : k \in 1..n} : AlikeRows(v, debits[i]) => ~(debits[i].day < v.day /\ v.day < debits[j].day))
    BY <1>1, <1>2
  <1>5. Sooner(debits, i, j) <=> debits[i].day < debits[j].day
    BY <1>1
  <1> QED BY <1>3, <1>4, <1>5 DEF Follows, NextOf

Finds(debits, S) == \A f : f \in D!DetectDuplicates(debits) <=> FoundIn(S, f)
LEMMA FoundInRows ==
  ASSUME NEW debits, NEW n, OneADayOf(debits, n)
  PROVE  Finds(debits, {debits[k] : k \in 1..n})
  <1> DEFINE S == {debits[k] : k \in 1..n}
  <1> SUFFICES ASSUME NEW f PROVE f \in D!DetectDuplicates(debits) <=> FoundIn(S, f)
    BY DEF Finds
  <1>1. f \in D!DetectDuplicates(debits) <=> \E i, j \in 1..n : Follows(debits, n, i, j) /\ f = Found(debits, i, j)
    BY DuplicatesAre DEF OneADayOf
  <1>2. \A i, j \in 1..n : Follows(debits, n, i, j) <=> NextOf(S, debits[i], debits[j])
    BY FollowsIsNext
  <1>3. \A i, j \in 1..n : Found(debits, i, j) = FoundAbout(debits[i], debits[j])
    BY DEF Found, FoundAbout
  <1>4. \A k \in 1..n : debits[k] \in S
    OBVIOUS
  <1>5. \A t \in S : \E k \in 1..n : t = debits[k]
    OBVIOUS
  <1> HIDE DEF S
  <1>6. ASSUME f \in D!DetectDuplicates(debits) PROVE FoundIn(S, f)
    <2>1. PICK i \in 1..n, j \in 1..n : Follows(debits, n, i, j) /\ f = Found(debits, i, j)
      BY <1>1, <1>6
    <2>2. NextOf(S, debits[i], debits[j]) /\ f = FoundAbout(debits[i], debits[j])
      BY <1>2, <1>3, <2>1
    <2> QED BY <1>4, <2>2 DEF FoundIn
  <1>7. ASSUME FoundIn(S, f) PROVE f \in D!DetectDuplicates(debits)
    <2>1. PICK t \in S, u \in S : NextOf(S, t, u) /\ f = FoundAbout(t, u)
      BY <1>7 DEF FoundIn
    <2>2. PICK i \in 1..n : t = debits[i]
      BY <1>5
    <2>3. PICK j \in 1..n : u = debits[j]
      BY <1>5
    <2>4. Follows(debits, n, i, j) /\ f = Found(debits, i, j)
      BY <1>2, <1>3, <2>1, <2>2, <2>3
    <2> QED BY <1>1, <2>4
  <1> QED BY <1>6, <1>7 DEF S

\* In another order of the debits.
LEMMA BackwardsFinds ==
  ASSUME NEW debits, NEW n, OneADayOf(debits, n)
  PROVE  D!DetectDuplicates([k \in 1..n |-> debits[n + 1 - k]]) = D!DetectDuplicates(debits)
  <1> DEFINE back == [k \in 1..n |-> debits[n + 1 - k]]
  <1>1. n \in Nat /\ DOMAIN debits = 1..n
        /\ (\A k \in 1..n : debits[k].day \in Int /\ debits[k].amount \in Int)
        /\ (\A j, k \in 1..n : debits[j].id = debits[k].id => j = k)
        /\ \A j, k \in 1..n : debits[j].day = debits[k].day => j = k
    BY DEF OneADayOf, Scanned
  <1>2. \A k \in 1..n : n + 1 - k \in 1..n /\ n + 1 - (n + 1 - k) = k /\ back[k] = debits[n + 1 - k]
    BY <1>1
  <1>3. DOMAIN back = 1..n
    OBVIOUS
  <1> HIDE DEF back
  <1>4. \A j, k \in 1..n : n + 1 - j = n + 1 - k => j = k
    BY <1>1
  <1>5. OneADayOf(back, n)
    <2>1. \A k \in 1..n : back[k].day \in Int /\ back[k].amount \in Int
      BY <1>1, <1>2
    <2>2. \A j, k \in 1..n : back[j].id = back[k].id => j = k
      BY <1>1, <1>2, <1>4
    <2>3. \A j, k \in 1..n : back[j].day = back[k].day => j = k
      BY <1>1, <1>2, <1>4
    <2> QED BY <1>1, <1>3, <2>1, <2>2, <2>3 DEF OneADayOf, Scanned
  <1>6. {back[k] : k \in 1..n} = {debits[k] : k \in 1..n}
    <2>1. \A k \in 1..n : \E j \in 1..n : back[k] = debits[j]
      BY <1>2
    <2>2. \A k \in 1..n : \E j \in 1..n : debits[k] = back[j]
      <3> TAKE k \in 1..n
      <3>1. back[n + 1 - k] = debits[k] /\ n + 1 - k \in 1..n
        BY <1>2
      <3> QED BY <3>1
    <2> QED BY <2>1, <2>2
  <1>7. \A f : f \in D!DetectDuplicates(back) <=> f \in D!DetectDuplicates(debits)
    <2>1. Finds(debits, {debits[k] : k \in 1..n})
      BY FoundInRows
    <2>2. Finds(back, {back[k] : k \in 1..n})
      BY <1>5, FoundInRows
    <2>3. Finds(back, {debits[k] : k \in 1..n})
      BY Zenon, <1>6, <2>2
    <2> QED BY Zenon, <2>1, <2>3 DEF Finds
  <1>8. \A f : f \in D!DetectDuplicates(debits) => f \in D!DetectDuplicates(back)
    BY <1>7
  <1>9. D!DetectDuplicates(back) \subseteq D!DetectDuplicates(debits)
    BY <1>7
  <1>10. D!DetectDuplicates(debits) \subseteq D!DetectDuplicates(back)
    BY <1>8
  <1>11. D!DetectDuplicates(back) = D!DetectDuplicates(debits)
    BY <1>9, <1>10
  <1> QED BY <1>11 DEF back

\* Before the latest of the debits came.
LEMMA EarlierFinds ==
  ASSUME NEW debits, NEW n, OneADayOf(debits, n), NEW x \in 1..n, \A l \in 1..n : debits[l].day <= debits[x].day,
         NEW few, few = [k \in 1..(n - 1) |-> IF k < x THEN debits[k] ELSE debits[k + 1]]
  PROVE  D!DetectDuplicates(few) \subseteq D!DetectDuplicates(debits)
  <1> DEFINE at == [k \in 1..(n - 1) |-> IF k < x THEN k ELSE k + 1]
             S == {few[k] : k \in 1..(n - 1)}
             T == {debits[k] : k \in 1..n}
  <1>1. n \in Nat /\ DOMAIN debits = 1..n
        /\ (\A k \in 1..n : debits[k].day \in Int /\ debits[k].amount \in Int)
        /\ (\A j, k \in 1..n : debits[j].id = debits[k].id => j = k)
        /\ \A j, k \in 1..n : debits[j].day = debits[k].day => j = k
    BY DEF OneADayOf, Scanned
  <1>2. \A k \in 1..(n - 1) : at[k] \in 1..n /\ at[k] # x /\ few[k] = debits[at[k]]
    BY <1>1
  <1>3. \A j, k \in 1..(n - 1) : at[j] = at[k] => j = k
    BY <1>1
  <1>4. \A k \in 1..n : k # x => \E j \in 1..(n - 1) : at[j] = k
    <2> SUFFICES ASSUME NEW k \in 1..n, k # x PROVE \E j \in 1..(n - 1) : at[j] = k
      OBVIOUS
    <2>1. CASE k < x
      <3>1. k \in 1..(n - 1) /\ at[k] = k
        BY <1>1, <2>1
      <3> QED BY <3>1
    <2>2. CASE k > x
      <3>1. k - 1 \in 1..(n - 1) /\ ~(k - 1 < x) /\ (k - 1) + 1 = k
        BY <1>1, <2>2
      <3>2. at[k - 1] = k
        BY <3>1
      <3> QED BY <3>1, <3>2
    <2> QED BY <2>1, <2>2
  <1>5. DOMAIN few = 1..(n - 1) /\ n - 1 \in Nat
    BY <1>1
  <1> HIDE DEF at
  <1>6. OneADayOf(few, n - 1)
    <2>1. \A k \in 1..(n - 1) : few[k].day \in Int /\ few[k].amount \in Int
      BY <1>1, <1>2
    <2>2. \A j, k \in 1..(n - 1) : few[j].id = few[k].id => j = k
      BY <1>1, <1>2, <1>3
    <2>3. \A j, k \in 1..(n - 1) : few[j].day = few[k].day => j = k
      BY <1>1, <1>2, <1>3
    <2> QED BY <1>5, <2>1, <2>2, <2>3 DEF OneADayOf, Scanned
  <1>7. S \subseteq T
    BY <1>2
  <1>8. \A v \in T : v \in S \/ v = debits[x]
    <2> TAKE v \in T
    <2>1. PICK k \in 1..n : v = debits[k]
      OBVIOUS
    <2>2. ASSUME k # x PROVE v \in S
      <3>1. PICK j \in 1..(n - 1) : at[j] = k
        BY <1>4, <2>2
      <3> QED BY <1>2, <2>1, <3>1
    <2> QED BY <2>1, <2>2
  <1>9. \A u \in T : u.day \in Int /\ u.day <= debits[x].day
    BY <1>1
  <1>10. debits[x].day \in Int
    BY <1>1
  <1>11. \A f : f \in D!DetectDuplicates(debits) <=> FoundIn(T, f)
    <2>1. Finds(debits, T)
      BY FoundInRows
    <2> QED BY <2>1 DEF Finds
  <1>12. \A f : f \in D!DetectDuplicates(few) <=> FoundIn(S, f)
    <2> DEFINE m == n - 1
    <2>1. OneADayOf(few, m) /\ S = {few[k] : k \in 1..m}
      BY <1>6
    <2> HIDE DEF m, S
    <2>2. Finds(few, {few[k] : k \in 1..m})
      BY <2>1, FoundInRows
    <2>3. Finds(few, S)
      BY Zenon, <2>1, <2>2
    <2> QED BY <2>3 DEF Finds
  <1> HIDE DEF S, T
  <1>13. ASSUME NEW f, FoundIn(S, f) PROVE FoundIn(T, f)
    <2>1. PICK t \in S, u \in S : NextOf(S, t, u) /\ f = FoundAbout(t, u)
      BY <1>13 DEF FoundIn
    <2>2. t \in T /\ u \in T
      BY <1>7
    <2>3. \A v \in T : AlikeRows(v, t) => ~(t.day < v.day /\ v.day < u.day)
      <3> SUFFICES ASSUME NEW v \in T, AlikeRows(v, t), t.day < v.day, v.day < u.day PROVE FALSE
        OBVIOUS
      <3>1. v # debits[x]
        BY <1>9, <1>10, <2>2
      <3>2. v \in S
        BY <1>8, <3>1
      <3> QED BY <2>1, <3>2 DEF NextOf
    <2>4. NextOf(T, t, u)
      BY <2>1, <2>3 DEF NextOf
    <2> QED BY <2>1, <2>2, <2>4 DEF FoundIn
  <1> QED BY <1>11, <1>12, <1>13

LEMMA LeftOut ==
  ASSUME NEW V, NEW debits \in Seq(V), NEW x \in 1..Len(debits)
  PROVE  SubSeq(debits, 1, x - 1) \o SubSeq(debits, x + 1, Len(debits)) =
         [k \in 1..(Len(debits) - 1) |-> IF k < x THEN debits[k] ELSE debits[k + 1]]
  <1> DEFINE n == Len(debits)
             s == SubSeq(debits, 1, x - 1)
             t == SubSeq(debits, x + 1, n)
             few == [k \in 1..(n - 1) |-> IF k < x THEN debits[k] ELSE debits[k + 1]]
  <1>1. n \in Nat /\ x \in Int /\ 1 <= x /\ x <= n
    OBVIOUS
  <1>2. s \in Seq(V) /\ Len(s) = x - 1 /\ \A k \in 1..(x - 1) : s[k] = debits[k]
    OBVIOUS
  <1>3. t \in Seq(V) /\ Len(t) = n - x /\ \A k \in 1..(n - x) : t[k] = debits[k + x]
    OBVIOUS
  <1> HIDE DEF s, t
  <1>4. s \o t \in Seq(V) /\ Len(s \o t) = n - 1
    <2>1. s \o t \in Seq(V)
      BY <1>2, <1>3
    <2>2. Len(s \o t) = Len(s) + Len(t)
      <3>1. s \in Seq(V) /\ t \in Seq(V)
        BY <1>2, <1>3
      <3> QED BY <3>1
    <2>3. (x - 1) + (n - x) = n - 1
      BY <1>1
    <2> HIDE DEF n
    <2> QED BY <1>2, <1>3, <2>1, <2>2, <2>3
  <1>5. DOMAIN (s \o t) = 1..(n - 1)
    BY <1>4
  <1>6. \A k \in 1..(n - 1) : (s \o t)[k] = IF k < x THEN debits[k] ELSE debits[k + 1]
    <2> TAKE k \in 1..(n - 1)
    <2>1. CASE k < x
      <3>1. k \in 1..(x - 1)
        BY <1>1, <2>1
      <3>2. (s \o t)[k] = s[k]
        BY <1>2, <1>3, <3>1
      <3> QED BY <1>2, <2>1, <3>1, <3>2
    <2>2. CASE ~(k < x)
      <3>1. k - (x - 1) \in 1..(n - x) /\ k - (x - 1) + x = k + 1
        BY <1>1, <2>2
      <3>2. (s \o t)[k] = t[k - (x - 1)]
        BY <1>1, <1>2, <1>3, <2>2
      <3>3. t[k - (x - 1)] = debits[k + 1]
        BY <1>3, <3>1
      <3> QED BY <2>2, <3>2, <3>3
    <2> QED BY <2>1, <2>2
  <1>7. s \o t = [k \in 1..(n - 1) |-> (s \o t)[k]]
    <2> DEFINE q == s \o t
    <2>1. q \in Seq(V) /\ DOMAIN q = 1..(n - 1)
      BY <1>4, <1>5
    <2> HIDE DEF q
    <2>2. q = [k \in DOMAIN q |-> q[k]]
      BY <2>1
    <2>3. q = [k \in 1..(n - 1) |-> q[k]]
      BY Zenon, <2>1, <2>2
    <2> QED BY <2>3 DEF q
  <1>8. s \o t = few
    BY <1>6, <1>7
  <1> QED BY <1>8 DEF s, t, few, n

LEMMA RescansFindIt ==
  ASSUME NEW V, NEW debits \in Seq(V), OneADayOf(debits, Len(debits))
  PROVE  LET latest == {k \in DOMAIN debits : \A l \in DOMAIN debits : debits[l].day <= debits[k].day}
             backwards == [k \in DOMAIN debits |-> debits[Len(debits) + 1 - k]]
         IN  /\ D!DetectDuplicates(backwards) = D!DetectDuplicates(debits)
             /\ \A k \in latest :
                  D!DetectDuplicates(SubSeq(debits, 1, k - 1) \o SubSeq(debits, k + 1, Len(debits))) \subseteq D!DetectDuplicates(debits)
  <1> DEFINE n == Len(debits)
             latest == {k \in DOMAIN debits : \A l \in DOMAIN debits : debits[l].day <= debits[k].day}
             backwards == [k \in DOMAIN debits |-> debits[Len(debits) + 1 - k]]
  <1>1. DOMAIN debits = 1..n
    OBVIOUS
  <1>2. backwards = [k \in 1..n |-> debits[n + 1 - k]]
    BY <1>1
  <1>3. OneADayOf(debits, n)
    OBVIOUS
  <1> HIDE DEF n
  <1>4. D!DetectDuplicates([k \in 1..n |-> debits[n + 1 - k]]) = D!DetectDuplicates(debits)
    BY <1>3, BackwardsFinds
  <1>5. D!DetectDuplicates(backwards) = D!DetectDuplicates(debits)
    BY <1>2, <1>4
  <1>6. ASSUME NEW x \in latest
        PROVE  D!DetectDuplicates(SubSeq(debits, 1, x - 1) \o SubSeq(debits, x + 1, Len(debits))) \subseteq D!DetectDuplicates(debits)
    <2> DEFINE few == [k \in 1..(n - 1) |-> IF k < x THEN debits[k] ELSE debits[k + 1]]
               cut == SubSeq(debits, 1, x - 1) \o SubSeq(debits, x + 1, Len(debits))
    <2>1. x \in 1..n /\ \A l \in 1..n : debits[l].day <= debits[x].day
      BY <1>1
    <2>2. cut = few
      BY <2>1, LeftOut DEF n
    <2>3. few = [k \in 1..(n - 1) |-> IF k < x THEN debits[k] ELSE debits[k + 1]]
      OBVIOUS
    <2> HIDE DEF few, latest, cut
    <2>4. D!DetectDuplicates(few) \subseteq D!DetectDuplicates(debits)
      BY <1>3, <2>1, <2>3, EarlierFinds
    <2>5. D!DetectDuplicates(cut) \subseteq D!DetectDuplicates(debits)
      BY <2>2, <2>4
    <2> QED BY <2>5 DEF cut
  <1> QED BY <1>5, <1>6

-----------------------------------------------------------------------------
(* Baselines: medians and the extremes of amounts.                          *)

Figures(a, n) == n \in Nat \ {0} /\ DOMAIN a = 1..n /\ Len(a) = n /\ \A k \in 1..n : a[k] \in Int

LEMMA MedianBetween ==
  ASSUME NEW a, NEW n, Figures(a, n)
  PROVE  D!Median(a) \in Int /\ \E i, j \in 1..n : a[i] <= D!Median(a) /\ D!Median(a) <= a[j]
  <1> DEFINE sorted == D!SortedBy(a, LAMBDA x : x)
  <1>1. n \in Nat \ {0} /\ DOMAIN a = 1..n /\ Len(a) = n /\ \A k \in 1..n : a[k] \in Int
    BY DEF Figures
  <1>2. PICK by : Sorts(by, a, n) /\ sorted = [r \in 1..n |-> a[by[r]]]
    <2>1. n \in Nat /\ DOMAIN a = 1..n /\ \A k \in 1..n : a[k] \in Int
      BY <1>1
    <2> QED BY <2>1, ByAmountIs
  <1>3. \A r \in 1..n : by[r] \in 1..n /\ sorted[r] = a[by[r]]
    BY <1>2 DEF Sorts
  <1>4. D!Median(a) = IF n % 2 = 1 THEN sorted[(n + 1) \div 2] ELSE (sorted[n \div 2] + sorted[n \div 2 + 1]) \div 2
    BY <1>1 DEF D!Median
  <1> HIDE DEF sorted
  <1>5. CASE n % 2 = 1
    <2>1. (n + 1) \div 2 \in 1..n
      BY <1>1
    <2>2. D!Median(a) = a[by[(n + 1) \div 2]] /\ by[(n + 1) \div 2] \in 1..n
      BY <1>3, <1>4, <1>5, <2>1
    <2>3. D!Median(a) \in Int
      BY <1>1, <2>2
    <2> QED BY <2>2, <2>3
  <1>6. CASE n % 2 # 1
    <2>1. n # 1
      BY <1>6
    <2>2. n \div 2 \in 1..n /\ n \div 2 + 1 \in 1..n
      BY <1>1, <2>1
    <2> DEFINE p == by[n \div 2]
               q == by[n \div 2 + 1]
    <2>3. D!Median(a) = (a[p] + a[q]) \div 2 /\ p \in 1..n /\ q \in 1..n
      BY <1>3, <1>4, <1>6, <2>2
    <2> HIDE DEF p, q
    <2> DEFINE x == a[p]
               y == a[q]
    <2>4. x \in Int /\ y \in Int /\ D!Median(a) = (x + y) \div 2
      BY <1>1, <2>3
    <2> HIDE DEF x, y
    <2>5. D!Median(a) \in Int /\ (x <= y => x <= D!Median(a) /\ D!Median(a) <= y)
          /\ (y <= x => y <= D!Median(a) /\ D!Median(a) <= x)
      BY <2>4
    <2>6. CASE x <= y
      BY <2>3, <2>5, <2>6 DEF x, y
    <2>7. CASE y <= x
      BY <2>3, <2>5, <2>7 DEF x, y
    <2> QED BY <2>4, <2>6, <2>7
  <1> QED BY <1>5, <1>6

LEMMA ExtremesAre ==
  ASSUME NEW a, NEW n, Figures(a, n)
  PROVE  LET S == D!ToSet(a) IN
         /\ D!Max(S) \in Int /\ D!Min(S) \in Int
         /\ \A k \in 1..n : D!Min(S) <= a[k] /\ a[k] <= D!Max(S)
  <1> DEFINE S == D!ToSet(a)
  <1>1. n \in Nat \ {0} /\ DOMAIN a = 1..n /\ \A k \in 1..n : a[k] \in Int
    BY DEF Figures
  <1>2. PICK by : Sorts(by, a, n)
    BY <1>1, ByAmountIs
  <1>3. /\ by \in [1..n -> 1..n]
        /\ \A k \in 1..n : \E r \in 1..n : by[r] = k
        /\ \A r, s \in 1..n : r < s => a[by[r]] < a[by[s]] \/ (a[by[r]] = a[by[s]] /\ by[r] < by[s])
    BY <1>2 DEF Sorts
  <1>4. 1 \in 1..n /\ n \in 1..n
    BY <1>1
  <1>5. \A k \in 1..n : a[by[1]] <= a[k] /\ a[k] <= a[by[n]]
    <2> TAKE k \in 1..n
    <2>1. PICK r \in 1..n : by[r] = k
      BY <1>3
    <2>2. by[1] \in 1..n /\ by[n] \in 1..n /\ a[by[1]] \in Int /\ a[by[n]] \in Int /\ a[k] \in Int
      BY <1>1, <1>3, <1>4
    <2>3. a[by[1]] <= a[k]
      <3>1. CASE r = 1
        BY <2>1, <2>2, <3>1
      <3>2. CASE r # 1
        <4>1. 1 < r
          BY <3>2
        <4>2. a[by[1]] < a[by[r]] \/ a[by[1]] = a[by[r]]
          BY Zenon, <1>3, <1>4, <4>1
        <4> QED BY <2>1, <2>2, <4>2
      <3> QED BY <3>1, <3>2
    <2>4. a[k] <= a[by[n]]
      <3>1. CASE r = n
        BY <2>1, <2>2, <3>1
      <3>2. CASE r # n
        <4>1. r < n
          BY <1>1, <3>2
        <4>2. a[by[r]] < a[by[n]] \/ a[by[r]] = a[by[n]]
          BY Zenon, <1>3, <1>4, <4>1
        <4> QED BY <2>1, <2>2, <4>2
      <3> QED BY <3>1, <3>2
    <2> QED BY <2>3, <2>4
  <1>6. S = {a[k] : k \in 1..n}
    BY <1>1 DEF D!ToSet
  <1>7. \A x \in S : x \in Int
    BY <1>1, <1>6
  <1>8. a[by[1]] \in S /\ a[by[n]] \in S /\ (\A y \in S : a[by[1]] <= y) /\ \A y \in S : a[by[n]] >= y
    <2>1. a[by[1]] \in S /\ a[by[n]] \in S
      BY <1>3, <1>4, <1>6
    <2>2. \A y \in S : a[by[1]] <= y /\ y <= a[by[n]]
      BY <1>5, <1>6
    <2> HIDE DEF S
    <2>3. \A y \in S : a[by[n]] >= y
      BY <1>7, <2>1, <2>2
    <2> QED BY <2>1, <2>2, <2>3
  <1> HIDE DEF S
  <1>9. D!Max(S) \in S /\ \A y \in S : D!Max(S) >= y
    <2>1. \E x \in S : \A y \in S : x >= y
      BY <1>8
    <2> QED BY <2>1 DEF D!Max
  <1>10. D!Min(S) \in S /\ \A y \in S : D!Min(S) <= y
    <2>1. \E x \in S : \A y \in S : x <= y
      BY <1>8
    <2> QED BY <2>1 DEF D!Min
  <1>11. \A k \in 1..n : D!Min(S) <= a[k] /\ a[k] <= D!Max(S)
    <2> TAKE k \in 1..n
    <2>1. a[k] \in S /\ a[k] \in Int /\ D!Max(S) \in Int
      BY <1>1, <1>6, <1>7, <1>9
    <2> QED BY <1>9, <1>10, <2>1
  <1> QED BY <1>7, <1>9, <1>10, <1>11 DEF S

\* A baseline lies between two of its amounts, and is at least four times
\* what lies between any two.
LEMMA BaselineIs ==
  ASSUME NEW a, NEW n, Figures(a, n), NEW base \in D!StableBaseline(a)
  PROVE  /\ n >= 2 /\ base \in Int /\ base > 0
         /\ \E i, j \in 1..n : a[i] <= base /\ base <= a[j]
         /\ \A i, j \in 1..n : 4 * (a[i] - a[j]) <= base
  <1> DEFINE hi == D!Max(D!ToSet(a))
             lo == D!Min(D!ToSet(a))
  <1>1. n \in Nat \ {0} /\ Len(a) = n /\ \A k \in 1..n : a[k] \in Int
    BY DEF Figures
  <1>2. ~(n < 2) /\ base = D!Median(a) /\ base > 0 /\ D!Steady(a)
    BY <1>1 DEF D!StableBaseline, D!MIN_BASELINE_POINTS
  <1>3. base \in Int /\ \E i, j \in 1..n : a[i] <= base /\ base <= a[j]
    BY <1>2, MedianBetween
  <1>4. hi \in Int /\ lo \in Int /\ \A k \in 1..n : lo <= a[k] /\ a[k] <= hi
    BY ExtremesAre
  <1>5. 4 * (hi - lo) <= base
    BY <1>2 DEF D!Steady
  <1> HIDE DEF hi, lo
  <1>6. \A i, j \in 1..n : 4 * (a[i] - a[j]) <= base
    BY <1>1, <1>3, <1>4, <1>5
  <1>7. n >= 2
    BY <1>1, <1>2
  <1> QED BY <1>2, <1>3, <1>6, <1>7

\* What a vendor has billed, in the order of the debits and in that of days.
Billed(debits, n, v) == {k \in 1..n : debits[k].vendor = v}

LEMMA BillsAre ==
  ASSUME NEW debits, NEW n, Scanned(debits, n), NEW v
  PROVE  \E at : Grouping(at, D!Bills(debits, v), debits, Billed(debits, n, v))
  <1> DEFINE K == Billed(debits, n, v)
             flat == [k \in DOMAIN debits |-> IF debits[k].vendor = v THEN <<debits[k]>> ELSE <<>>]
  <1>1. n \in Nat /\ DOMAIN debits = 1..n
    BY DEF Scanned
  <1>2. K \in SUBSET (1..n) /\ \A k \in 1..n : k \in K <=> debits[k].vendor = v
    BY DEF Billed
  <1> HIDE DEF K
  <1>3. flat = Given(n, K, debits)
    BY <1>1, <1>2 DEF Given
  <1>4. D!Bills(debits, v) = FlattenSeq(flat)
    BY SameFlattenD DEF D!Bills
  <1> HIDE DEF flat
  <1>5. D!Bills(debits, v) = FlattenSeq(Given(n, K, debits))
    BY <1>3, <1>4
  <1>6. \E at : Grouping(at, FlattenSeq(Given(n, K, debits)), debits, K)
    BY <1>1, <1>2, GroupIs
  <1> QED BY <1>5, <1>6 DEF K

LEMMA BillsByDateAre ==
  ASSUME NEW debits, NEW n, Scanned(debits, n), NEW v
  PROVE  \E src, m : /\ Chronicle(src, m, debits, Billed(debits, n, v))
                     /\ D!ByDate(D!Bills(debits, v)) = [r \in 1..m |-> debits[src[r]]]
  <1> DEFINE K == Billed(debits, n, v)
             flat == [k \in DOMAIN debits |-> IF debits[k].vendor = v THEN <<debits[k]>> ELSE <<>>]
  <1>1. n \in Nat /\ DOMAIN debits = 1..n /\ \A k \in 1..n : debits[k].day \in Int
    BY DEF Scanned
  <1>2. K \in SUBSET (1..n) /\ \A k \in 1..n : k \in K <=> debits[k].vendor = v
    BY DEF Billed
  <1> HIDE DEF K
  <1>3. flat = Given(n, K, debits)
    BY <1>1, <1>2 DEF Given
  <1>4. D!Bills(debits, v) = FlattenSeq(flat)
    BY SameFlattenD DEF D!Bills
  <1> HIDE DEF flat
  <1>5. D!Bills(debits, v) = FlattenSeq(Given(n, K, debits))
    BY <1>3, <1>4
  <1>6. \E src, m : /\ Chronicle(src, m, debits, K)
                    /\ D!ByDate(FlattenSeq(Given(n, K, debits))) = [r \in 1..m |-> debits[src[r]]]
    <2>1. n \in Nat /\ K \in SUBSET (1..n) /\ \A k \in 1..n : debits[k].day \in Int
      BY <1>1, <1>2
    <2> QED BY <2>1, ChronicleIs
  <1> QED BY <1>5, <1>6 DEF K

\* The amounts before the latest bill, with nothing remembered.
LEMMA EarlierAmounts ==
  ASSUME NEW debits, NEW n, Scanned(debits, n), NEW src, NEW m, m \in Nat \ {0}, NEW K \in SUBSET (1..n),
         Chronicle(src, m, debits, K), NEW sorted, sorted = [r \in 1..m |-> debits[src[r]]]
  PROVE  /\ D!Last(sorted) = debits[src[m]]
         /\ D!Amounts(D!Front(sorted)) \o <<>> = [r \in 1..(m - 1) |-> debits[src[r]].amount]
  <1> DEFINE V == {debits[k] : k \in 1..n}
             front == SubSeq(sorted, 1, m - 1)
             amounts == [r \in 1..(m - 1) |-> front[r].amount]
  <1>1. \A r \in 1..m : src[r] \in 1..n /\ sorted[r] = debits[src[r]]
    BY DEF Chronicle
  <1>2. sorted \in [1..m -> V]
    BY <1>1
  <1> HIDE DEF V
  <1>3. sorted \in Seq(V) /\ Len(sorted) = m
    BY <1>2
  <1>4. D!Last(sorted) = debits[src[m]]
    <2>1. m \in 1..m
      OBVIOUS
    <2> QED BY <1>1, <1>3, <2>1 DEF D!Last
  <1>5. D!Front(sorted) = front
    BY <1>3 DEF D!Front
  <1>6. DOMAIN front = 1..(m - 1) /\ \A r \in 1..(m - 1) : front[r] = sorted[r]
    <2>1. m - 1 \in Nat /\ m - 1 <= m
      OBVIOUS
    <2> QED BY <1>3, <2>1
  <1> HIDE DEF front
  <1>7. D!Amounts(front) = amounts
    BY <1>6 DEF D!Amounts
  <1>8. \A r \in 1..(m - 1) : amounts[r] = debits[src[r]].amount /\ amounts[r] \in Int
    <2> TAKE r \in 1..(m - 1)
    <2>1. r \in 1..m
      OBVIOUS
    <2>2. amounts[r] = sorted[r].amount
      BY <1>6
    <2>3. sorted[r] = debits[src[r]] /\ src[r] \in 1..n
      BY <1>1, <2>1
    <2> HIDE DEF amounts
    <2> QED BY <2>2, <2>3 DEF Scanned
  <1>9. amounts = [r \in 1..(m - 1) |-> debits[src[r]].amount]
    <2>1. \A r \in 1..(m - 1) : front[r].amount = debits[src[r]].amount
      BY <1>8
    <2> QED BY Zenon, <2>1
  <1>10. amounts \in Seq(Int)
    <2>1. m - 1 \in Nat
      OBVIOUS
    <2>2. amounts \in [1..(m - 1) -> Int]
      BY <1>8
    <2> HIDE DEF amounts
    <2> QED BY <2>1, <2>2
  <1> HIDE DEF amounts
  <1>11. amounts \o <<>> = amounts
    BY <1>10
  <1> QED BY <1>4, <1>5, <1>7, <1>9, <1>11

\* Of the same amounts no baseline is learned that the latest overcharges.
LEMMA NoBaseline ==
  ASSUME NEW a, NEW m, Figures(a, m), NEW base \in D!StableBaseline(a),
         NEW b, NEW n, Figures(b, n), NEW other \in D!StableBaseline(b),
         \A i \in 1..m : \E r \in 1..n : a[i] = b[r],
         NEW latest \in {b[r] : r \in 1..n}, 2 * latest >= 3 * base
  PROVE  FALSE
  <1>1. PICK i \in 1..m : a[i] <= base /\ base > 0 /\ base \in Int
    BY BaselineIs
  <1>2. PICK r \in 1..n : a[i] = b[r]
    OBVIOUS
  <1>3. PICK j \in 1..n : other <= b[j] /\ other \in Int
    BY BaselineIs
  <1>4. PICK l \in 1..n : latest = b[l]
    OBVIOUS
  <1>5. \A x, y \in 1..n : 4 * (b[x] - b[y]) <= other
    BY BaselineIs
  <1>6. 4 * (b[j] - b[r]) <= other /\ 4 * (b[l] - b[r]) <= other
    BY <1>5
  <1>7. b[j] \in Int /\ b[r] \in Int /\ b[l] \in Int
    BY DEF Figures
  <1> DEFINE p == b[j]
             q == b[r]
             z == b[l]
  <1>8. p \in Int /\ q \in Int /\ z \in Int /\ 4 * (p - q) <= other /\ 4 * (z - q) <= other
        /\ other <= p /\ q <= base /\ 2 * z >= 3 * base
    BY <1>1, <1>2, <1>3, <1>4, <1>6, <1>7
  <1> HIDE DEF p, q, z
  <1> QED BY <1>1, <1>3, <1>8

LEMMA OverchargeIsNotLearned ==
  ASSUME NEW debits, NEW n, Scanned(debits, n),
         NEW f \in D!DetectDeviations(debits, [v \in {t.vendor : t \in ToSet(debits)} |-> <<>>]),
         NEW t \in ToSet(debits), f.kind = "overcharge", f.txn = t.id,
         NEW c \in D!BaselineClaims(debits)
  PROVE  c[1] # t.vendor
  <1> DEFINE vendors == {u.vendor : u \in ToSet(debits)}
             memory == [v \in vendors |-> <<>>]
  <1>1. n \in Nat /\ DOMAIN debits = 1..n /\ ToSet(debits) = {debits[k] : k \in 1..n}
        /\ (\A k \in 1..n : debits[k].amount \in Int)
        /\ \A j, k \in 1..n : debits[j].id = debits[k].id => j = k
    BY DEF Scanned, ToSet
  <1>2. D!Vendors(debits) = vendors
    BY SameSetD DEF D!Vendors
  <1>3. \A v \in vendors : memory[v] = <<>>
    OBVIOUS
  <1>4. f \in D!DetectDeviations(debits, memory)
    OBVIOUS
  <1> HIDE DEF memory
  <1> DEFINE bills(w) == D!ByDate(D!Bills(debits, w))
             past(w) == D!Amounts(D!Front(bills(w))) \o memory[w]
  <1>a. PICK v \in vendors : \E b \in D!StableBaseline(past(v)) :
          f.kind = D!DeviationKind(D!Last(bills(v)).amount, b) /\ f.txn = D!Last(bills(v)).id
    BY <1>2, <1>4 DEF D!DetectDeviations
  <1>5. PICK base \in D!StableBaseline(past(v)) :
          f.kind = D!DeviationKind(D!Last(bills(v)).amount, base) /\ f.txn = D!Last(bills(v)).id
    BY <1>a
  <1> DEFINE K == Billed(debits, n, v)
  <1>6. K \in SUBSET (1..n) /\ (\A k \in 1..n : k \in K <=> debits[k].vendor = v) /\ K # {}
    <2>1. \E k \in 1..n : debits[k].vendor = v
      BY <1>1
    <2> QED BY <2>1 DEF Billed
  <1>7. PICK src, m : Chronicle(src, m, debits, K) /\ bills(v) = [r \in 1..m |-> debits[src[r]]]
    BY BillsByDateAre
  <1>8. PICK at : Grouping(at, D!Bills(debits, v), debits, K)
    BY BillsAre
  <1> HIDE DEF K, bills
  <1>9. /\ m \in Nat \ {0} /\ m \in 1..m /\ (\A r \in 1..m : src[r] \in K /\ src[r] \in 1..n)
    <2>1. m \in Nat /\ (\A k \in K : \E r \in 1..m : src[r] = k) /\ src \in [1..m -> K]
      BY <1>7 DEF Chronicle
    <2>2. m # 0
      <3>1. PICK k \in K : TRUE
        BY <1>6
      <3>2. PICK r \in 1..m : src[r] = k
        BY <2>1
      <3>3. 1 <= r /\ r <= m /\ r \in Int
        BY <2>1
      <3> QED BY <3>3
    <2>3. m \in 1..m
      BY <2>1, <2>2
    <2>4. \A r \in 1..m : src[r] \in K
      BY <2>1
    <2>5. \A r \in 1..m : src[r] \in 1..n
      BY <1>6, <2>4
    <2> QED BY <2>1, <2>2, <2>3, <2>4, <2>5
  <1> DEFINE a == [r \in 1..(m - 1) |-> debits[src[r]].amount]
             latest == debits[src[m]]
             g == D!Bills(debits, v)
             b == [r \in 1..Len(g) |-> g[r].amount]
  <1>10. D!Last(bills(v)) = latest /\ D!Amounts(D!Front(bills(v))) \o <<>> = a
    <2> DEFINE sorted == bills(v)
    <2>1. sorted = [r \in 1..m |-> debits[src[r]]]
      BY <1>7
    <2>2. K \in SUBSET (1..n) /\ m \in Nat \ {0} /\ Chronicle(src, m, debits, K)
      BY <1>6, <1>7, <1>9
    <2> HIDE DEF sorted
    <2>3. D!Last(sorted) = debits[src[m]]
          /\ D!Amounts(D!Front(sorted)) \o <<>> = [r \in 1..(m - 1) |-> debits[src[r]].amount]
      BY <2>1, <2>2, EarlierAmounts
    <2> QED BY <2>3 DEF sorted
  <1>11. base \in D!StableBaseline(a) /\ f.txn = latest.id /\ f.kind = D!DeviationKind(latest.amount, base)
    BY <1>3, <1>5, <1>10
  <1>12. 2 * latest.amount >= 3 * base
    BY <1>11 DEF D!DeviationKind
  <1>13. t = latest /\ latest.vendor = v
    <2>1. PICK k \in 1..n : t = debits[k]
      BY <1>1
    <2>2. debits[k].id = debits[src[m]].id /\ src[m] \in 1..n /\ src[m] \in K
      BY <1>9, <1>11, <2>1
    <2>3. k = src[m]
      BY <1>1, <2>2
    <2> QED BY <1>6, <2>1, <2>2, <2>3
  <1> SUFFICES ASSUME c[1] = v PROVE FALSE
    BY <1>13
  <1>14. PICK other : other \in D!StableBaseline(D!Amounts(g))
    <2>1. PICK w, o : o \in D!StableBaseline(D!Amounts(D!Bills(debits, w))) /\ c = <<w, o>>
      BY DEF D!BaselineClaims
    <2>2. w = v
      BY <2>1
    <2> QED BY <2>1, <2>2
  <1> HIDE DEF g
  <1>15. /\ Len(g) \in Nat /\ DOMAIN g = 1..Len(g)
         /\ \A r \in 1..Len(g) : at[r] \in K /\ g[r] = debits[at[r]]
         /\ \A k \in K : \E r \in 1..Len(g) : at[r] = k
    BY <1>8 DEF Grouping, g
  <1>16. D!Amounts(g) = b
    BY <1>15 DEF D!Amounts
  <1>17. \A k \in K : \E r \in 1..Len(g) : b[r] = debits[k].amount
    BY <1>15
  <1>18. Len(g) # 0
    <2>1. PICK k \in K : TRUE
      BY <1>6
    <2>2. PICK r \in 1..Len(g) : at[r] = k
      BY <1>15
    <2>3. 1 <= r /\ r <= Len(g) /\ r \in Int
      BY <1>15
    <2> QED BY <2>3
  <1>19. Figures(b, Len(g))
    <2> DEFINE l == Len(g)
    <2>1. l \in Nat \ {0}
      BY <1>15, <1>18
    <2>2. \A r \in 1..l : b[r] \in Int
      <3> TAKE r \in 1..l
      <3>1. at[r] \in 1..n /\ b[r] = debits[at[r]].amount
        BY <1>6, <1>15
      <3> HIDE DEF b
      <3> QED BY <1>1, <3>1
    <2>3. DOMAIN b = 1..l
      OBVIOUS
    <2> HIDE DEF b, l
    <2>4. b \in [1..l -> Int]
      <3>1. b = [r \in 1..l |-> b[r]]
        BY DEF b, l
      <3> QED BY <2>2, <2>3, <3>1
    <2>5. Len(b) = l
      BY <2>1, <2>4
    <2> QED BY <2>1, <2>2, <2>3, <2>5 DEF Figures, l
  <1>20. \A r \in 1..(m - 1) : a[r] \in Int /\ \E s \in 1..Len(g) : a[r] = b[s]
    <2> TAKE r \in 1..(m - 1)
    <2>1. r \in 1..m
      BY <1>9
    <2>2. src[r] \in K /\ src[r] \in 1..n /\ a[r] = debits[src[r]].amount
      BY <1>9, <2>1
    <2> HIDE DEF a, b
    <2> QED BY <1>1, <1>17, <2>2
  <1>21. latest.amount \in {b[s] : s \in 1..Len(g)}
    <2>1. \E s \in 1..Len(g) : b[s] = latest.amount
      BY <1>9, <1>17
    <2> HIDE DEF b, latest
    <2> QED BY <2>1
  <1>22. m - 1 \in Nat /\ DOMAIN a = 1..(m - 1) /\ Len(a) = m - 1
    <2> DEFINE k == m - 1
    <2>1. k \in Nat /\ DOMAIN a = 1..k
      BY <1>9
    <2>2. a \in [1..k -> Int]
      BY <1>20
    <2> HIDE DEF a, k
    <2>3. Len(a) = k
      BY <2>1, <2>2
    <2> QED BY <2>1, <2>3 DEF k
  <1>23. Len(a) >= 2
    BY <1>11, <1>22 DEF D!StableBaseline, D!MIN_BASELINE_POINTS
  <1> DEFINE k == m - 1
  <1>24. Figures(a, k)
    <2>1. k \in Nat \ {0}
      BY <1>22, <1>23
    <2> QED BY <1>20, <1>22, <2>1 DEF Figures
  <1>25. \A r \in 1..k : \E s \in 1..Len(g) : a[r] = b[s]
    BY <1>20
  <1> DEFINE l == Len(g)
             z == latest.amount
  <1>26. z \in {b[s] : s \in 1..l} /\ 2 * z >= 3 * base /\ Figures(b, l) /\ other \in D!StableBaseline(b)
    BY <1>12, <1>14, <1>16, <1>19, <1>21
  <1>27. \A r \in 1..k : \E s \in 1..l : a[r] = b[s]
    BY <1>25
  <1> HIDE DEF a, b, k, l, z
  <1> QED BY <1>11, <1>24, <1>26, <1>27, NoBaseline

-----------------------------------------------------------------------------
ScanAnswered == call = "scan" => input \in DebitInputs /\ result = D!DetectDuplicates(input)

LEMMA ScansAnswer == CallSpec => []ScanAnswered
  <1>1. Uncalled => ScanAnswered
    BY DEF Uncalled, ScanAnswered
  <1>2. ScanAnswered /\ [OneCall]_callVars => ScanAnswered'
    BY Zenon DEF ScanAnswered, OneCall, callVars, Match, Accrue, Forecast, Rank, Scan, Pack, Mine, Grade, Report,
              ReadStatement, ReadExport, Chase, AfterCall, Return
  <1> QED BY <1>1, <1>2, PTL DEF CallSpec

LEMMA ScansAreSound ==
  ASSUME DebitsAreGiven, ScanAnswered
  PROVE  DetectionSound
  <1> SUFFICES ASSUME call = "scan" PROVE DetectionSound
    BY DEF DetectionSound, EveryRepeatIsFound, RescansAgree, LearnedIsNotOvercharged, Called
  <1> DEFINE n == Len(input)
  <1>1. input \in Seq({input[k] : k \in DOMAIN input}) /\ result = D!DetectDuplicates(input)
        /\ (\A k \in DOMAIN input : input[k].day \in Int /\ input[k].amount \in Int)
        /\ \A j, k \in DOMAIN input : input[j].id = input[k].id => j = k
    BY DEF DebitsAreGiven, ScanAnswered
  <1>2. n \in Nat /\ DOMAIN input = 1..n
    BY <1>1
  <1>3. Scanned(input, n)
    BY <1>1, <1>2 DEF Scanned
  <1>4. EveryRepeatIsFound
    <2>1. \A f, g \in D!DetectDuplicates(input) : f.second = g.second => f = g
      BY <1>3, RaisedOnce
    <2>2. ASSUME NEW t \in ToSet(input)
          PROVE LET equal == {u \in ToSet(input) : u.vendor = t.vendor /\ u.amount = t.amount} IN
         Cardinality({f \in D!DetectDuplicates(input) : \E u \in equal : u.id = f.second /\ f.recoverable = u.amount}) =
           Cardinality(equal) - Cardinality(Begins(input, t))
      <3> HIDE DEF n
      <3> QED BY <1>3, RepeatsAreCounted
    <2> QED BY <1>1, <2>1, <2>2 DEF EveryRepeatIsFound
  <1>5. RescansAgree
    <2> SUFFICES ASSUME OneADay
                 PROVE  LET latest == {k \in DOMAIN input : \A l \in DOMAIN input : input[l].day <= input[k].day}
             backwards == [k \in DOMAIN input |-> input[Len(input) + 1 - k]]
         IN  /\ D!DetectDuplicates(backwards) = D!DetectDuplicates(input)
             /\ \A k \in latest :
                  D!DetectDuplicates(SubSeq(input, 1, k - 1) \o SubSeq(input, k + 1, Len(input))) \subseteq D!DetectDuplicates(input)
      BY <1>1 DEF RescansAgree
    <2>1. OneADayOf(input, Len(input))
      BY <1>2, <1>3 DEF OneADay, OneADayOf
    <2> DEFINE V == {input[k] : k \in DOMAIN input}
    <2>2. input \in Seq(V)
      BY <1>1
    <2> HIDE DEF V, n
    <2> QED BY <2>1, <2>2, RescansFindIt
  <1>6. LearnedIsNotOvercharged
    <2> HIDE DEF n
    <2> SUFFICES ASSUME NEW f \in D!DetectDeviations(input, [v \in {t.vendor : t \in ToSet(input)} |-> <<>>]),
                        NEW t \in ToSet(input), f.kind = "overcharge", f.txn = t.id,
                        NEW c \in D!BaselineClaims(input)
                 PROVE  c[1] # t.vendor
      BY DEF LearnedIsNotOvercharged
    <2> QED BY <1>3, OverchargeIsNotLearned
  <1> QED BY <1>4, <1>5, <1>6 DEF DetectionSound

\* Whatever debits are scanned: every repeat within a week is raised once, a
\* rescan finds what was found, and a vendor whose latest bill is an overcharge
\* leaves no baseline to be learned.
THEOREM DetectionStaysSound ==
  ASSUME DebitsAreGiven
  PROVE  CallSpec => []DetectionSound
  BY ScansAnswer, ScansAreSound, PTL

-----------------------------------------------------------------------------
(* Matches: one pass over the payments.                                     *)

LEMMA SmallSetToSeq ==
  /\ SetToSeq({}) = <<>>
  /\ \A p : SetToSeq({p}) = <<p>>
  <1>1. SetToSeq({}) = <<>>
    <2> DEFINE e == [r \in 1..0 |-> 0]
    <2>1. Cardinality({}) = 0
      BY FS_EmptySet
    <2>2. 1..0 = {}
      OBVIOUS
    <2>3. \A f \in [1..0 -> {}] : f = <<>>
      BY <2>2
    <2>4. <<>> \in [1..0 -> {}] /\ IsInjective(<<>>)
      BY <2>2 DEF IsInjective
    <2>5. (CHOOSE f \in [1..0 -> {}] : IsInjective(f)) \in [1..0 -> {}]
      BY <2>4
    <2> QED BY <2>1, <2>3, <2>5 DEF SetToSeq
  <1>2. ASSUME NEW p PROVE SetToSeq({p}) = <<p>>
    <2>1. Cardinality({p}) = 1
      BY FS_Singleton
    <2>2. 1..1 = {1}
      OBVIOUS
    <2>3. \A f \in [1..1 -> {p}] : f = <<p>>
      BY <2>2
    <2>4. <<p>> \in [1..1 -> {p}] /\ IsInjective(<<p>>)
      BY <2>2 DEF IsInjective
    <2>5. (CHOOSE f \in [1..1 -> {p}] : IsInjective(f)) \in [1..1 -> {p}]
      BY <2>4
    <2> QED BY <2>1, <2>3, <2>5 DEF SetToSeq
  <1> QED BY <1>1, <1>2

\* The invoices that no proposal of s takes.
FreeOf(open, s) == {i \in open : \A k \in DOMAIN s : s[k].invoice # i.id}

\* What is offered for the m-th payment out of the invoices S: nothing, or
\* one of them.
IsOffer(O, txn, S) == O = {} \/ \E p : O = {p} /\ p.txn = txn.id /\ \E i \in S : p.invoice = i.id
Offering(offer, txns, n, open) ==
  /\ n \in Nat
  /\ \A m \in 1..n, S \in SUBSET open : IsOffer(offer[<<m, S>>], txns[m], S)
  /\ \A l, m \in 1..n : txns[l].id = txns[m].id => l = m

\* The proposals after each payment.
AfterTurn(offer, open, s, m) == s \o SetToSeq(offer[<<m, FreeOf(open, s)>>])
IsPass(after, offer, n, open) ==
  after[0] = <<>> /\ \A m \in 1..n : after[m] = AfterTurn(offer, open, after[m - 1], m)

\* The offer a payment had in its turn.
Turn(after, offer, open, m) == offer[<<m, FreeOf(open, after[m - 1])>>]
Every(offer, n, open) == UNION {offer[w] : w \in (1..n) \X SUBSET open}

LEMMA FreeIn ==
  ASSUME NEW open, NEW s
  PROVE  FreeOf(open, s) \in SUBSET open
  BY DEF FreeOf

\* The next payment adds its proposal, if any.
Adds1(s, t, O, txn, S, V) ==
  /\ t \in Seq(V)
  /\ \/ O = {} /\ t = s
     \/ \E p \in V : O = {p} /\ t = Append(s, p) /\ p.txn = txn.id /\ \E i \in S : p.invoice = i.id

LEMMA NextIs ==
  ASSUME NEW offer, NEW txns, NEW n, NEW open, Offering(offer, txns, n, open),
         NEW m \in 1..n, NEW s \in Seq(Every(offer, n, open))
  PROVE  Adds1(s, AfterTurn(offer, open, s, m), offer[<<m, FreeOf(open, s)>>], txns[m], FreeOf(open, s), Every(offer, n, open))
  <1> DEFINE V == Every(offer, n, open)
             S == FreeOf(open, s)
             O == offer[<<m, S>>]
             t == AfterTurn(offer, open, s, m)
  <1>1. S \in SUBSET open
    BY FreeIn
  <1>2. O \subseteq V
    <2>1. <<m, S>> \in (1..n) \X SUBSET open
      BY <1>1
    <2> HIDE DEF S
    <2> QED BY <2>1 DEF Every
  <1>3. t = s \o SetToSeq(O)
    BY DEF AfterTurn
  <1>4. IsOffer(O, txns[m], S)
    BY <1>1 DEF Offering
  <1> HIDE DEF t, O, S, V
  <1>5. ASSUME O = {} PROVE Adds1(s, t, O, txns[m], S, V)
    <2>1. t = s \o <<>>
      BY <1>3, <1>5, SmallSetToSeq
    <2>2. t = s
      BY <2>1 DEF V
    <2>3. t \in Seq(V)
      BY <2>2 DEF V
    <2> QED BY <1>5, <2>2, <2>3 DEF Adds1
  <1>6. ASSUME NEW p, O = {p}, p.txn = txns[m].id, \E i \in S : p.invoice = i.id
        PROVE  Adds1(s, t, O, txns[m], S, V)
    <2>1. p \in V
      BY <1>2, <1>6
    <2>2. t = s \o <<p>>
      BY <1>3, <1>6, SmallSetToSeq
    <2>3. s \in Seq(V)
      BY DEF V
    <2>4. t = Append(s, p) /\ t \in Seq(V)
      BY <2>1, <2>2, <2>3
    <2> QED BY <1>6, <2>1, <2>4 DEF Adds1
  <1>7. Adds1(s, t, O, txns[m], S, V)
    <2> HIDE DEF IsOffer
    <2>1. O = {} \/ \E p : O = {p} /\ p.txn = txns[m].id /\ \E i \in S : p.invoice = i.id
      BY <1>4 DEF IsOffer
    <2> QED BY <1>5, <1>6, <2>1
  <1> QED BY <1>7 DEF V, t, O, S

LEMMA PassExists ==
  ASSUME NEW offer, NEW txns, NEW n, NEW open, Offering(offer, txns, n, open)
  PROVE  \E after : after = [m \in 0..n |-> IF m = 0 THEN <<>> ELSE AfterTurn(offer, open, after[m - 1], m)]
  <1> DEFINE V == Every(offer, n, open)
             F == [w \in (1..n) \X Seq(V) |-> AfterTurn(offer, open, w[2], w[1])]
  <1>0. n \in Nat
    BY DEF Offering
  <1>1. \A m \in 1..n, s \in Seq(V) : AfterTurn(offer, open, s, m) \in Seq(V)
    BY NextIs DEF Adds1
  <1> HIDE DEF V
  <1>2. F \in [(1..n) \X Seq(V) -> Seq(V)] /\ <<>> \in Seq(V)
    BY <1>1
  <1>3. \A m \in 1..n, s \in Seq(V) : F[<<m, s>>] = AfterTurn(offer, open, s, m)
    OBVIOUS
  <1> HIDE DEF F
  <1>4. PICK after \in [0..n -> Seq(V)] : Goes(after, n, <<>>, F)
    BY <1>0, <1>2, StepsLead
  <1> DEFINE g == [m \in 0..n |-> IF m = 0 THEN <<>> ELSE AfterTurn(offer, open, after[m - 1], m)]
  <1>5. after = [m \in 0..n |-> IF m = 0 THEN <<>> ELSE F[<<m, after[m - 1]>>]]
    BY <1>4 DEF Goes
  <1>6. \A m \in 0..n : after[m] = g[m]
    <2> TAKE m \in 0..n
    <2>1. after[m] = IF m = 0 THEN <<>> ELSE F[<<m, after[m - 1]>>]
      BY <1>5
    <2>2. m # 0 => m \in 1..n /\ m - 1 \in 0..n
      BY <1>0
    <2>3. m # 0 => after[m - 1] \in Seq(V)
      BY <1>4, <2>2
    <2>4. m # 0 => F[<<m, after[m - 1]>>] = AfterTurn(offer, open, after[m - 1], m)
      BY <1>3, <2>2, <2>3
    <2> QED BY <2>1, <2>4
  <1>7. DOMAIN g = 0..n /\ DOMAIN after = 0..n /\ after = [m \in 0..n |-> after[m]] /\ g = [m \in 0..n |-> g[m]]
    BY <1>4
  <1> HIDE DEF g
  <1>8. after = g
    BY <1>6, <1>7
  <1> QED BY <1>8 DEF g

LEMMA PassOf ==
  ASSUME NEW offer, NEW n \in Nat, NEW open, NEW after,
         after = [m \in 0..n |-> IF m = 0 THEN <<>> ELSE AfterTurn(offer, open, after[m - 1], m)]
  PROVE  IsPass(after, offer, n, open)
  <1>1. \A m \in 0..n : after[m] = IF m = 0 THEN <<>> ELSE AfterTurn(offer, open, after[m - 1], m)
    OBVIOUS
  <1>2. 0 \in 0..n /\ \A m \in 1..n : m \in 0..n /\ m # 0
    OBVIOUS
  <1> QED BY <1>1, <1>2 DEF IsPass

\* What is known after the m-th payment.
Knows(after, offer, txns, n, open, m) ==
  /\ after[m] \in Seq(Every(offer, n, open))
  /\ \A k \in DOMAIN after[m] : \E l \in 1..m : after[m][k] \in Turn(after, offer, open, l)
  /\ \A l \in 1..m : \A p \in Turn(after, offer, open, l) : \E k \in DOMAIN after[m] : after[m][k] = p
  /\ \A j, k \in DOMAIN after[m] :
       j # k => after[m][j].txn # after[m][k].txn /\ after[m][j].invoice # after[m][k].invoice

LEMMA TurnIs ==
  ASSUME NEW offer, NEW txns, NEW n, NEW open, Offering(offer, txns, n, open),
         NEW after, NEW m \in 1..n, NEW p \in Turn(after, offer, open, m)
  PROVE  Turn(after, offer, open, m) = {p} /\ p.txn = txns[m].id /\ \E i \in FreeOf(open, after[m - 1]) : p.invoice = i.id
  <1> DEFINE S == FreeOf(open, after[m - 1])
  <1>1. S \in SUBSET open
    BY FreeIn
  <1> HIDE DEF S
  <1>2. IsOffer(offer[<<m, S>>], txns[m], S) /\ p \in offer[<<m, S>>]
    BY <1>1 DEF Offering, Turn, S
  <1> QED BY <1>2 DEF IsOffer, Turn, S

LEMMA PassKnows ==
  ASSUME NEW offer, NEW txns, NEW n, NEW open, Offering(offer, txns, n, open),
         NEW after, IsPass(after, offer, n, open), NEW m \in 0..n
  PROVE  Knows(after, offer, txns, n, open, m)
  <1> DEFINE V == Every(offer, n, open)
             Good == {l \in 0..n : Knows(after, offer, txns, n, open, l)}
  <1>0. n \in Nat
    BY DEF Offering
  <1>1. 0 \in Good
    <2>1. 0 \in 0..n /\ after[0] = <<>> /\ DOMAIN <<>> = {} /\ 1..0 = {}
      BY <1>0 DEF IsPass
    <2>2. <<>> \in Seq(V)
      OBVIOUS
    <2> HIDE DEF V
    <2> QED BY <2>1, <2>2 DEF Knows, V
  <1>2. ASSUME NEW l \in 1..n, l - 1 \in Good PROVE l \in Good
    <2> DEFINE s == after[l - 1]
               t == after[l]
               T == Turn(after, offer, open, l)
    <2>1. s \in Seq(V) /\ t = AfterTurn(offer, open, s, l) /\ Knows(after, offer, txns, n, open, l - 1)
          /\ l \in 0..n /\ l - 1 \in 0..n /\ l \in Nat
      BY <1>2 DEF Knows, IsPass
    <2>2. /\ \A k \in DOMAIN s : \E j \in 1..(l - 1) : s[k] \in Turn(after, offer, open, j)
          /\ \A j \in 1..(l - 1) : \A p \in Turn(after, offer, open, j) : \E k \in DOMAIN s : s[k] = p
          /\ \A j, k \in DOMAIN s : j # k => s[j].txn # s[k].txn /\ s[j].invoice # s[k].invoice
      BY <2>1 DEF Knows
    <2>3. /\ t \in Seq(V)
          /\ \/ T = {} /\ t = s
             \/ \E p \in V : T = {p} /\ t = Append(s, p) /\ p.txn = txns[l].id /\ \E i \in FreeOf(open, s) : p.invoice = i.id
      <3>1. T = offer[<<l, FreeOf(open, s)>>]
        BY DEF Turn
      <3> HIDE DEF s, t, T
      <3>2. Adds1(s, AfterTurn(offer, open, s, l), offer[<<l, FreeOf(open, s)>>], txns[l], FreeOf(open, s), V)
        BY <2>1, NextIs
      <3> HIDE DEF V
      <3> QED BY <2>1, <3>1, <3>2 DEF Adds1
    <2>4. 1..l = (1..(l - 1)) \cup {l} /\ l \notin 1..(l - 1)
      BY <2>1
    <2> HIDE DEF s, t, T, V
    <2>5. CASE T = {} /\ t = s
      <3>1. \A k \in DOMAIN t : \E j \in 1..l : t[k] \in Turn(after, offer, open, j)
        BY <2>2, <2>4, <2>5
      <3>2. \A j \in 1..l : \A p \in Turn(after, offer, open, j) : \E k \in DOMAIN t : t[k] = p
        <4> TAKE j \in 1..l
        <4> TAKE p \in Turn(after, offer, open, j)
        <4>1. j # l
          BY <2>5 DEF T
        <4>2. j \in 1..(l - 1)
          BY <2>4, <4>1
        <4> QED BY <2>2, <2>5, <4>2
      <3> QED BY <2>1, <2>2, <2>3, <2>5, <3>1, <3>2 DEF Knows, t, V
    <2>6. ASSUME NEW p \in V, T = {p}, t = Append(s, p), p.txn = txns[l].id, NEW i \in FreeOf(open, s), p.invoice = i.id
          PROVE  Knows(after, offer, txns, n, open, l)
      <3> DEFINE a == Len(s)
      <3>1. a \in Nat /\ DOMAIN s = 1..a /\ DOMAIN t = 1..(a + 1) /\ t[a + 1] = p /\ \A k \in 1..a : t[k] = s[k]
        BY <2>1, <2>6
      <3> HIDE DEF a
      <3>2. \A k \in 1..(a + 1) : k = a + 1 \/ k \in 1..a
        BY <3>1
      <3>3. \A k \in 1..a : k \in 1..(a + 1)
        BY <3>1
      <3>4. a + 1 \in 1..(a + 1)
        BY <3>1
      <3>5. \A k \in DOMAIN t : \E j \in 1..l : t[k] \in Turn(after, offer, open, j)
        <4> TAKE k \in DOMAIN t
        <4>1. CASE k = a + 1
          BY <2>4, <2>6, <3>1, <4>1 DEF T
        <4>2. CASE k \in 1..a
          BY <2>2, <2>4, <3>1, <4>2
        <4> QED BY <3>1, <3>2, <4>1, <4>2
      <3>6. \A j \in 1..l : \A q \in Turn(after, offer, open, j) : \E k \in DOMAIN t : t[k] = q
        <4> TAKE j \in 1..l
        <4> TAKE q \in Turn(after, offer, open, j)
        <4>1. CASE j = l
          <5>1. q = p
            BY <2>6, <4>1 DEF T
          <5> QED BY <3>1, <3>4, <5>1
        <4>2. CASE j \in 1..(l - 1)
          BY <2>2, <3>1, <3>3, <4>2
        <4> QED BY <2>4, <4>1, <4>2
      <3>7. ASSUME NEW k \in 1..a PROVE s[k].txn # p.txn /\ s[k].invoice # p.invoice
        <4>1. PICK j \in 1..(l - 1) : s[k] \in Turn(after, offer, open, j)
          BY <2>2, <3>1
        <4>2. j \in 1..n /\ j # l
          BY <2>1, <2>4, <1>0
        <4>3. s[k].txn = txns[j].id
          BY <4>1, <4>2, TurnIs
        <4>4. txns[j].id # txns[l].id
          BY <4>2 DEF Offering
        <4>5. s[k].invoice # i.id
          BY <3>1 DEF FreeOf
        <4> QED BY <2>6, <4>3, <4>4, <4>5
      <3>8. \A j, k \in DOMAIN t : j # k => t[j].txn # t[k].txn /\ t[j].invoice # t[k].invoice
        <4> TAKE j, k \in DOMAIN t
        <4>1. CASE j = a + 1 /\ k = a + 1
          BY <4>1
        <4>2. CASE j = a + 1 /\ k \in 1..a
          BY <3>1, <3>7, <4>2
        <4>3. CASE j \in 1..a /\ k = a + 1
          BY <3>1, <3>7, <4>3
        <4>4. CASE j \in 1..a /\ k \in 1..a
          BY <2>2, <3>1, <4>4
        <4> QED BY <3>1, <3>2, <4>1, <4>2, <4>3, <4>4
      <3> QED BY <2>3, <3>5, <3>6, <3>8 DEF Knows, t, V
    <2>7. Knows(after, offer, txns, n, open, l)
      BY <2>3, <2>5, <2>6
    <2> QED BY <2>1, <2>7
  <1> HIDE DEF Good
  <1>3. m \in Good
    BY <1>0, <1>1, <1>2, UpTo
  <1> QED BY <1>3 DEF Good

\* Invoices that are never offered while all of them are free stay free.
Spared(W, offer, n, open) ==
  /\ W \in SUBSET open
  /\ \A m \in 1..n, S \in SUBSET open : W \subseteq S => \A p \in offer[<<m, S>>], i \in W : p.invoice # i.id
LEMMA LeftAlone ==
  ASSUME NEW offer, NEW txns, NEW n, NEW open, Offering(offer, txns, n, open),
         NEW after, IsPass(after, offer, n, open), NEW W, Spared(W, offer, n, open),
         NEW m \in 0..n
  PROVE  \A k \in DOMAIN after[m], i \in W : after[m][k].invoice # i.id
  <1> DEFINE Good == {l \in 0..n : \A k \in DOMAIN after[l], i \in W : after[l][k].invoice # i.id}
  <1>0. n \in Nat
    BY DEF Offering
  <1>1. 0 \in Good
    <2>1. 0 \in 0..n /\ after[0] = <<>> /\ DOMAIN <<>> = {}
      BY <1>0 DEF IsPass
    <2> QED BY <2>1
  <1>2. ASSUME NEW l \in 1..n, l - 1 \in Good PROVE l \in Good
    <2> DEFINE s == after[l - 1]
               t == after[l]
               S == FreeOf(open, s)
    <2>1. l \in 0..n /\ l - 1 \in 0..n /\ t = AfterTurn(offer, open, s, l)
      BY <1>0 DEF IsPass
    <2>2. s \in Seq(Every(offer, n, open))
      BY <2>1, PassKnows DEF Knows
    <2>3. \A k \in DOMAIN s, i \in W : s[k].invoice # i.id
      BY <1>2
    <2>4. S \in SUBSET open /\ W \subseteq S
      BY <2>3 DEF FreeOf, Spared
    <2>5. \A p \in offer[<<l, S>>], i \in W : p.invoice # i.id
      BY <2>4 DEF Spared
    <2>6. \/ offer[<<l, S>>] = {} /\ t = s
          \/ \E p \in Every(offer, n, open) : offer[<<l, S>>] = {p} /\ t = Append(s, p)
      <3>1. Adds1(s, AfterTurn(offer, open, s, l), offer[<<l, S>>], txns[l], S, Every(offer, n, open))
        BY <2>1, <2>2, NextIs
      <3> HIDE DEF s, t, S
      <3> QED BY <2>1, <3>1 DEF Adds1
    <2> HIDE DEF s, t, S
    <2>7. ASSUME NEW p, offer[<<l, S>>] = {p}, t = Append(s, p), NEW k \in DOMAIN t, NEW i \in W
          PROVE  t[k].invoice # i.id
      <3>1. p.invoice # i.id
        BY <2>5, <2>7
      <3>2. t[k] = p \/ (k \in DOMAIN s /\ t[k] = s[k])
        BY <2>2, <2>7
      <3> QED BY <2>3, <3>1, <3>2
    <2>8. \A k \in DOMAIN t, i \in W : t[k].invoice # i.id
      BY <2>3, <2>6, <2>7
    <2> QED BY <2>1, <2>8 DEF t
  <1> HIDE DEF Good
  <1>3. m \in Good
    BY <1>0, <1>1, <1>2, UpTo
  <1> QED BY <1>3 DEF Good

-----------------------------------------------------------------------------
(* Matches: the two passes of the match node.                               *)

LEMMA SameSetToSeqM ==
  ASSUME NEW s
  PROVE  M!SetToSeq(s) = SetToSeq(s)
  BY DEF M!SetToSeq, SetToSeq, M!IsInjective, IsInjective, M!Cardinality, Cardinality
LEMMA SameFlattenM ==
  ASSUME NEW s
  PROVE  M!FlattenSeq(s) = FlattenSeq(s)
  BY DEF M!FlattenSeq, FlattenSeq
LEMMA SameCountM ==
  ASSUME NEW s
  PROVE  M!Cardinality(s) = Cardinality(s)
  BY DEF M!Cardinality, Cardinality

LEMMA OnlyIs ==
  ASSUME NEW S, IsFiniteSet(S)
  PROVE  M!OnlyOf(S) = {} \/ \E i \in S : S = {i} /\ M!OnlyOf(S) = {i}
  <1>1. CASE Cardinality(S) = 1
    <2>1. PICK i : S = {i}
      BY <1>1, FS_Singleton
    <2>2. M!OnlyOf(S) = S
      BY <1>1, SameCountM DEF M!OnlyOf
    <2> QED BY <2>1, <2>2
  <1>2. CASE Cardinality(S) # 1
    <2>1. M!OnlyOf(S) = {}
      BY <1>2, SameCountM DEF M!OnlyOf
    <2> QED BY <2>1
  <1> QED BY <1>1, <1>2

\* What each pass offers for a payment out of the invoices S.
ExactFits(t, S) == {i \in S : M!FitsExactly(t, i)}
Named(t, S) == {i \in S : M!HintMatches(t, i)}
ExactTrust(t, S) ==
  IF Named(t, ExactFits(t, S)) # {} THEN M!NAME_MATCH_CONFIDENCE ELSE M!UNIQUE_AMOUNT_CONFIDENCE
ExactOf(t, S) ==
  {M!Proposal(t, i, 0, "full", ExactTrust(t, S)) :
     i \in M!Chosen(ExactFits(t, S), Named(t, ExactFits(t, S)))}

TdsFits(t, S, remembered) == {i \in S : M!FitsWithTds(t, i, remembered)}
TdsTrust(t, i, remembered) ==
  IF M!AnyDeducts(t, i, remembered[i.party]) THEN M!TDS_REMEMBERED_CONFIDENCE ELSE M!TDS_STANDARD_RATE_CONFIDENCE
TdsOf(t, S, remembered) ==
  {M!Proposal(t, i, i.amount - t.amount, "tds_adjusted", TdsTrust(t, i, remembered)) :
     i \in M!OnlyOf(TdsFits(t, S, remembered))}

LEMMA ExactMatchIs ==
  ASSUME NEW t, NEW S
  PROVE  M!ExactMatch(t, S) = SetToSeq(ExactOf(t, S))
  BY SameSetToSeqM DEF M!ExactMatch, ExactOf, ExactFits, Named, ExactTrust

LEMMA TdsMatchIs ==
  ASSUME NEW t, NEW S, NEW remembered
  PROVE  M!TdsMatch(t, S, remembered) = SetToSeq(TdsOf(t, S, remembered))
  BY SameSetToSeqM DEF M!TdsMatch, TdsOf, TdsFits, TdsTrust

LEMMA ProposalIs ==
  ASSUME NEW t, NEW i, NEW tds, NEW kind, NEW trust
  PROVE  LET p == M!Proposal(t, i, tds, kind, trust) IN
         /\ p.txn = t.id /\ p.invoice = i.id /\ p.party = i.party /\ p.amount = t.amount
         /\ p.tds = tds /\ p.kind = kind /\ p.confidence = trust
  BY DEF M!Proposal

LEMMA ChosenIs ==
  ASSUME NEW t, NEW S, IsFiniteSet(S)
  PROVE  LET c == M!Chosen(ExactFits(t, S), Named(t, ExactFits(t, S))) IN
         c = {} \/ \E i \in ExactFits(t, S) :
                      /\ c = {i}
                      /\ \/ ExactFits(t, S) = {i}
                         \/ Named(t, ExactFits(t, S)) = {i}
  <1> DEFINE F == ExactFits(t, S)
             N == Named(t, F)
  <1>1. F \subseteq S /\ N \subseteq F
    BY DEF ExactFits, Named
  <1>2. IsFiniteSet(F) /\ IsFiniteSet(N)
    BY <1>1, FS_Subset
  <1> HIDE DEF F, N
  <1>3. M!Chosen(F, N) = {} \/ \E i \in F : M!Chosen(F, N) = {i} /\ (F = {i} \/ N = {i})
    BY <1>1, <1>2, OnlyIs DEF M!Chosen
  <1> QED BY <1>3 DEF F, N

LEMMA ExactIsOffer ==
  ASSUME NEW t, NEW S, IsFiniteSet(S)
  PROVE  IsOffer(ExactOf(t, S), t, S)
  <1> DEFINE c == M!Chosen(ExactFits(t, S), Named(t, ExactFits(t, S)))
             O(i) == M!Proposal(t, i, 0, "full", ExactTrust(t, S))
  <1>1. ExactOf(t, S) = {O(i) : i \in c}
    BY DEF ExactOf
  <1>2. c = {} \/ \E i \in S : c = {i}
    BY ChosenIs DEF ExactFits
  <1>3. \A i : O(i).txn = t.id /\ O(i).invoice = i.id
    BY ProposalIs
  <1> HIDE DEF c, O
  <1>4. ASSUME NEW i \in S, c = {i} PROVE IsOffer(ExactOf(t, S), t, S)
    <2>1. ExactOf(t, S) = {O(i)}
      BY <1>1, <1>4
    <2> QED BY <1>3, <2>1 DEF IsOffer
  <1>5. ASSUME c = {} PROVE IsOffer(ExactOf(t, S), t, S)
    BY <1>1, <1>5 DEF IsOffer
  <1> QED BY <1>2, <1>4, <1>5

LEMMA TdsIsOffer ==
  ASSUME NEW t, NEW S, IsFiniteSet(S), NEW remembered
  PROVE  IsOffer(TdsOf(t, S, remembered), t, S)
  <1> DEFINE F == TdsFits(t, S, remembered)
             O(i) == M!Proposal(t, i, i.amount - t.amount, "tds_adjusted", TdsTrust(t, i, remembered))
  <1>1. TdsOf(t, S, remembered) = {O(i) : i \in M!OnlyOf(F)}
    BY DEF TdsOf
  <1>2. F \subseteq S
    BY DEF TdsFits
  <1>3. \A i : O(i).txn = t.id /\ O(i).invoice = i.id
    BY ProposalIs
  <1> HIDE DEF F, O
  <1>4. M!OnlyOf(F) = {} \/ \E i \in S : M!OnlyOf(F) = {i}
    BY <1>2, FS_Subset, OnlyIs
  <1>5. ASSUME NEW i \in S, M!OnlyOf(F) = {i} PROVE IsOffer(TdsOf(t, S, remembered), t, S)
    <2>1. TdsOf(t, S, remembered) = {O(i)}
      BY <1>1, <1>5
    <2> QED BY <1>3, <2>1 DEF IsOffer
  <1>6. ASSUME M!OnlyOf(F) = {} PROVE IsOffer(TdsOf(t, S, remembered), t, S)
    BY <1>1, <1>6 DEF IsOffer
  <1> QED BY <1>4, <1>5, <1>6

\* The payments of a pass, and the invoices it chooses from.
PaymentsAre(txns, n) ==
  n \in Nat /\ Len(txns) = n /\ DOMAIN txns = 1..n /\ \A l, m \in 1..n : txns[l].id = txns[m].id => l = m
ExactOffers(txns, n, open) == [w \in (1..n) \X SUBSET open |-> ExactOf(txns[w[1]], w[2])]
TdsOffers(txns, n, open, remembered) ==
  [w \in (1..n) \X SUBSET open |-> TdsOf(txns[w[1]], w[2], remembered)]

LEMMA OffersAre ==
  ASSUME NEW txns, NEW n, PaymentsAre(txns, n), NEW open, IsFiniteSet(open), NEW remembered
  PROVE  /\ Offering(ExactOffers(txns, n, open), txns, n, open)
         /\ Offering(TdsOffers(txns, n, open, remembered), txns, n, open)
         /\ \A m \in 1..n, S \in SUBSET open :
              /\ ExactOffers(txns, n, open)[<<m, S>>] = ExactOf(txns[m], S)
              /\ TdsOffers(txns, n, open, remembered)[<<m, S>>] = TdsOf(txns[m], S, remembered)
  <1>1. \A m \in 1..n, S \in SUBSET open :
          /\ ExactOffers(txns, n, open)[<<m, S>>] = ExactOf(txns[m], S)
          /\ TdsOffers(txns, n, open, remembered)[<<m, S>>] = TdsOf(txns[m], S, remembered)
    BY DEF ExactOffers, TdsOffers
  <1>2. \A S \in SUBSET open : IsFiniteSet(S)
    BY FS_Subset
  <1>3. \A m \in 1..n, S \in SUBSET open :
          IsOffer(ExactOf(txns[m], S), txns[m], S) /\ IsOffer(TdsOf(txns[m], S, remembered), txns[m], S)
    BY <1>2, ExactIsOffer, TdsIsOffer
  <1> QED BY <1>1, <1>3 DEF Offering, PaymentsAre

LEMMA NotTakenIsFree ==
  ASSUME NEW open, NEW s
  PROVE  {i \in open : ~M!Taken(s, i)} = FreeOf(open, s)
  <1>1. \A i : M!Taken(s, i) <=> \E k \in DOMAIN s : s[k].invoice = i.id
    BY DEF M!Taken, M!ToSet
  <1> QED BY <1>1 DEF FreeOf

\* A pass leaves what its loop says.
ExactLoop(f, txns, open) ==
  f = [n \in 0..Len(txns) |-> IF n = 0 THEN <<>>
         ELSE f[n - 1] \o M!ExactMatch(txns[n], {i \in open : ~M!Taken(f[n - 1], i)})]
TdsLoop(f, txns, open, remembered) ==
  f = [n \in 0..Len(txns) |-> IF n = 0 THEN <<>>
         ELSE f[n - 1] \o M!TdsMatch(txns[n], {i \in open : ~M!Taken(f[n - 1], i)}, remembered)]
OfferLoop(f, offer, n, open) == f = [m \in 0..n |-> IF m = 0 THEN <<>> ELSE AfterTurn(offer, open, f[m - 1], m)]

LEMMA SameExactLoop ==
  ASSUME NEW txns, NEW n, PaymentsAre(txns, n), NEW open, IsFiniteSet(open), NEW f
  PROVE  ExactLoop(f, txns, open) <=> OfferLoop(f, ExactOffers(txns, n, open), n, open)
  <1> DEFINE offer == ExactOffers(txns, n, open)
             g == [m \in 0..n |-> IF m = 0 THEN <<>>
                     ELSE f[m - 1] \o M!ExactMatch(txns[m], {i \in open : ~M!Taken(f[m - 1], i)})]
             h == [m \in 0..n |-> IF m = 0 THEN <<>> ELSE AfterTurn(offer, open, f[m - 1], m)]
  <1>1. n \in Nat /\ Len(txns) = n
    BY DEF PaymentsAre
  <1>2. ASSUME NEW m \in 1..n, NEW s
        PROVE  s \o M!ExactMatch(txns[m], {i \in open : ~M!Taken(s, i)}) = AfterTurn(offer, open, s, m)
    <2>1. {i \in open : ~M!Taken(s, i)} = FreeOf(open, s)
      BY NotTakenIsFree
    <2>2. M!ExactMatch(txns[m], FreeOf(open, s)) = SetToSeq(ExactOf(txns[m], FreeOf(open, s)))
      BY ExactMatchIs
    <2>3. FreeOf(open, s) \in SUBSET open
      BY FreeIn
    <2>4. offer[<<m, FreeOf(open, s)>>] = ExactOf(txns[m], FreeOf(open, s))
      BY <2>3, OffersAre
    <2> HIDE DEF offer
    <2> QED BY <2>1, <2>2, <2>4 DEF AfterTurn
  <1> HIDE DEF offer
  <1>3. \A m \in 0..n : g[m] = h[m]
    <2> TAKE m \in 0..n
    <2>1. CASE m = 0
      BY <2>1
    <2>2. CASE m # 0
      <3>1. m \in 1..n
        BY <1>1, <2>2
      <3>2. f[m - 1] \o M!ExactMatch(txns[m], {i \in open : ~M!Taken(f[m - 1], i)}) = AfterTurn(offer, open, f[m - 1], m)
        BY <1>2, <3>1
      <3> QED BY <2>2, <3>2
    <2> QED BY <2>1, <2>2
  <1>4. g = [m \in 0..n |-> g[m]] /\ h = [m \in 0..n |-> h[m]]
    OBVIOUS
  <1>5. (ExactLoop(f, txns, open) <=> f = g) /\ (OfferLoop(f, offer, n, open) <=> f = h)
    BY <1>1 DEF ExactLoop, OfferLoop
  <1> HIDE DEF g, h
  <1>6. g = h
    BY <1>3, <1>4
  <1> QED BY <1>5, <1>6 DEF offer

LEMMA SameTdsLoop ==
  ASSUME NEW txns, NEW n, PaymentsAre(txns, n), NEW open, IsFiniteSet(open), NEW remembered, NEW f
  PROVE  TdsLoop(f, txns, open, remembered) <=> OfferLoop(f, TdsOffers(txns, n, open, remembered), n, open)
  <1> DEFINE offer == TdsOffers(txns, n, open, remembered)
             g == [m \in 0..n |-> IF m = 0 THEN <<>>
                     ELSE f[m - 1] \o M!TdsMatch(txns[m], {i \in open : ~M!Taken(f[m - 1], i)}, remembered)]
             h == [m \in 0..n |-> IF m = 0 THEN <<>> ELSE AfterTurn(offer, open, f[m - 1], m)]
  <1>1. n \in Nat /\ Len(txns) = n
    BY DEF PaymentsAre
  <1>2. ASSUME NEW m \in 1..n, NEW s
        PROVE  s \o M!TdsMatch(txns[m], {i \in open : ~M!Taken(s, i)}, remembered) = AfterTurn(offer, open, s, m)
    <2>1. {i \in open : ~M!Taken(s, i)} = FreeOf(open, s)
      BY NotTakenIsFree
    <2>2. M!TdsMatch(txns[m], FreeOf(open, s), remembered) = SetToSeq(TdsOf(txns[m], FreeOf(open, s), remembered))
      BY TdsMatchIs
    <2>3. FreeOf(open, s) \in SUBSET open
      BY FreeIn
    <2>4. offer[<<m, FreeOf(open, s)>>] = TdsOf(txns[m], FreeOf(open, s), remembered)
      BY <2>3, OffersAre
    <2> HIDE DEF offer
    <2> QED BY <2>1, <2>2, <2>4 DEF AfterTurn
  <1> HIDE DEF offer
  <1>3. \A m \in 0..n : g[m] = h[m]
    <2> TAKE m \in 0..n
    <2>1. CASE m = 0
      BY <2>1
    <2>2. CASE m # 0
      <3>1. m \in 1..n
        BY <1>1, <2>2
      <3>2. f[m - 1] \o M!TdsMatch(txns[m], {i \in open : ~M!Taken(f[m - 1], i)}, remembered)
              = AfterTurn(offer, open, f[m - 1], m)
        BY <1>2, <3>1
      <3> QED BY <2>2, <3>2
    <2> QED BY <2>1, <2>2
  <1>4. g = [m \in 0..n |-> g[m]] /\ h = [m \in 0..n |-> h[m]]
    OBVIOUS
  <1>5. (TdsLoop(f, txns, open, remembered) <=> f = g) /\ (OfferLoop(f, offer, n, open) <=> f = h)
    BY <1>1 DEF TdsLoop, OfferLoop
  <1> HIDE DEF g, h
  <1>6. g = h
    BY <1>3, <1>4
  <1> QED BY <1>5, <1>6 DEF offer

PassGives(out, offer, n, open) == \E after : IsPass(after, offer, n, open) /\ out = after[n]

LEMMA LoopGives ==
  ASSUME NEW offer, NEW txns, NEW n, NEW open, Offering(offer, txns, n, open),
         NEW f, OfferLoop(f, offer, n, open)
  PROVE  PassGives(f[n], offer, n, open)
  <1>1. n \in Nat
    BY DEF Offering
  <1>2. IsPass(f, offer, n, open)
    BY <1>1, PassOf DEF OfferLoop
  <1> QED BY <1>2 DEF PassGives

LEMMA LoopRuns ==
  ASSUME NEW offer, NEW txns, NEW n, NEW open, Offering(offer, txns, n, open)
  PROVE  \E f : OfferLoop(f, offer, n, open)
  BY PassExists DEF OfferLoop

LEMMA ExactPass ==
  ASSUME NEW txns, NEW n, PaymentsAre(txns, n), NEW open, IsFiniteSet(open)
  PROVE  PassGives(M!ProposeMatches(txns, open), ExactOffers(txns, n, open), n, open)
  <1> DEFINE offer == ExactOffers(txns, n, open)
             f == CHOOSE f : ExactLoop(f, txns, open)
  <1>1. Offering(offer, txns, n, open) /\ Len(txns) = n
    BY OffersAre DEF PaymentsAre
  <1>2. M!ProposeMatches(txns, open) = f[n]
    BY <1>1 DEF M!ProposeMatches, ExactLoop
  <1>3. \E g : OfferLoop(g, offer, n, open)
    <2> HIDE DEF offer
    <2> QED BY <1>1, LoopRuns
  <1>4. \E g : ExactLoop(g, txns, open)
    BY <1>3, SameExactLoop
  <1>5. ExactLoop(f, txns, open)
    BY <1>4
  <1> HIDE DEF f
  <1>6. OfferLoop(f, offer, n, open)
    BY <1>5, SameExactLoop
  <1> HIDE DEF offer
  <1>7. PassGives(f[n], offer, n, open)
    BY <1>1, <1>6, LoopGives
  <1> QED BY <1>2, <1>7 DEF offer

LEMMA TdsPass ==
  ASSUME NEW txns, NEW n, PaymentsAre(txns, n), NEW open, IsFiniteSet(open), NEW remembered
  PROVE  PassGives(M!ProposeTdsMatches(txns, open, remembered), TdsOffers(txns, n, open, remembered), n, open)
  <1> DEFINE offer == TdsOffers(txns, n, open, remembered)
             f == CHOOSE f : TdsLoop(f, txns, open, remembered)
  <1>1. Offering(offer, txns, n, open) /\ Len(txns) = n
    BY OffersAre DEF PaymentsAre
  <1>2. M!ProposeTdsMatches(txns, open, remembered) = f[n]
    BY <1>1 DEF M!ProposeTdsMatches, TdsLoop
  <1>3. \E g : OfferLoop(g, offer, n, open)
    <2> HIDE DEF offer
    <2> QED BY <1>1, LoopRuns
  <1>4. \E g : TdsLoop(g, txns, open, remembered)
    BY <1>3, SameTdsLoop
  <1>5. TdsLoop(f, txns, open, remembered)
    BY <1>4
  <1> HIDE DEF f
  <1>6. OfferLoop(f, offer, n, open)
    BY <1>5, SameTdsLoop
  <1> HIDE DEF offer
  <1>7. PassGives(f[n], offer, n, open)
    BY <1>1, <1>6, LoopGives
  <1> QED BY <1>2, <1>7 DEF offer

\* What is known of a pass, free giving the invoices left at each turn.
PassSays(s, offer, n, open, free) ==
  /\ s \in Seq(Every(offer, n, open))
  /\ \A k \in DOMAIN s : \E l \in 1..n : s[k] \in offer[<<l, free[l]>>]
  /\ \A l \in 1..n : \A p \in offer[<<l, free[l]>>] : \E k \in DOMAIN s : s[k] = p
  /\ \A j, k \in DOMAIN s : j # k => s[j].txn # s[k].txn /\ s[j].invoice # s[k].invoice
  /\ \A l \in 1..n : free[l] \in SUBSET open
  /\ \A l \in 1..n : \A i \in open :
       i \notin free[l] => \E m \in 1..n : m # l /\ \E p \in offer[<<m, free[m]>>] : p.invoice = i.id

LEMMA PassIs ==
  ASSUME NEW offer, NEW txns, NEW n, NEW open, Offering(offer, txns, n, open),
         NEW s, PassGives(s, offer, n, open)
  PROVE  \E free : PassSays(s, offer, n, open, free)
  <1>1. PICK after : IsPass(after, offer, n, open) /\ s = after[n]
    BY DEF PassGives
  <1> DEFINE free == [l \in 1..n |-> FreeOf(open, after[l - 1])]
  <1>2. n \in Nat /\ n \in 0..n
    BY DEF Offering
  <1>3. \A l \in 1..n : free[l] = FreeOf(open, after[l - 1]) /\ Turn(after, offer, open, l) = offer[<<l, free[l]>>]
    BY DEF Turn
  <1> HIDE DEF free
  <1>4. \A m \in 0..n : Knows(after, offer, txns, n, open, m)
    BY <1>1, PassKnows
  <1>5. ASSUME NEW l \in 1..n PROVE free[l] \in SUBSET open
    <2>1. free[l] = FreeOf(open, after[l - 1])
      BY <1>3
    <2>2. FreeOf(open, after[l - 1]) \in SUBSET open
      BY FreeIn
    <2> QED BY <2>1, <2>2
  <1>6. ASSUME NEW l \in 1..n, NEW i \in open, i \notin free[l]
        PROVE  \E m \in 1..n : m # l /\ \E p \in offer[<<m, free[m]>>] : p.invoice = i.id
    <2>1. PICK k \in DOMAIN after[l - 1] : after[l - 1][k].invoice = i.id
      BY <1>3, <1>6 DEF FreeOf
    <2>2. l - 1 \in 0..n
      BY <1>2
    <2>3. PICK m \in 1..(l - 1) : after[l - 1][k] \in Turn(after, offer, open, m)
      BY <1>4, <2>2 DEF Knows
    <2>4. m \in 1..n /\ m # l
      BY <1>2
    <2>5. after[l - 1][k] \in offer[<<m, free[m]>>]
      BY <1>3, <2>3, <2>4
    <2> QED BY <2>1, <2>4, <2>5
  <1>7. Knows(after, offer, txns, n, open, n)
    BY <1>2, <1>4
  <1>8. PassSays(s, offer, n, open, free)
    <2>1. s \in Seq(Every(offer, n, open))
          /\ \A j, k \in DOMAIN s : j # k => s[j].txn # s[k].txn /\ s[j].invoice # s[k].invoice
      BY <1>1, <1>7 DEF Knows
    <2>2. \A k \in DOMAIN s : \E l \in 1..n : s[k] \in offer[<<l, free[l]>>]
      <3>1. \A k \in DOMAIN s : \E l \in 1..n : s[k] \in Turn(after, offer, open, l)
        BY <1>1, <1>7 DEF Knows
      <3> QED BY <1>3, <3>1
    <2>3. \A l \in 1..n : \A p \in offer[<<l, free[l]>>] : \E k \in DOMAIN s : s[k] = p
      <3>1. \A l \in 1..n : \A p \in Turn(after, offer, open, l) : \E k \in DOMAIN s : s[k] = p
        BY <1>1, <1>7 DEF Knows
      <3> QED BY <1>3, <3>1
    <2> QED BY <1>5, <1>6, <2>1, <2>2, <2>3 DEF PassSays
  <1> QED BY <1>8

\* The payments that the exact matches leave.
LeftOf(txns, e) ==
  FlattenSeq([k \in DOMAIN txns |-> IF txns[k].id \in {p.txn : p \in M!ToSet(e)} THEN <<>> ELSE <<txns[k]>>])
Served(t, e) == \E k \in DOMAIN e : e[k].txn = t.id
LeftSays(left, nl, txns, n, e) ==
  /\ PaymentsAre(left, nl)
  /\ \A l \in 1..nl : \E k \in 1..n : left[l] = txns[k] /\ ~Served(txns[k], e)
  /\ \A k \in 1..n : ~Served(txns[k], e) => \E l \in 1..nl : left[l] = txns[k]

LEMMA LeftIs ==
  ASSUME NEW txns, NEW n, PaymentsAre(txns, n), NEW e
  PROVE  LeftSays(LeftOf(txns, e), Len(LeftOf(txns, e)), txns, n, e)
  <1> DEFINE K == {k \in 1..n : ~Served(txns[k], e)}
             left == LeftOf(txns, e)
             nl == Len(left)
             ss == [k \in DOMAIN txns |-> IF txns[k].id \in {p.txn : p \in M!ToSet(e)} THEN <<>> ELSE <<txns[k]>>]
  <1>1. n \in Nat /\ DOMAIN txns = 1..n /\ \A l, m \in 1..n : txns[l].id = txns[m].id => l = m
    BY DEF PaymentsAre
  <1>2. \A k \in 1..n : txns[k].id \in {p.txn : p \in M!ToSet(e)} <=> Served(txns[k], e)
    BY DEF Served, M!ToSet
  <1>3. K \in SUBSET (1..n) /\ \A k \in 1..n : k \in K <=> ~Served(txns[k], e)
    OBVIOUS
  <1> HIDE DEF K
  <1>4. ss = Given(n, K, txns)
    <2> DEFINE g == [k \in 1..n |-> IF k \in K THEN <<txns[k]>> ELSE <<>>]
    <2>1. \A k \in 1..n : ss[k] = g[k]
      BY <1>1, <1>2, <1>3
    <2>2. ss = [k \in 1..n |-> ss[k]] /\ g = [k \in 1..n |-> g[k]]
      BY <1>1
    <2>3. Given(n, K, txns) = g
      BY DEF Given
    <2> HIDE DEF ss, g
    <2>4. ss = g
      BY <2>1, <2>2
    <2> QED BY <2>3, <2>4
  <1>5. left = FlattenSeq(ss)
    BY DEF LeftOf
  <1> HIDE DEF ss, left
  <1>6. PICK at : Grouping(at, left, txns, K)
    BY <1>1, <1>3, <1>4, <1>5, GroupIs
  <1>7. /\ nl \in Nat /\ DOMAIN left = 1..nl /\ at \in [1..nl -> K]
        /\ \A r \in 1..nl : left[r] = txns[at[r]]
        /\ \A r, s \in 1..nl : r < s => at[r] < at[s]
        /\ \A k \in K : \E r \in 1..nl : at[r] = k
    BY <1>6 DEF Grouping
  <1>8. ASSUME NEW r \in 1..nl, NEW s \in 1..nl, left[r].id = left[s].id PROVE r = s
    <2>1. at[r] \in 1..n /\ at[s] \in 1..n /\ left[r] = txns[at[r]] /\ left[s] = txns[at[s]]
      BY <1>3, <1>7
    <2>2. at[r] = at[s]
      BY <1>1, <1>8, <2>1
    <2>3. r < s \/ s < r \/ r = s
      BY <1>7
    <2> QED BY <1>7, <2>1, <2>2, <2>3
  <1>9. PaymentsAre(left, nl)
    BY <1>7, <1>8 DEF PaymentsAre
  <1>10. \A l \in 1..nl : \E k \in 1..n : left[l] = txns[k] /\ ~Served(txns[k], e)
    <2> TAKE l \in 1..nl
    <2>1. at[l] \in K /\ left[l] = txns[at[l]]
      BY <1>7
    <2> QED BY <1>3, <2>1
  <1>11. \A k \in 1..n : ~Served(txns[k], e) => \E l \in 1..nl : left[l] = txns[k]
    BY <1>3, <1>7
  <1> HIDE DEF nl
  <1>12. LeftSays(left, nl, txns, n, e)
    BY <1>9, <1>10, <1>11 DEF LeftSays
  <1> QED BY <1>12 DEF left, nl

\* The node's answer: exact matches, then TDS matches.
NodeSays(r, e, d, fe, fd, txns, n, open, remembered) ==
  LET left == LeftOf(txns, e)
      nl == Len(left)
      rest == FreeOf(open, e)
  IN  /\ r = e \o d
      /\ PassSays(e, ExactOffers(txns, n, open), n, open, fe)
      /\ PassSays(d, TdsOffers(left, nl, rest, remembered), nl, rest, fd)

LEMMA NodeIs ==
  ASSUME NEW txns, NEW n, PaymentsAre(txns, n), NEW open, IsFiniteSet(open), NEW remembered
  PROVE  LET e == M!ProposeMatches(txns, open)
             left == LeftOf(txns, e)
             rest == FreeOf(open, e)
             d == M!ProposeTdsMatches(left, rest, remembered)
         IN  /\ M!MatchNode(txns, open, remembered) = e \o d
             /\ PaymentsAre(left, Len(left)) /\ IsFiniteSet(rest) /\ rest \subseteq open
             /\ \E fe, fd : NodeSays(e \o d, e, d, fe, fd, txns, n, open, remembered)
  <1> DEFINE e == M!ProposeMatches(txns, open)
             left == LeftOf(txns, e)
             rest == FreeOf(open, e)
             d == M!ProposeTdsMatches(left, rest, remembered)
  <1>1. M!MatchNode(txns, open, remembered) = e \o d
    <2>1. M!Residual(open, {p.invoice : p \in M!ToSet(e)}) = rest
      <3>1. \A i : i.id \in {p.invoice : p \in M!ToSet(e)} <=> \E k \in DOMAIN e : e[k].invoice = i.id
        BY DEF M!ToSet
      <3> HIDE DEF e
      <3> QED BY <3>1 DEF M!Residual, FreeOf
    <2>2. M!FlattenSeq([k \in DOMAIN txns |-> IF txns[k].id \in {p.txn : p \in M!ToSet(e)} THEN <<>> ELSE <<txns[k]>>]) = left
      BY SameFlattenM DEF LeftOf
    <2> QED BY <2>1, <2>2 DEF M!MatchNode
  <1>2. PassGives(e, ExactOffers(txns, n, open), n, open) /\ Offering(ExactOffers(txns, n, open), txns, n, open)
    BY ExactPass, OffersAre
  <1> HIDE DEF e
  <1>3. PaymentsAre(left, Len(left))
    BY LeftIs DEF LeftSays
  <1>4. rest \subseteq open /\ IsFiniteSet(rest)
    BY FreeIn, FS_Subset
  <1> HIDE DEF left, rest
  <1>5. PassGives(d, TdsOffers(left, Len(left), rest, remembered), Len(left), rest)
        /\ Offering(TdsOffers(left, Len(left), rest, remembered), left, Len(left), rest)
    BY <1>3, <1>4, TdsPass, OffersAre
  <1> HIDE DEF d
  <1>6. PICK fe : PassSays(e, ExactOffers(txns, n, open), n, open, fe)
    BY <1>2, PassIs
  <1>7. PICK fd : PassSays(d, TdsOffers(left, Len(left), rest, remembered), Len(left), rest, fd)
    BY <1>5, PassIs
  <1>8. NodeSays(e \o d, e, d, fe, fd, txns, n, open, remembered)
    BY <1>6, <1>7 DEF NodeSays, left, rest
  <1> QED BY <1>1, <1>3, <1>4, <1>8 DEF e, left, rest, d

-----------------------------------------------------------------------------
(* Matches: what is proposed is sound, and nothing ambiguous is.            *)

\* A proposal p of the payment t for the invoice i.
Settles(p, t, i) ==
  /\ p.txn = t.id /\ p.invoice = i.id /\ p.party = i.party /\ p.amount = t.amount
  /\ i.amount = p.amount + p.tds /\ (p.kind = "tds_adjusted" => p.tds > 0)
  /\ t.cr /\ t.day >= i.day
Whole1(t, S) == t.amount \in Int /\ \A i \in S : i.amount \in Int
AnExact(p, t, i) == Settles(p, t, i) /\ p.kind = "full" /\ M!FitsExactly(t, i)
ATds(p, t, i, remembered) ==
  /\ Settles(p, t, i) /\ p.kind = "tds_adjusted" /\ M!FitsWithTds(t, i, remembered)
  /\ p = M!Proposal(t, i, i.amount - t.amount, "tds_adjusted", TdsTrust(t, i, remembered))

LEMMA ExactSays ==
  ASSUME NEW t, NEW S, IsFiniteSet(S), Whole1(t, S), NEW p \in ExactOf(t, S)
  PROVE  \E i \in S : AnExact(p, t, i)
  <1>1. PICK i \in ExactFits(t, S) : p = M!Proposal(t, i, 0, "full", ExactTrust(t, S))
    <2> DEFINE c == M!Chosen(ExactFits(t, S), Named(t, ExactFits(t, S)))
    <2>1. c \subseteq ExactFits(t, S)
      BY ChosenIs
    <2> HIDE DEF c
    <2>2. \E i \in c : p = M!Proposal(t, i, 0, "full", ExactTrust(t, S))
      BY DEF ExactOf, c
    <2> QED BY <2>1, <2>2
  <1>2. i \in S /\ M!FitsExactly(t, i)
    BY DEF ExactFits
  <1>3. /\ p.txn = t.id /\ p.invoice = i.id /\ p.party = i.party /\ p.amount = t.amount
        /\ p.tds = 0 /\ p.kind = "full"
    BY <1>1, ProposalIs
  <1>4. t.cr /\ i.amount = t.amount /\ t.day >= i.day /\ t.amount \in Int
    BY <1>2 DEF M!FitsExactly, Whole1
  <1>5. i.amount = p.amount + p.tds
    BY <1>3, <1>4
  <1>6. AnExact(p, t, i)
    BY <1>2, <1>3, <1>4, <1>5 DEF AnExact, Settles
  <1> QED BY <1>2, <1>6

Chains(w, s, u) ==
  /\ DOMAIN w = 1..(Len(s) + Len(u))
  /\ \A k \in 1..Len(s) : w[k] = s[k]
  /\ \A k \in 1..Len(u) : w[Len(s) + k] = u[k]
LEMMA ConcatIs ==
  ASSUME NEW V, NEW s \in Seq(V), NEW u \in Seq(V)
  PROVE  s \o u \in Seq(V) /\ Chains(s \o u, s, u)
  <1>1. s \o u \in Seq(V) /\ Len(s) \in Nat /\ Len(u) \in Nat
    OBVIOUS
  <1>2. Len(s \o u) = Len(s) + Len(u)
    OBVIOUS
  <1>3. DOMAIN (s \o u) = 1..(Len(s) + Len(u))
    BY <1>1, <1>2
  <1>4. \A k \in 1..Len(s) : (s \o u)[k] = s[k]
    OBVIOUS
  <1>5. ASSUME NEW k \in 1..Len(u) PROVE (s \o u)[Len(s) + k] = u[k]
    <2>1. Len(s) + k \in 1..(Len(s) + Len(u)) /\ ~(Len(s) + k <= Len(s)) /\ (Len(s) + k) - Len(s) = k
      BY <1>1
    <2> QED BY <2>1
  <1> QED BY <1>1, <1>3, <1>4, <1>5 DEF Chains

LEMMA PositiveFactor ==
  ASSUME NEW a \in Int, NEW b \in Int, b > 0, a * b > 0
  PROVE  a > 0
  OBVIOUS

\* What the rates remembered and the standard ones are.
RatesAre(i, remembered) == remembered[i.party] \in Seq(1..3000)
IsRate(b) == b \in 1..3000
AllTried(recalled) ==
  /\ M!ToSet(recalled \o M!STANDARD_TDS_BPS) = M!ToSet(recalled) \cup {100, 200, 500, 1000}
  /\ \A b \in M!ToSet(recalled \o M!STANDARD_TDS_BPS) : IsRate(b)
LEMMA RatesTried ==
  ASSUME NEW i, NEW remembered, RatesAre(i, remembered)
  PROVE  AllTried(remembered[i.party])
  <1> DEFINE s == remembered[i.party]
             u == M!STANDARD_TDS_BPS
             a == Len(s)
             V == 1..3000
  <1>1. s \in Seq(V) /\ a \in Nat /\ DOMAIN s = 1..a
    BY DEF RatesAre
  <1>2. u = <<100, 200, 500, 1000>>
    BY DEF M!STANDARD_TDS_BPS
  <1>3. Len(u) = 4 /\ u[1] = 100 /\ u[2] = 200 /\ u[3] = 500 /\ u[4] = 1000 /\ u \in Seq(V)
    BY <1>2
  <1>b. \A b : b \in V => IsRate(b)
    BY DEF IsRate
  <1>c. {100, 200, 500, 1000} \subseteq V
    OBVIOUS
  <1> HIDE DEF s, u, V
  <1>a. /\ DOMAIN (s \o u) = 1..(Len(s) + Len(u))
        /\ \A k \in 1..Len(s) : (s \o u)[k] = s[k]
        /\ \A k \in 1..Len(u) : (s \o u)[Len(s) + k] = u[k]
    <2>1. s \in Seq(V) /\ u \in Seq(V)
      BY <1>1, <1>3
    <2> HIDE DEF a
    <2>2. Chains(s \o u, s, u)
      BY <2>1, ConcatIs
    <2> QED BY <2>2 DEF Chains
  <1>4. DOMAIN (s \o u) = 1..(a + 4)
    BY <1>3, <1>a
  <1>5. \A k \in 1..a : (s \o u)[k] = s[k]
    BY <1>a
  <1>6. (s \o u)[a + 1] = 100 /\ (s \o u)[a + 2] = 200 /\ (s \o u)[a + 3] = 500 /\ (s \o u)[a + 4] = 1000
    <2>1. \A k \in 1..4 : (s \o u)[a + k] = u[k]
      BY <1>3, <1>a
    <2>2. 1 \in 1..4 /\ 2 \in 1..4 /\ 3 \in 1..4 /\ 4 \in 1..4
      OBVIOUS
    <2>3. /\ (s \o u)[a + 1] = u[1] /\ (s \o u)[a + 2] = u[2]
          /\ (s \o u)[a + 3] = u[3] /\ (s \o u)[a + 4] = u[4]
      BY <2>1, <2>2
    <2> QED BY <1>3, <2>3
  <1>9. M!ToSet(s \o u) = {(s \o u)[k] : k \in 1..(a + 4)} /\ M!ToSet(s) = {s[k] : k \in 1..a}
    BY <1>1, <1>4 DEF M!ToSet
  <1> DEFINE w == s \o u
             std == {100, 200, 500, 1000}
  <1> HIDE DEF a, w, std
  <1>d. /\ M!ToSet(w) = {w[k] : k \in 1..(a + 4)}
        /\ \A k \in 1..a : w[k] = s[k]
        /\ \A k \in (a + 1)..(a + 4) : w[k] \in std
        /\ std \subseteq {w[k] : k \in (a + 1)..(a + 4)}
    <2>1. a + 1 \in (a + 1)..(a + 4) /\ a + 2 \in (a + 1)..(a + 4) /\ a + 3 \in (a + 1)..(a + 4) /\ a + 4 \in (a + 1)..(a + 4)
      BY <1>1
    <2>2. \A k \in (a + 1)..(a + 4) : k = a + 1 \/ k = a + 2 \/ k = a + 3 \/ k = a + 4
      BY <1>1
    <2>3. std = {w[a + 1], w[a + 2], w[a + 3], w[a + 4]}
      BY <1>6 DEF w, std
    <2>4. \A k \in 1..a : w[k] = s[k]
      BY <1>5 DEF w
    <2> QED BY <1>9, <2>1, <2>2, <2>3, <2>4 DEF w
  <1>e. \A k : k \in 1..(a + 4) <=> (k \in 1..a \/ k \in (a + 1)..(a + 4))
    BY <1>1
  <1>10. M!ToSet(w) \subseteq M!ToSet(s) \cup std
    BY <1>9, <1>d, <1>e
  <1>11. M!ToSet(s) \cup std \subseteq M!ToSet(w)
    BY <1>9, <1>d, <1>e
  <1>12. M!ToSet(s) \subseteq V
    <2>1. \A k \in 1..a : s[k] \in V
      BY <1>1
    <2> QED BY <1>9, <2>1
  <1>13. std \subseteq V
    BY <1>c DEF std
  <1> HIDE DEF std
  <1>14. M!ToSet(w) = M!ToSet(s) \cup std
    BY <1>10, <1>11
  <1>15. \A b \in M!ToSet(w) : b \in V
    BY <1>12, <1>13, <1>14
  <1>16. \A b \in M!ToSet(w) : IsRate(b)
    BY <1>15, <1>b
  <1> QED BY <1>14, <1>16 DEF AllTried, s, u, w, std

LEMMA DeductionIs ==
  ASSUME NEW t, NEW i, NEW b, IsRate(b), t.amount \in Int, i.amount \in Int, M!Deducts(t, i, b)
  PROVE  i.amount > 0 /\ i.amount - t.amount > 0 /\ i.amount * b = 10000 * (i.amount - t.amount)
  <1> DEFINE v == i.amount
             x == v * b
             q == x \div 10000
  <1>0. b > 0 /\ b \in Int /\ v \in Int
    BY DEF IsRate
  <1>1. x % 10000 = 0 /\ x > 0 /\ t.amount = v - q
    BY DEF M!Deducts
  <1> HIDE DEF v
  <1>2. v > 0 /\ x \in Int
    <2>1. v * b > 0
      BY <1>1
    <2> HIDE DEF x
    <2>2. v > 0
      BY <1>0, <2>1, PositiveFactor
    <2> QED BY <1>0, <2>2 DEF x
  <1> HIDE DEF x
  <1>3. q \in Int /\ x = 10000 * q /\ q > 0
    BY <1>1, <1>2
  <1> HIDE DEF q
  <1>4. q = v - t.amount
    BY <1>0, <1>1, <1>3
  <1> QED BY <1>2, <1>3, <1>4 DEF x, v

LEMMA TdsSays ==
  ASSUME NEW t, NEW S, IsFiniteSet(S), Whole1(t, S), NEW remembered, \A i \in S : RatesAre(i, remembered),
         NEW p \in TdsOf(t, S, remembered)
  PROVE  \E i \in S : ATds(p, t, i, remembered)
  <1>1. PICK i \in TdsFits(t, S, remembered) :
          p = M!Proposal(t, i, i.amount - t.amount, "tds_adjusted", TdsTrust(t, i, remembered))
    <2> DEFINE c == M!OnlyOf(TdsFits(t, S, remembered))
    <2>1. TdsFits(t, S, remembered) \subseteq S
      BY DEF TdsFits
    <2>2. c \subseteq TdsFits(t, S, remembered)
      BY <2>1, FS_Subset, OnlyIs
    <2> HIDE DEF c
    <2>3. \E i \in c : p = M!Proposal(t, i, i.amount - t.amount, "tds_adjusted", TdsTrust(t, i, remembered))
      BY DEF TdsOf, c
    <2> QED BY <2>2, <2>3
  <1>2. i \in S /\ M!FitsWithTds(t, i, remembered)
    BY DEF TdsFits
  <1>3. /\ p.txn = t.id /\ p.invoice = i.id /\ p.party = i.party /\ p.amount = t.amount
        /\ p.tds = i.amount - t.amount /\ p.kind = "tds_adjusted"
    BY <1>1, ProposalIs
  <1>4. t.cr /\ t.day >= i.day /\ M!AnyDeducts(t, i, remembered[i.party] \o M!STANDARD_TDS_BPS)
    BY <1>2 DEF M!FitsWithTds
  <1>5. PICK b \in M!ToSet(remembered[i.party] \o M!STANDARD_TDS_BPS) : M!Deducts(t, i, b)
    BY <1>4 DEF M!AnyDeducts
  <1>6. IsRate(b)
    <2>1. RatesAre(i, remembered)
      BY <1>2
    <2> QED BY <1>5, <2>1, RatesTried DEF AllTried
  <1>7. t.amount \in Int /\ i.amount \in Int
    BY <1>2 DEF Whole1
  <1>8. i.amount - t.amount > 0
    BY <1>5, <1>6, <1>7, DeductionIs
  <1>9. i.amount = p.amount + p.tds /\ p.tds > 0
    BY <1>3, <1>7, <1>8
  <1>10. ATds(p, t, i, remembered)
    BY <1>1, <1>2, <1>3, <1>4, <1>9 DEF ATds, Settles
  <1> QED BY <1>2, <1>10

\* The rows of the node are as the callers give them.
RowsAre(txns, n, open, remembered) ==
  /\ PaymentsAre(txns, n) /\ IsFiniteSet(open)
  /\ \A k \in 1..n : txns[k].amount \in Int
  /\ \A i \in open : i.amount \in Int /\ RatesAre(i, remembered)
  /\ \A i, j \in open : i.id = j.id => i = j

\* Each of the node's proposals, and what the first pass leaves to the second.
LEMMA NodeProposals ==
  ASSUME NEW txns, NEW n, NEW open, NEW remembered, RowsAre(txns, n, open, remembered),
         NEW r, NEW e, NEW d, NEW fe, NEW fd, NodeSays(r, e, d, fe, fd, txns, n, open, remembered)
  PROVE  /\ \A k \in DOMAIN e : \E l \in 1..n : \E i \in open : AnExact(e[k], txns[l], i)
         /\ \A k \in DOMAIN d : \E l \in 1..n : \E i \in FreeOf(open, e) :
              ATds(d[k], txns[l], i, remembered) /\ ~Served(txns[l], e)
  <1> DEFINE left == LeftOf(txns, e)
             nl == Len(left)
             rest == FreeOf(open, e)
  <1>0. PaymentsAre(txns, n) /\ IsFiniteSet(open)
    BY DEF RowsAre
  <1>1. PassSays(e, ExactOffers(txns, n, open), n, open, fe)
        /\ PassSays(d, TdsOffers(left, nl, rest, remembered), nl, rest, fd)
    BY DEF NodeSays
  <1>2. LeftSays(left, nl, txns, n, e)
    BY <1>0, LeftIs
  <1>3. rest \subseteq open /\ IsFiniteSet(rest)
    BY <1>0, FreeIn, FS_Subset
  <1> HIDE DEF left, nl, rest
  <1>4. ASSUME NEW k \in DOMAIN e PROVE \E l \in 1..n : \E i \in open : AnExact(e[k], txns[l], i)
    <2>1. PICK l \in 1..n : e[k] \in ExactOffers(txns, n, open)[<<l, fe[l]>>]
      BY <1>1 DEF PassSays
    <2>2. fe[l] \in SUBSET open
      BY <1>1 DEF PassSays
    <2>3. e[k] \in ExactOf(txns[l], fe[l])
      BY <1>0, <2>1, <2>2, OffersAre
    <2>4. IsFiniteSet(fe[l]) /\ Whole1(txns[l], fe[l])
      BY <1>0, <2>2, FS_Subset DEF Whole1, RowsAre
    <2>5. \E i \in fe[l] : AnExact(e[k], txns[l], i)
      BY <2>3, <2>4, ExactSays
    <2> QED BY <2>2, <2>5
  <1>5. ASSUME NEW k \in DOMAIN d
        PROVE  \E l \in 1..n : \E i \in rest : ATds(d[k], txns[l], i, remembered) /\ ~Served(txns[l], e)
    <2>1. PICK m \in 1..nl : d[k] \in TdsOffers(left, nl, rest, remembered)[<<m, fd[m]>>]
      BY <1>1 DEF PassSays
    <2>2. fd[m] \in SUBSET rest
      BY <1>1 DEF PassSays
    <2>3. PaymentsAre(left, nl)
      BY <1>2 DEF LeftSays
    <2>4. d[k] \in TdsOf(left[m], fd[m], remembered)
      BY <1>3, <2>1, <2>2, <2>3, OffersAre
    <2>5. PICK l \in 1..n : left[m] = txns[l] /\ ~Served(txns[l], e)
      BY <1>2 DEF LeftSays
    <2>6. IsFiniteSet(fd[m])
      BY <1>3, <2>2, FS_Subset
    <2>7. Whole1(left[m], fd[m]) /\ \A i \in fd[m] : RatesAre(i, remembered)
      BY <1>3, <2>2, <2>5 DEF Whole1, RowsAre
    <2>8. \E i \in fd[m] : ATds(d[k], left[m], i, remembered)
      BY <2>4, <2>6, <2>7, TdsSays
    <2> QED BY <2>2, <2>5, <2>8
  <1> QED BY <1>4, <1>5 DEF rest

Halves(r, e, d) ==
  /\ Len(e) \in Nat /\ DOMAIN e = 1..Len(e)
  /\ \A k \in DOMAIN r : (k \in DOMAIN e /\ r[k] = e[k]) \/ \E m \in DOMAIN d : k = Len(e) + m /\ r[k] = d[m]
  /\ \A k \in DOMAIN e : k \in DOMAIN r /\ r[k] = e[k]
  /\ \A m \in DOMAIN d : Len(e) + m \in DOMAIN r /\ r[Len(e) + m] = d[m]
LEMMA HalvesAre ==
  ASSUME NEW A, NEW E, NEW e \in Seq(A), NEW d \in Seq(E)
  PROVE  e \o d \in Seq(A \cup E) /\ Halves(e \o d, e, d)
  <1> DEFINE r == e \o d
             a == Len(e)
             b == Len(d)
  <1>1. a \in Nat /\ b \in Nat /\ DOMAIN e = 1..a /\ DOMAIN d = 1..b
    OBVIOUS
  <1>2. e \in Seq(A \cup E) /\ d \in Seq(A \cup E)
    OBVIOUS
  <1>3. r \in Seq(A \cup E) /\ Chains(r, e, d)
    <2> DEFINE V == A \cup E
    <2> HIDE DEF V
    <2> QED BY <1>2, ConcatIs DEF V
  <1>4. /\ DOMAIN r = 1..(a + b)
        /\ \A k \in 1..a : r[k] = e[k]
        /\ \A k \in 1..b : r[a + k] = d[k]
    BY <1>3 DEF Chains
  <1> HIDE DEF r, a, b
  <1>5. ASSUME NEW k \in 1..(a + b) PROVE (k \in 1..a /\ r[k] = e[k]) \/ \E m \in 1..b : k = a + m /\ r[k] = d[m]
    <2>1. CASE k <= a
      BY <1>1, <1>4, <2>1
    <2>2. CASE ~(k <= a)
      <3>1. k - a \in 1..b /\ k = a + (k - a)
        BY <1>1, <2>2
      <3>2. r[a + (k - a)] = d[k - a]
        BY <1>4, <3>1
      <3>3. k - a \in 1..b /\ k = a + (k - a) /\ r[k] = d[k - a]
        BY <3>1, <3>2
      <3> QED BY <3>3
    <2> QED BY <2>1, <2>2
  <1>6. (\A k \in 1..a : k \in 1..(a + b)) /\ \A m \in 1..b : a + m \in 1..(a + b)
    BY <1>1
  <1>7. Halves(r, e, d)
    BY <1>1, <1>4, <1>5, <1>6 DEF Halves, a
  <1> QED BY <1>3, <1>7 DEF r

LEMMA NodeHalves ==
  ASSUME NEW txns, NEW n, NEW open, NEW remembered,
         NEW r, NEW e, NEW d, NEW fe, NEW fd, NodeSays(r, e, d, fe, fd, txns, n, open, remembered)
  PROVE  /\ Halves(r, e, d)
         /\ \A j, k \in DOMAIN e : j # k => e[j].txn # e[k].txn /\ e[j].invoice # e[k].invoice
         /\ \A j, k \in DOMAIN d : j # k => d[j].txn # d[k].txn /\ d[j].invoice # d[k].invoice
  <1> DEFINE left == LeftOf(txns, e)
             nl == Len(left)
             rest == FreeOf(open, e)
             A == Every(ExactOffers(txns, n, open), n, open)
             E == Every(TdsOffers(left, nl, rest, remembered), nl, rest)
  <1>1. PassSays(e, ExactOffers(txns, n, open), n, open, fe) /\ r = e \o d
        /\ PassSays(d, TdsOffers(left, nl, rest, remembered), nl, rest, fd)
    BY DEF NodeSays
  <1> HIDE DEF left, nl, rest
  <1>2. e \in Seq(A) /\ d \in Seq(E)
    BY <1>1 DEF PassSays
  <1> HIDE DEF A, E
  <1>3. Halves(r, e, d)
    BY <1>1, <1>2, HalvesAre
  <1> QED BY <1>1, <1>3 DEF PassSays

\* No two of the node's proposals share a payment or an invoice.
LEMMA NoneTwice ==
  ASSUME NEW txns, NEW n, NEW open, NEW remembered, RowsAre(txns, n, open, remembered),
         NEW r, NEW e, NEW d, NEW fe, NEW fd, NodeSays(r, e, d, fe, fd, txns, n, open, remembered),
         NEW j \in DOMAIN r, NEW k \in DOMAIN r, j # k
  PROVE  r[j].txn # r[k].txn /\ r[j].invoice # r[k].invoice
  <1>1. /\ Len(e) \in Nat
        /\ \A l \in DOMAIN r : (l \in DOMAIN e /\ r[l] = e[l]) \/ \E m \in DOMAIN d : l = Len(e) + m /\ r[l] = d[m]
    BY NodeHalves DEF Halves
  <1>2. /\ \A l, m \in DOMAIN e : l # m => e[l].txn # e[m].txn /\ e[l].invoice # e[m].invoice
        /\ \A l, m \in DOMAIN d : l # m => d[l].txn # d[m].txn /\ d[l].invoice # d[m].invoice
    BY NodeHalves
  <1>3. ASSUME NEW l \in DOMAIN e, NEW m \in DOMAIN d PROVE e[l].txn # d[m].txn /\ e[l].invoice # d[m].invoice
    <2>1. PICK s \in 1..n : \E i \in FreeOf(open, e) : ATds(d[m], txns[s], i, remembered) /\ ~Served(txns[s], e)
      BY NodeProposals
    <2>2. PICK i \in FreeOf(open, e) : ATds(d[m], txns[s], i, remembered) /\ ~Served(txns[s], e)
      BY <2>1
    <2>3. d[m].txn = txns[s].id /\ d[m].invoice = i.id
      BY <2>2 DEF ATds, Settles
    <2>4. e[l].txn # txns[s].id /\ e[l].invoice # i.id
      BY <2>2 DEF Served, FreeOf
    <2> QED BY <2>3, <2>4
  <1>4. CASE j \in DOMAIN e /\ r[j] = e[j] /\ k \in DOMAIN e /\ r[k] = e[k]
    BY <1>2, <1>4
  <1>5. CASE (j \in DOMAIN e /\ r[j] = e[j]) /\ \E m \in DOMAIN d : r[k] = d[m]
    BY <1>3, <1>5
  <1>6. CASE (k \in DOMAIN e /\ r[k] = e[k]) /\ \E m \in DOMAIN d : r[j] = d[m]
    BY <1>3, <1>6
  <1>7. ASSUME NEW l \in DOMAIN d, j = Len(e) + l, r[j] = d[l], NEW m \in DOMAIN d, k = Len(e) + m, r[k] = d[m]
        PROVE  r[j].txn # r[k].txn /\ r[j].invoice # r[k].invoice
    <2>1. l # m
      BY <1>7
    <2> QED BY <1>2, <1>7, <2>1
  <1> QED BY <1>1, <1>4, <1>5, <1>6, <1>7

\* Each proposal settles an open invoice with a payment.
LEMMA EachSettles ==
  ASSUME NEW txns, NEW n, NEW open, NEW remembered, RowsAre(txns, n, open, remembered),
         NEW r, NEW e, NEW d, NEW fe, NEW fd, NodeSays(r, e, d, fe, fd, txns, n, open, remembered),
         NEW k \in DOMAIN r
  PROVE  \E l \in 1..n : \E i \in open : Settles(r[k], txns[l], i)
  <1>1. (k \in DOMAIN e /\ r[k] = e[k]) \/ \E m \in DOMAIN d : r[k] = d[m]
    BY NodeHalves DEF Halves
  <1>2. ASSUME NEW m \in DOMAIN e PROVE \E l \in 1..n : \E i \in open : Settles(e[m], txns[l], i)
    <2>1. \E l \in 1..n : \E i \in open : AnExact(e[m], txns[l], i)
      BY NodeProposals
    <2> QED BY <2>1 DEF AnExact
  <1>3. ASSUME NEW m \in DOMAIN d PROVE \E l \in 1..n : \E i \in open : Settles(d[m], txns[l], i)
    <2>1. \E l \in 1..n : \E i \in FreeOf(open, e) : ATds(d[m], txns[l], i, remembered)
      BY NodeProposals
    <2> QED BY <2>1, FreeIn DEF ATds
  <1> QED BY <1>1, <1>2, <1>3

-----------------------------------------------------------------------------
(* Twins.                                                                   *)

Twin(i, j) ==
  i.id # j.id /\ i.day = j.day /\ i.amount = j.amount /\ i.party = j.party /\ i.tokens = j.tokens
Twins(open) == {i \in open : \E j \in open : Twin(i, j)}

LEMMA TwinsFitAlike ==
  ASSUME NEW i, NEW j, Twin(i, j), NEW t, NEW remembered
  PROVE  /\ M!FitsExactly(t, i) => M!FitsExactly(t, j)
         /\ M!HintMatches(t, i) => M!HintMatches(t, j)
         /\ M!FitsWithTds(t, i, remembered) => M!FitsWithTds(t, j, remembered)
  <1>1. i.day = j.day /\ i.amount = j.amount /\ i.party = j.party /\ i.tokens = j.tokens
    BY DEF Twin
  <1>2. M!FitsExactly(t, i) => M!FitsExactly(t, j)
    BY <1>1 DEF M!FitsExactly
  <1>3. M!HintMatches(t, i) <=> M!HintMatches(t, j)
    BY <1>1 DEF M!HintMatches
  <1>4. \A rates : M!AnyDeducts(t, i, rates) <=> M!AnyDeducts(t, j, rates)
    BY <1>1 DEF M!AnyDeducts, M!Deducts
  <1>5. M!FitsWithTds(t, i, remembered) => M!FitsWithTds(t, j, remembered)
    BY <1>1, <1>3, <1>4 DEF M!FitsWithTds
  <1> QED BY <1>2, <1>3, <1>5

LEMMA TwinsAreTwo ==
  ASSUME NEW open, \A i, j \in open : i.id = j.id => i = j, NEW S \in SUBSET open, Twins(open) \subseteq S,
         NEW x \in S, NEW i \in Twins(open), x.id = i.id
  PROVE  x = i /\ \E j \in S : j # x /\ Twin(x, j)
  <1>1. PICK j \in open : Twin(i, j)
    BY DEF Twins
  <1>2. i \in open /\ x = i
    BY DEF Twins
  <1>3. Twin(j, i) /\ j # i
    BY <1>1 DEF Twin
  <1>4. j \in Twins(open)
    BY <1>2, <1>3 DEF Twins
  <1> QED BY <1>1, <1>2, <1>3, <1>4

LEMMA TwinsNotOffered ==
  ASSUME NEW open, IsFiniteSet(open), \A i, j \in open : i.id = j.id => i = j,
         NEW S \in SUBSET open, Twins(open) \subseteq S, NEW t, NEW remembered, NEW i \in Twins(open), NEW p,
         p \in ExactOf(t, S) \/ p \in TdsOf(t, S, remembered)
  PROVE  p.invoice # i.id
  <1> SUFFICES ASSUME p.invoice = i.id PROVE FALSE
    OBVIOUS
  <1>0. IsFiniteSet(S)
    BY FS_Subset
  <1>1. ASSUME p \in ExactOf(t, S) PROVE FALSE
    <2> DEFINE F == ExactFits(t, S)
               N == Named(t, F)
               c == M!Chosen(F, N)
    <2>1. PICK x \in c : p = M!Proposal(t, x, 0, "full", ExactTrust(t, S))
      BY <1>1 DEF ExactOf
    <2>2. x \in F /\ (F = {x} \/ N = {x})
      BY <1>0, <2>1, ChosenIs
    <2>3. x \in S /\ x.id = i.id /\ M!FitsExactly(t, x)
      BY <2>1, <2>2, ProposalIs DEF ExactFits
    <2>4. PICK j \in S : j # x /\ Twin(x, j)
      BY <2>3, TwinsAreTwo
    <2>5. j \in F
      BY <2>3, <2>4, TwinsFitAlike DEF ExactFits
    <2>6. N = {x} => j \in N
      <3> HIDE DEF F
      <3>1. N = {x} => M!HintMatches(t, x)
        BY DEF Named
      <3>2. N = {x} => M!HintMatches(t, j)
        BY <2>4, <3>1, TwinsFitAlike
      <3> QED BY <2>5, <3>2 DEF Named
    <2> HIDE DEF F, N
    <2> QED BY <2>2, <2>4, <2>5, <2>6
  <1>2. ASSUME p \in TdsOf(t, S, remembered) PROVE FALSE
    <2> DEFINE F == TdsFits(t, S, remembered)
               c == M!OnlyOf(F)
    <2>1. PICK x \in c : p = M!Proposal(t, x, x.amount - t.amount, "tds_adjusted", TdsTrust(t, x, remembered))
      BY <1>2 DEF TdsOf
    <2>0. IsFiniteSet(F)
      BY <1>0, FS_Subset DEF TdsFits
    <2>2. x \in F /\ F = {x}
      <3> HIDE DEF F
      <3> QED BY <2>0, <2>1, OnlyIs
    <2>3. x \in S /\ x.id = i.id /\ M!FitsWithTds(t, x, remembered)
      BY <2>1, <2>2, ProposalIs DEF TdsFits
    <2>4. PICK j \in S : j # x /\ Twin(x, j)
      BY <2>3, TwinsAreTwo
    <2>5. j \in F
      BY <2>3, <2>4, TwinsFitAlike DEF TdsFits
    <2> HIDE DEF F
    <2> QED BY <2>2, <2>4, <2>5
  <1> QED BY <1>1, <1>2

LEMMA NoTwinProposed ==
  ASSUME NEW txns, NEW n, NEW open, NEW remembered, RowsAre(txns, n, open, remembered)
  PROVE  LET e == M!ProposeMatches(txns, open)
             d == M!ProposeTdsMatches(LeftOf(txns, e), FreeOf(open, e), remembered)
         IN  /\ \A k \in DOMAIN e, i \in Twins(open) : e[k].invoice # i.id
             /\ \A k \in DOMAIN d, i \in Twins(open) : d[k].invoice # i.id
  <1> DEFINE e == M!ProposeMatches(txns, open)
             left == LeftOf(txns, e)
             nl == Len(left)
             rest == FreeOf(open, e)
             d == M!ProposeTdsMatches(left, rest, remembered)
             W == Twins(open)
  <1>0. PaymentsAre(txns, n) /\ IsFiniteSet(open) /\ \A i, j \in open : i.id = j.id => i = j
    BY DEF RowsAre
  <1>1. W \in SUBSET open
    BY DEF Twins
  <1>2. \A k \in DOMAIN e, i \in W : e[k].invoice # i.id
    <2> DEFINE offer == ExactOffers(txns, n, open)
    <2>1. PassGives(e, offer, n, open) /\ Offering(offer, txns, n, open)
      BY <1>0, ExactPass, OffersAre
    <2>2. ASSUME NEW m \in 1..n, NEW S \in SUBSET open, W \subseteq S, NEW p \in offer[<<m, S>>], NEW i \in W
          PROVE  p.invoice # i.id
      <3>1. p \in ExactOf(txns[m], S)
        BY <1>0, OffersAre
      <3> QED BY <1>0, <2>2, <3>1, TwinsNotOffered
    <2> HIDE DEF offer, e, W
    <2>3. PICK after : IsPass(after, offer, n, open) /\ e = after[n]
      BY <2>1 DEF PassGives
    <2>4. n \in 0..n
      BY <2>1 DEF Offering
    <2>5. \A k \in DOMAIN after[n], i \in W : after[n][k].invoice # i.id
      <3>1. Spared(W, offer, n, open)
        BY <1>1, <2>2 DEF Spared
      <3> QED BY <2>1, <2>3, <2>4, <3>1, LeftAlone
    <2> QED BY <2>3, <2>5
  <1>3. PaymentsAre(left, nl)
    BY <1>0, LeftIs DEF LeftSays
  <1>4. rest \subseteq open /\ IsFiniteSet(rest) /\ W \in SUBSET rest
    <2>1. rest \subseteq open
      BY FreeIn
    <2> HIDE DEF e, W
    <2>2. W \in SUBSET rest
      BY <1>1, <1>2 DEF FreeOf
    <2> QED BY <1>0, <2>1, <2>2, FS_Subset
  <1>5. \A k \in DOMAIN d, i \in W : d[k].invoice # i.id
    <2> DEFINE offer == TdsOffers(left, nl, rest, remembered)
    <2> HIDE DEF e, left, rest
    <2>1. PassGives(d, offer, nl, rest) /\ Offering(offer, left, nl, rest)
      BY <1>3, <1>4, TdsPass, OffersAre
    <2>2. ASSUME NEW m \in 1..nl, NEW S \in SUBSET rest, W \subseteq S, NEW p \in offer[<<m, S>>], NEW i \in W
          PROVE  p.invoice # i.id
      <3>1. p \in TdsOf(left[m], S, remembered)
        BY <1>3, <1>4, OffersAre
      <3>2. S \in SUBSET open
        BY <1>4
      <3> QED BY <1>0, <2>2, <3>1, <3>2, TwinsNotOffered
    <2> HIDE DEF offer, d, W, nl
    <2>3. PICK after : IsPass(after, offer, nl, rest) /\ d = after[nl]
      BY <2>1 DEF PassGives
    <2>4. nl \in 0..nl
      BY <2>1 DEF Offering
    <2>5. \A k \in DOMAIN after[nl], i \in W : after[nl][k].invoice # i.id
      <3>1. Spared(W, offer, nl, rest)
        BY <1>4, <2>2 DEF Spared
      <3> QED BY <2>1, <2>3, <2>4, <3>1, LeftAlone
    <2> QED BY <2>3, <2>5
  <1> QED BY <1>2, <1>5

-----------------------------------------------------------------------------
(* A payment without rivals.                                                *)

\* The proposals for one payment are what it is offered in its turn.
In1(p, s) == \E k \in DOMAIN s : s[k] = p
LEMMA OfPayment ==
  ASSUME NEW offer, NEW txns, NEW n, NEW open, Offering(offer, txns, n, open),
         NEW s, NEW free, PassSays(s, offer, n, open, free), NEW m \in 1..n, NEW p
  PROVE  In1(p, s) /\ p.txn = txns[m].id <=> p \in offer[<<m, free[m]>>]
  <1>0. \A l \in 1..n : \A q \in offer[<<l, free[l]>>] : q.txn = txns[l].id
    <2> SUFFICES ASSUME NEW l \in 1..n, NEW q \in offer[<<l, free[l]>>] PROVE q.txn = txns[l].id
      OBVIOUS
    <2>1. free[l] \in SUBSET open
      BY DEF PassSays
    <2>2. IsOffer(offer[<<l, free[l]>>], txns[l], free[l])
      BY <2>1 DEF Offering
    <2> QED BY <2>2 DEF IsOffer
  <1>1. ASSUME In1(p, s), p.txn = txns[m].id PROVE p \in offer[<<m, free[m]>>]
    <2>1. PICK l \in 1..n : p \in offer[<<l, free[l]>>]
      <3>1. PICK k \in DOMAIN s : s[k] = p
        BY <1>1 DEF In1
      <3>2. \E l \in 1..n : s[k] \in offer[<<l, free[l]>>]
        BY DEF PassSays
      <3> QED BY <3>1, <3>2
    <2>2. txns[l].id = txns[m].id
      BY <1>0, <1>1, <2>1
    <2>3. l = m
      BY <2>2 DEF Offering
    <2> QED BY <2>1, <2>3
  <1>2. ASSUME p \in offer[<<m, free[m]>>] PROVE In1(p, s) /\ p.txn = txns[m].id
    BY <1>0, <1>2 DEF In1, PassSays
  <1> QED BY <1>1, <1>2

Fits1(t, i, remembered) == M!FitsExactly(t, i) \/ M!FitsWithTds(t, i, remembered)
Unrivalled(m, txns, n, open, remembered) ==
  \A l \in 1..n, i \in open : l # m /\ Fits1(txns[m], i, remembered) => ~Fits1(txns[l], i, remembered)

LEMMA SameFitsSameExact ==
  ASSUME NEW t, NEW S, NEW T, ExactFits(t, S) = ExactFits(t, T)
  PROVE  ExactOf(t, S) = ExactOf(t, T)
  BY DEF ExactOf, ExactTrust
LEMMA SameFitsSameTds ==
  ASSUME NEW t, NEW S, NEW T, NEW remembered, TdsFits(t, S, remembered) = TdsFits(t, T, remembered)
  PROVE  TdsOf(t, S, remembered) = TdsOf(t, T, remembered)
  BY DEF TdsOf

Deserves(t, open, remembered) ==
  IF ExactOf(t, open) # {} THEN ExactOf(t, open) ELSE TdsOf(t, open, remembered)

LEMMA ExactDeserved ==
  ASSUME NEW txns, NEW n, NEW open, NEW remembered, RowsAre(txns, n, open, remembered),
         NEW r, NEW e, NEW d, NEW fe, NEW fd, NodeSays(r, e, d, fe, fd, txns, n, open, remembered),
         NEW m \in 1..n, Unrivalled(m, txns, n, open, remembered), NEW p
  PROVE  In1(p, e) /\ p.txn = txns[m].id <=> p \in ExactOf(txns[m], open)
  <1> DEFINE t == txns[m]
             offer == ExactOffers(txns, n, open)
  <1>0. PaymentsAre(txns, n) /\ IsFiniteSet(open) /\ \A i, j \in open : i.id = j.id => i = j
    BY DEF RowsAre
  <1>1. PassSays(e, offer, n, open, fe) /\ Offering(offer, txns, n, open)
    BY <1>0, OffersAre DEF NodeSays
  <1>2. \A l \in 1..n : fe[l] \in SUBSET open /\ offer[<<l, fe[l]>>] = ExactOf(txns[l], fe[l])
    <2>1. \A l \in 1..n : fe[l] \in SUBSET open
      BY <1>1 DEF PassSays
    <2> QED BY <1>0, <2>1, OffersAre
  <1> HIDE DEF offer
  <1>3. ASSUME NEW i \in open, M!FitsExactly(t, i), i \notin fe[m] PROVE FALSE
    <2>1. PICK l \in 1..n : l # m /\ \E q \in offer[<<l, fe[l]>>] : q.invoice = i.id
      BY <1>1, <1>3 DEF PassSays
    <2>2. PICK q \in ExactOf(txns[l], fe[l]) : q.invoice = i.id
      BY <1>2, <2>1
    <2>3. IsFiniteSet(fe[l]) /\ Whole1(txns[l], fe[l])
      BY <1>0, <1>2, FS_Subset DEF Whole1, RowsAre
    <2>4. PICK x \in fe[l] : AnExact(q, txns[l], x)
      BY <2>3, ExactSays
    <2>5. x = i /\ M!FitsExactly(txns[l], i)
      <3>1. x \in open /\ x.id = i.id
        BY <1>2, <2>2, <2>4 DEF AnExact, Settles
      <3>2. x = i
        BY <1>0, <3>1
      <3> QED BY <2>4, <3>2 DEF AnExact
    <2> QED BY <1>3, <2>1, <2>5 DEF Unrivalled, Fits1
  <1>4. ExactFits(t, fe[m]) = ExactFits(t, open)
    <2>1. fe[m] \in SUBSET open
      BY <1>2
    <2> QED BY <1>3, <2>1 DEF ExactFits
  <1>5. ExactOf(t, fe[m]) = ExactOf(t, open)
    BY <1>4, SameFitsSameExact
  <1>6. In1(p, e) /\ p.txn = txns[m].id <=> p \in offer[<<m, fe[m]>>]
    BY <1>1, OfPayment
  <1> QED BY <1>2, <1>5, <1>6

LEMMA TdsDeserved ==
  ASSUME NEW txns, NEW n, NEW open, NEW remembered, RowsAre(txns, n, open, remembered),
         NEW r, NEW e, NEW d, NEW fe, NEW fd, NodeSays(r, e, d, fe, fd, txns, n, open, remembered),
         NEW m \in 1..n, Unrivalled(m, txns, n, open, remembered), ~Served(txns[m], e), NEW p
  PROVE  In1(p, d) /\ p.txn = txns[m].id <=> p \in TdsOf(txns[m], open, remembered)
  <1> DEFINE t == txns[m]
             left == LeftOf(txns, e)
             nl == Len(left)
             rest == FreeOf(open, e)
             offer == TdsOffers(left, nl, rest, remembered)
  <1>0. PaymentsAre(txns, n) /\ IsFiniteSet(open) /\ (\A i, j \in open : i.id = j.id => i = j)
        /\ \A l, u \in 1..n : txns[l].id = txns[u].id => l = u
    BY DEF RowsAre, PaymentsAre
  <1>1. LeftSays(left, nl, txns, n, e)
    BY <1>0, LeftIs
  <1>2. PaymentsAre(left, nl) /\ (\A l, u \in 1..nl : left[l].id = left[u].id => l = u)
        /\ \A l \in 1..nl : \E k \in 1..n : left[l] = txns[k]
    BY <1>1 DEF LeftSays, PaymentsAre
  <1>3. PICK l \in 1..nl : left[l] = t
    BY <1>1 DEF LeftSays
  <1>4. rest \subseteq open /\ IsFiniteSet(rest)
    BY <1>0, FreeIn, FS_Subset
  <1>5. PassSays(d, offer, nl, rest, fd)
    BY DEF NodeSays
  <1> HIDE DEF left, nl
  <1>6. \A i \in open : i \notin rest => \E k \in DOMAIN e : e[k].invoice = i.id
    BY DEF FreeOf
  <1> HIDE DEF rest
  <1>7. Offering(offer, left, nl, rest)
    BY <1>2, <1>4, OffersAre
  <1>8. \A u \in 1..nl : fd[u] \in SUBSET rest /\ offer[<<u, fd[u]>>] = TdsOf(left[u], fd[u], remembered)
    <2>1. \A u \in 1..nl : fd[u] \in SUBSET rest
      BY <1>5 DEF PassSays
    <2> QED BY <1>2, <1>4, <2>1, OffersAre
  <1> HIDE DEF offer
  <1>9. ASSUME NEW i \in open, M!FitsWithTds(t, i, remembered), i \notin rest PROVE FALSE
    <2>1. PICK k \in DOMAIN e : e[k].invoice = i.id
      BY <1>6, <1>9
    <2>2. PICK u \in 1..n : \E x \in open : AnExact(e[k], txns[u], x)
      BY NodeProposals
    <2>3. PICK x \in open : AnExact(e[k], txns[u], x)
      BY <2>2
    <2>4. e[k].txn = txns[u].id /\ e[k].invoice = x.id /\ M!FitsExactly(txns[u], x)
      BY <2>3 DEF AnExact, Settles
    <2>5. x = i /\ u # m
      BY <1>0, <2>1, <2>4 DEF Served
    <2> QED BY <1>9, <2>4, <2>5 DEF Unrivalled, Fits1
  <1>10. ASSUME NEW i \in rest, M!FitsWithTds(t, i, remembered), i \notin fd[l] PROVE FALSE
    <2>1. PICK u \in 1..nl : u # l /\ \E q \in offer[<<u, fd[u]>>] : q.invoice = i.id
      BY <1>5, <1>10 DEF PassSays
    <2>2. PICK q \in TdsOf(left[u], fd[u], remembered) : q.invoice = i.id
      BY <1>8, <2>1
    <2>3. PICK v \in 1..n : left[u] = txns[v]
      BY <1>2
    <2>4. v # m
      BY <1>2, <1>3, <2>1, <2>3
    <2>5. IsFiniteSet(fd[u]) /\ Whole1(left[u], fd[u]) /\ \A x \in fd[u] : RatesAre(x, remembered)
      <3>1. fd[u] \in SUBSET rest
        BY <1>8
      <3>2. IsFiniteSet(fd[u])
        BY <1>4, <3>1, FS_Subset
      <3> QED BY <1>4, <2>3, <3>1, <3>2 DEF Whole1, RowsAre
    <2>6. PICK x \in fd[u] : ATds(q, left[u], x, remembered)
      BY <2>5, TdsSays
    <2>7. x \in open /\ x.id = i.id
      BY <1>4, <1>8, <2>2, <2>6 DEF ATds, Settles
    <2>8. x = i /\ i \in open
      BY <1>0, <1>4, <2>7
    <2>9. M!FitsWithTds(txns[v], i, remembered)
      BY <2>3, <2>6, <2>8 DEF ATds
    <2> QED BY <1>10, <2>4, <2>8, <2>9 DEF Unrivalled, Fits1
  <1>11. TdsFits(t, fd[l], remembered) = TdsFits(t, open, remembered)
    <2>1. fd[l] \subseteq rest /\ fd[l] \subseteq open
      BY <1>4, <1>8
    <2> QED BY <1>9, <1>10, <2>1 DEF TdsFits
  <1>12. TdsOf(t, fd[l], remembered) = TdsOf(t, open, remembered)
    BY <1>11, SameFitsSameTds
  <1>13. In1(p, d) /\ p.txn = left[l].id <=> p \in offer[<<l, fd[l]>>]
    BY <1>5, <1>7, OfPayment
  <1> QED BY <1>3, <1>8, <1>12, <1>13

LEMMA Deserved ==
  ASSUME NEW txns, NEW n, NEW open, NEW remembered, RowsAre(txns, n, open, remembered),
         NEW m \in 1..n, Unrivalled(m, txns, n, open, remembered), NEW p
  PROVE  In1(p, M!MatchNode(txns, open, remembered)) /\ p.txn = txns[m].id <=> p \in Deserves(txns[m], open, remembered)
  <1> DEFINE e == M!ProposeMatches(txns, open)
             d == M!ProposeTdsMatches(LeftOf(txns, e), FreeOf(open, e), remembered)
             r == e \o d
             t == txns[m]
  <1>1. r = M!MatchNode(txns, open, remembered) /\ \E fe, fd : NodeSays(r, e, d, fe, fd, txns, n, open, remembered)
    BY NodeIs DEF RowsAre
  <1> HIDE DEF r, e, d
  <1>2. PICK fe, fd : NodeSays(r, e, d, fe, fd, txns, n, open, remembered)
    BY <1>1
  <1>3. In1(p, r) <=> In1(p, e) \/ In1(p, d)
    <2>1. Halves(r, e, d)
      BY <1>2, NodeHalves
    <2> QED BY <2>1 DEF Halves, In1
  <1>4. \A q : In1(q, e) /\ q.txn = t.id <=> q \in ExactOf(t, open)
    BY <1>2, ExactDeserved
  <1>5. Served(t, e) <=> ExactOf(t, open) # {}
    BY <1>4 DEF Served, In1
  <1>6. CASE Served(t, e)
    <2>1. ~(In1(p, d) /\ p.txn = t.id)
      <3> SUFFICES ASSUME NEW k \in DOMAIN d, d[k].txn = t.id PROVE FALSE
        BY DEF In1
      <3>1. PICK l \in 1..n : \E i \in FreeOf(open, e) : ATds(d[k], txns[l], i, remembered) /\ ~Served(txns[l], e)
        BY <1>2, NodeProposals
      <3>2. d[k].txn = txns[l].id /\ ~Served(txns[l], e)
        BY <3>1 DEF ATds, Settles
      <3> QED BY <1>6, <3>2 DEF Served
    <2> QED BY <1>1, <1>3, <1>4, <1>5, <1>6, <2>1 DEF Deserves
  <1>7. CASE ~Served(t, e)
    <2>1. In1(p, d) /\ p.txn = t.id <=> p \in TdsOf(t, open, remembered)
      BY <1>2, <1>7, TdsDeserved
    <2>2. ~(In1(p, e) /\ p.txn = t.id)
      BY <1>7 DEF Served, In1
    <2> QED BY <1>1, <1>3, <1>5, <1>7, <2>1, <2>2 DEF Deserves
  <1> QED BY <1>6, <1>7

\* The node alone with a payment proposes what the payment deserves.
LEMMA DeservedAlone ==
  ASSUME NEW t, NEW open, NEW remembered, RowsAre(<<t>>, 1, open, remembered), NEW p
  PROVE  In1(p, M!MatchNode(<<t>>, open, remembered)) <=> p \in Deserves(t, open, remembered)
  <1> DEFINE alone == M!MatchNode(<<t>>, open, remembered)
             txns == <<t>>
  <1>1. 1 \in 1..1 /\ txns[1] = t /\ \A l \in 1..1 : l = 1
    OBVIOUS
  <1> HIDE DEF txns
  <1>2. Unrivalled(1, txns, 1, open, remembered)
    BY <1>1 DEF Unrivalled
  <1>3. In1(p, M!MatchNode(txns, open, remembered)) /\ p.txn = txns[1].id <=> p \in Deserves(txns[1], open, remembered)
    BY <1>1, <1>2, Deserved DEF txns
  <1>4. In1(p, M!MatchNode(txns, open, remembered)) => p.txn = txns[1].id
    <2> DEFINE e == M!ProposeMatches(txns, open)
               d == M!ProposeTdsMatches(LeftOf(txns, e), FreeOf(open, e), remembered)
               r == e \o d
    <2>1. r = M!MatchNode(txns, open, remembered) /\ \E fe, fd : NodeSays(r, e, d, fe, fd, txns, 1, open, remembered)
      <3>1. PaymentsAre(txns, 1) /\ IsFiniteSet(open)
        BY DEF RowsAre, txns
      <3> HIDE DEF txns
      <3> QED BY <3>1, NodeIs
    <2> HIDE DEF r, e, d
    <2>2. PICK fe, fd : NodeSays(r, e, d, fe, fd, txns, 1, open, remembered)
      BY <2>1
    <2>3. \A k \in DOMAIN r : \E l \in 1..1 : \E i \in open : Settles(r[k], txns[l], i)
      BY <2>2, EachSettles DEF txns
    <2>4. \A k \in DOMAIN r : r[k].txn = txns[1].id
      BY <1>1, <2>3 DEF Settles
    <2> QED BY <2>1, <2>4 DEF In1
  <1> QED BY <1>1, <1>3, <1>4 DEF txns

-----------------------------------------------------------------------------
(* What is learned of the matches.                                          *)

LEMMA InEither ==
  ASSUME NEW A, NEW E, NEW a \in Seq(A), NEW b \in Seq(E), NEW x
  PROVE  In1(x, a \o b) <=> In1(x, a) \/ In1(x, b)
  <1>1. Halves(a \o b, a, b)
    BY HalvesAre
  <1> QED BY <1>1 DEF Halves, In1

Holds(s, ss, n) == \A x : In1(x, s) <=> \E k \in 1..n : In1(x, ss[k])
LEMMA FlattenHolds ==
  ASSUME NEW V, NEW n, NEW ss, Pieces(V, n, ss)
  PROVE  FlattenSeq(ss) \in Seq(V) /\ Holds(FlattenSeq(ss), ss, n)
  <1>1. PICK h \in [0..n -> Seq(V)] : Joins(h, ss, n) /\ FlattenSeq(ss) = h[n]
    BY FlattenOf DEF Joined
  <1>2. n \in Nat /\ ss \in [1..n -> Seq(V)]
    BY DEF Pieces
  <1> DEFINE Good == {m \in 0..n : Holds(h[m], ss, m)}
  <1>3. 0 \in Good
    <2>1. 0 \in 0..n /\ h[0] = <<>> /\ 1..0 = {} /\ DOMAIN <<>> = {}
      BY <1>1, <1>2 DEF Joins
    <2> QED BY <2>1 DEF Holds, In1
  <1>4. ASSUME NEW m \in 1..n, m - 1 \in Good PROVE m \in Good
    <2>1. m \in 0..n /\ m - 1 \in 0..n /\ 1..m = (1..(m - 1)) \cup {m}
      BY <1>2
    <2>2. h[m] = h[m - 1] \o ss[m] /\ h[m - 1] \in Seq(V) /\ ss[m] \in Seq(V)
      BY <1>1, <1>2, <2>1 DEF Joins
    <2>3. ASSUME NEW x PROVE In1(x, h[m]) <=> \E k \in 1..m : In1(x, ss[k])
      <3>1. In1(x, h[m]) <=> In1(x, h[m - 1]) \/ In1(x, ss[m])
        BY <2>2, InEither
      <3>2. In1(x, h[m - 1]) <=> \E k \in 1..(m - 1) : In1(x, ss[k])
        BY <1>4 DEF Holds
      <3> QED BY <2>1, <3>1, <3>2
    <2> QED BY <2>1, <2>3 DEF Holds
  <1> HIDE DEF Good
  <1>5. n \in Good /\ n \in 0..n
    <2>1. n \in 0..n
      BY <1>2
    <2>2. \A m \in 0..n : m \in Good
      BY <1>2, <1>3, <1>4, UpTo
    <2> QED BY <2>1, <2>2
  <1>6. h[n] \in Seq(V)
    BY <1>5
  <1> QED BY <1>1, <1>5, <1>6 DEF Good

\* The rates parsed from claims.
Tells(c, b) == c.kind = "rate" /\ c.bps = b /\ IsRate(b)
AllRates == {b \in Int : IsRate(b)}
Parsed(s, claims, n) == \A b : In1(b, s) <=> \E k \in 1..n : Tells(claims[k], b)
ParseStep(s, c) ==
  IF c.kind = "rate" /\ C!Plausible(c.bps) /\ c.bps \notin C!ToSet(s) THEN Append(s, c.bps) ELSE s
ParseLoop(f, claims) == f = [n \in 0..Len(claims) |-> IF n = 0 THEN <<>> ELSE ParseStep(f[n - 1], claims[n])]

LEMMA ParseStepIs ==
  ASSUME NEW s \in Seq(AllRates), NEW c
  PROVE  /\ ParseStep(s, c) \in Seq(AllRates)
         /\ \A b : In1(b, ParseStep(s, c)) <=> In1(b, s) \/ Tells(c, b)
  <1>1. C!Plausible(c.bps) <=> IsRate(c.bps)
    BY DEF C!Plausible, IsRate
  <1>2. c.bps \in C!ToSet(s) <=> In1(c.bps, s)
    BY DEF C!ToSet, In1
  <1>3. CASE c.kind = "rate" /\ IsRate(c.bps) /\ ~In1(c.bps, s)
    <2>1. ParseStep(s, c) = Append(s, c.bps)
      BY <1>1, <1>2, <1>3 DEF ParseStep
    <2>2. c.bps \in AllRates
      <3> DEFINE v == c.bps
      <3>1. IsRate(v)
        BY <1>3
      <3> HIDE DEF v
      <3>2. v \in Int
        BY <3>1 DEF IsRate
      <3>3. v \in AllRates
        BY <3>1, <3>2 DEF AllRates
      <3> QED BY <3>3 DEF v
    <2> DEFINE v == c.bps
               V == AllRates
    <2>3. v \in V /\ s \in Seq(V)
      BY <2>2
    <2>4. \A b : Tells(c, b) <=> b = v
      BY <1>3 DEF Tells
    <2> HIDE DEF v, V
    <2>5. Append(s, v) \in Seq(V) /\ Append(s, v) = s \o <<v>> /\ <<v>> \in Seq(V)
      BY <2>3
    <2>6. \A b : In1(b, <<v>>) <=> b = v
      <3>1. DOMAIN <<v>> = {1} /\ <<v>>[1] = v
        OBVIOUS
      <3> QED BY <3>1 DEF In1
    <2>7. \A b : In1(b, Append(s, v)) <=> In1(b, s) \/ b = v
      BY <2>3, <2>5, <2>6, InEither
    <2> QED BY <2>1, <2>4, <2>5, <2>7 DEF v, V
  <1>4. CASE ~(c.kind = "rate" /\ IsRate(c.bps) /\ ~In1(c.bps, s))
    <2>1. ParseStep(s, c) = s
      BY <1>1, <1>2, <1>4 DEF ParseStep
    <2>2. \A b : Tells(c, b) => In1(b, s)
      BY <1>4 DEF Tells
    <2> QED BY <2>1, <2>2
  <1> QED BY <1>3, <1>4

LEMMA RatesParsed ==
  ASSUME NEW claims, NEW n \in Nat, Len(claims) = n
  PROVE  C!ParseDeductionRates(claims) \in Seq(AllRates) /\ Parsed(C!ParseDeductionRates(claims), claims, n)
  <1> DEFINE S == Seq(AllRates)
             F == [w \in (1..n) \X S |-> ParseStep(w[2], claims[w[1]])]
             f == CHOOSE f : ParseLoop(f, claims)
  <1>1. C!ParseDeductionRates(claims) = f[n]
    BY DEF C!ParseDeductionRates, ParseLoop, ParseStep
  <1>2. \A m \in 1..n, s \in S : ParseStep(s, claims[m]) \in S
    BY ParseStepIs
  <1> HIDE DEF f
  <1>3. <<>> \in S
    OBVIOUS
  <1> HIDE DEF S
  <1>4. F \in [(1..n) \X S -> S] /\ \A m \in 1..n, s \in S : F[<<m, s>>] = ParseStep(s, claims[m])
    BY <1>2
  <1> HIDE DEF F
  <1>5. PICK g \in [0..n -> S] : Goes(g, n, <<>>, F)
    BY <1>3, <1>4, StepsLead
  <1>6. ParseLoop(g, claims)
    <2> DEFINE h == [m \in 0..n |-> IF m = 0 THEN <<>> ELSE ParseStep(g[m - 1], claims[m])]
    <2>1. g = [m \in 0..n |-> IF m = 0 THEN <<>> ELSE F[<<m, g[m - 1]>>]]
      BY <1>5 DEF Goes
    <2>2. \A m \in 0..n : g[m] = h[m]
      <3> TAKE m \in 0..n
      <3>1. g[m] = IF m = 0 THEN <<>> ELSE F[<<m, g[m - 1]>>]
        BY <2>1
      <3>2. m # 0 => m \in 1..n /\ m - 1 \in 0..n
        OBVIOUS
      <3>3. m # 0 => g[m - 1] \in S
        BY <1>5, <3>2
      <3>4. m # 0 => F[<<m, g[m - 1]>>] = ParseStep(g[m - 1], claims[m])
        BY <1>4, <3>2, <3>3
      <3> QED BY <3>1, <3>4
    <2>3. g = [m \in 0..n |-> g[m]] /\ h = [m \in 0..n |-> h[m]]
      BY <1>5
    <2> HIDE DEF h
    <2>4. g = h
      BY <2>2, <2>3
    <2> QED BY <2>4 DEF h, ParseLoop
  <1>7. ParseLoop(f, claims)
    BY <1>6 DEF f
  <1>8. f[0] = <<>> /\ \A m \in 1..n : f[m] = ParseStep(f[m - 1], claims[m])
    <2>1. \A m \in 0..n : f[m] = IF m = 0 THEN <<>> ELSE ParseStep(f[m - 1], claims[m])
      BY <1>7 DEF ParseLoop
    <2>2. 0 \in 0..n /\ \A m \in 1..n : m \in 0..n /\ m # 0
      OBVIOUS
    <2> QED BY <2>1, <2>2
  <1> DEFINE Good == {m \in 0..n : f[m] \in S /\ Parsed(f[m], claims, m)}
  <1>9. 0 \in Good
    <2>1. 0 \in 0..n /\ 1..0 = {} /\ DOMAIN <<>> = {}
      OBVIOUS
    <2> QED BY <1>3, <1>8, <2>1 DEF Parsed, In1
  <1>10. ASSUME NEW m \in 1..n, m - 1 \in Good PROVE m \in Good
    <2>1. m \in 0..n /\ 1..m = (1..(m - 1)) \cup {m}
      OBVIOUS
    <2>2. f[m - 1] \in S /\ f[m] = ParseStep(f[m - 1], claims[m])
      BY <1>8, <1>10
    <2>3. f[m] \in S /\ \A b : In1(b, f[m]) <=> In1(b, f[m - 1]) \/ Tells(claims[m], b)
      BY <2>2, ParseStepIs DEF S
    <2>4. \A b : In1(b, f[m - 1]) <=> \E k \in 1..(m - 1) : Tells(claims[k], b)
      BY <1>10 DEF Parsed
    <2>5. Parsed(f[m], claims, m)
      BY <2>1, <2>3, <2>4 DEF Parsed
    <2> QED BY <2>1, <2>3, <2>5
  <1> HIDE DEF Good
  <1>11. n \in Good
    <2>1. n \in 0..n
      OBVIOUS
    <2> QED BY <1>9, <1>10, <2>1, UpTo
  <1> QED BY <1>1, <1>11 DEF Good, S

\* The claims the matches r leave about a client, and the rate each tells.
LearnedOf(r, client) ==
  FlattenSeq([k \in DOMAIN r |-> IF r[k].party = client THEN C!ClaimsOfMatch(r[k], 0, 0) ELSE <<>>])
RateBack(p) == (p.tds * 10000) \div (p.amount + p.tds)
Teaches(p, client, b) == p.party = client /\ p.kind = "tds_adjusted" /\ b = RateBack(p) /\ IsRate(b)

LEMMA ClaimsAre ==
  ASSUME NEW p
  PROVE  LET V == {C!TimingClaim(0, 0), C!RateClaim(p.tds, p.amount)}
             s == C!ClaimsOfMatch(p, 0, 0)
         IN  /\ s \in Seq(V)
             /\ \A b : (\E x : In1(x, s) /\ Tells(x, b)) <=> p.kind = "tds_adjusted" /\ b = RateBack(p) /\ IsRate(b)
  <1> DEFINE x == C!TimingClaim(0, 0)
             y == C!RateClaim(p.tds, p.amount)
             V == {x, y}
             s == C!ClaimsOfMatch(p, 0, 0)
  <1>1. x.kind = "timing"
    BY DEF C!TimingClaim
  <1>2. y.kind = "rate" /\ y.bps = RateBack(p)
    BY DEF C!RateClaim, RateBack
  <1>3. s = IF p.kind = "tds_adjusted" THEN <<x>> \o <<y>> ELSE <<x>> \o <<>>
    BY DEF C!ClaimsOfMatch
  <1> HIDE DEF x, y, s
  <1>4. <<x>> \in Seq(V) /\ <<y>> \in Seq(V) /\ <<>> \in Seq(V)
    OBVIOUS
  <1>5. (\A z : In1(z, <<x>>) <=> z = x) /\ (\A z : In1(z, <<y>>) <=> z = y) /\ (\A z : ~In1(z, <<>>))
    <2>1. DOMAIN <<x>> = {1} /\ <<x>>[1] = x /\ DOMAIN <<y>> = {1} /\ <<y>>[1] = y /\ DOMAIN <<>> = {}
      OBVIOUS
    <2> QED BY <2>1 DEF In1
  <1>6. \A b : ~Tells(x, b)
    BY <1>1 DEF Tells
  <1>7. \A b : Tells(y, b) <=> b = RateBack(p) /\ IsRate(b)
    BY <1>2 DEF Tells
  <1>8. CASE p.kind = "tds_adjusted"
    <2>1. s = <<x>> \o <<y>>
      BY <1>3, <1>8
    <2> HIDE DEF V
    <2>2. s \in Seq(V)
      BY <1>4, <2>1
    <2>3. \A z : In1(z, s) <=> z = x \/ z = y
      BY <1>4, <1>5, <2>1, InEither
    <2> QED BY <1>6, <1>7, <1>8, <2>2, <2>3 DEF V, x, y, s
  <1>9. CASE p.kind # "tds_adjusted"
    <2>1. s = <<x>> \o <<>>
      BY <1>3, <1>9
    <2> HIDE DEF V
    <2>2. s \in Seq(V)
      BY <1>4, <2>1
    <2>3. \A z : In1(z, s) <=> z = x
      BY <1>4, <1>5, <2>1, InEither
    <2> QED BY <1>6, <1>9, <2>2, <2>3 DEF V, x, y, s
  <1> QED BY <1>8, <1>9

LearnsOf(s, r, n, client) ==
  /\ s \in Seq(AllRates)
  /\ \A b : In1(b, s) <=> \E k \in 1..n : Teaches(r[k], client, b)
LEMMA LearnedAre ==
  ASSUME NEW n \in Nat, NEW r, DOMAIN r = 1..n, NEW client
  PROVE  LearnsOf(C!ParseDeductionRates(LearnedOf(r, client)), r, n, client)
  <1> DEFINE W(k) == {C!TimingClaim(0, 0), C!RateClaim(r[k].tds, r[k].amount)}
             V == UNION {W(k) : k \in 1..n}
             Own(k) == C!ClaimsOfMatch(r[k], 0, 0)
             ss == [k \in 1..n |-> IF r[k].party = client THEN Own(k) ELSE <<>>]
  <1>1. ASSUME NEW k \in 1..n
        PROVE  /\ Own(k) \in Seq(W(k))
               /\ \A b : (\E x : In1(x, Own(k)) /\ Tells(x, b)) <=> r[k].kind = "tds_adjusted" /\ b = RateBack(r[k]) /\ IsRate(b)
    BY ClaimsAre
  <1>2. LearnedOf(r, client) = FlattenSeq(ss)
    BY DEF LearnedOf
  <1> HIDE DEF Own, W
  <1>3. \A k \in 1..n : Own(k) \in Seq(V)
    <2> TAKE k \in 1..n
    <2>1. W(k) \subseteq V
      OBVIOUS
    <2> HIDE DEF V
    <2> QED BY <1>1, <2>1
  <1>4. Pieces(V, n, ss)
    <2> HIDE DEF V
    <2>1. <<>> \in Seq(V)
      OBVIOUS
    <2> QED BY <1>3, <2>1 DEF Pieces
  <1>5. \A k \in 1..n : ss[k] = IF r[k].party = client THEN Own(k) ELSE <<>>
    OBVIOUS
  <1> HIDE DEF V, ss
  <1> DEFINE g == FlattenSeq(ss)
             l == Len(g)
  <1>6. g \in Seq(V) /\ Holds(g, ss, n)
    BY <1>4, FlattenHolds
  <1> HIDE DEF g
  <1>7. l \in Nat /\ DOMAIN g = 1..l
    BY <1>6
  <1>8. C!ParseDeductionRates(g) \in Seq(AllRates) /\ Parsed(C!ParseDeductionRates(g), g, l)
    BY <1>7, RatesParsed
  <1> HIDE DEF l
  <1>9. ASSUME NEW b
        PROVE  (\E j \in 1..l : Tells(g[j], b)) <=> \E k \in 1..n : Teaches(r[k], client, b)
    <2>1. (\E j \in 1..l : Tells(g[j], b)) <=> \E x : In1(x, g) /\ Tells(x, b)
      BY <1>7 DEF In1
    <2>2. (\E x : In1(x, g) /\ Tells(x, b)) <=> \E k \in 1..n : \E x : In1(x, ss[k]) /\ Tells(x, b)
      BY <1>6 DEF Holds
    <2>3. ASSUME NEW k \in 1..n PROVE (\E x : In1(x, ss[k]) /\ Tells(x, b)) <=> Teaches(r[k], client, b)
      <3>1. CASE r[k].party = client
        BY <1>1, <1>5, <3>1 DEF Teaches
      <3>2. CASE r[k].party # client
        <4>1. ss[k] = <<>> /\ DOMAIN <<>> = {}
          BY <1>5, <3>2
        <4> QED BY <3>2, <4>1 DEF In1, Teaches
      <3> QED BY <3>1, <3>2
    <2> QED BY <2>1, <2>2, <2>3
  <1>10. LearnsOf(C!ParseDeductionRates(g), r, n, client)
    BY <1>8, <1>9 DEF Parsed, LearnsOf
  <1> QED BY <1>2, <1>10 DEF g

\* The rate told is one that deducts.
LEMMA RateGivenBack ==
  ASSUME NEW a \in Int, a > 0, NEW b \in Int, NEW q \in Int, a * b = 10000 * q
  PROVE  (q * 10000) \div a = b
  <1>1. q * 10000 = a * b
    OBVIOUS
  <1>2. (a * b) \div a = b
    <2> DEFINE m == a * b
               c == m \div a
    <2>1. m \in Int /\ c \in Int /\ a * c <= m /\ m < a * c + a
      BY SMT
    <2>2. a * c <= a * b /\ a * b < a * (c + 1)
      BY <2>1
    <2> HIDE DEF m, c
    <2>3. c <= b /\ b < c + 1
      BY <2>1, <2>2, SMT
    <2>4. c = b
      BY <2>1, <2>3
    <2> QED BY <2>4 DEF m, c
  <1> QED BY <1>1, <1>2

Taught(r, remembered) == [c \in DOMAIN remembered |-> remembered[c] \o C!ParseDeductionRates(LearnedOf(r, c))]
Known(open, remembered) ==
  (\A i \in open : i.party \in DOMAIN remembered) /\ \A c \in DOMAIN remembered : remembered[c] \in Seq(1..3000)

LEMMA InIs ==
  ASSUME NEW x, NEW s
  PROVE  x \in M!ToSet(s) <=> In1(x, s)
  BY DEF M!ToSet, In1

\* A TDS match tells one of the rates it was tried with.
LEMMA TellsItsRate ==
  ASSUME NEW p, NEW t, NEW i, NEW remembered, ATds(p, t, i, remembered), RatesAre(i, remembered),
         t.amount \in Int, i.amount \in Int
  PROVE  \E b : b \in M!ToSet(remembered[i.party] \o M!STANDARD_TDS_BPS) /\ M!Deducts(t, i, b) /\ Teaches(p, i.party, b)
  <1>1. M!FitsWithTds(t, i, remembered) /\ p.kind = "tds_adjusted" /\ p.party = i.party /\ p.amount = t.amount
        /\ i.amount = p.amount + p.tds
    BY DEF ATds, Settles
  <1>2. PICK b \in M!ToSet(remembered[i.party] \o M!STANDARD_TDS_BPS) : M!Deducts(t, i, b)
    BY <1>1 DEF M!FitsWithTds, M!AnyDeducts
  <1>3. IsRate(b)
    BY <1>2, RatesTried DEF AllTried
  <1>4. i.amount > 0 /\ i.amount * b = 10000 * (i.amount - t.amount)
    BY <1>2, <1>3, DeductionIs
  <1>5. p.tds = i.amount - t.amount
    <2>1. p = M!Proposal(t, i, i.amount - t.amount, "tds_adjusted", TdsTrust(t, i, remembered))
      BY DEF ATds
    <2> QED BY <2>1, ProposalIs
  <1>6. RateBack(p) = b
    <2> DEFINE a == i.amount
               q == i.amount - t.amount
    <2>1. a \in Int /\ a > 0 /\ q \in Int /\ a * b = 10000 * q
      BY <1>4
    <2>2. p.tds = q /\ p.amount + p.tds = a
      BY <1>1, <1>5
    <2> HIDE DEF a, q
    <2>3. b \in Int
      BY <1>3 DEF IsRate
    <2>4. (q * 10000) \div a = b
      BY <2>1, <2>3, RateGivenBack
    <2> QED BY <2>2, <2>4 DEF RateBack
  <1>7. Teaches(p, i.party, b)
    BY <1>1, <1>3, <1>6 DEF Teaches
  <1> QED BY <1>2, <1>7

LEMMA SeqOfRates ==
  Seq(AllRates) = Seq(1..3000)
  <1>1. AllRates = 1..3000
    BY DEF AllRates, IsRate
  <1> QED BY <1>1

\* The rates once the matches are learned.
TaughtSays(new, old, r, n, c) ==
  /\ new \in Seq(1..3000)
  /\ \A b : In1(b, new) <=> In1(b, old) \/ \E k \in 1..n : Teaches(r[k], c, b)
LEMMA TaughtIs ==
  ASSUME NEW r, NEW n \in Nat, DOMAIN r = 1..n, NEW remembered, NEW c \in DOMAIN remembered,
         remembered[c] \in Seq(1..3000)
  PROVE  TaughtSays(Taught(r, remembered)[c], remembered[c], r, n, c)
  <1> DEFINE s == remembered[c]
             u == C!ParseDeductionRates(LearnedOf(r, c))
             V == 1..3000
  <1>1. Taught(r, remembered)[c] = s \o u
    BY DEF Taught
  <1>2. LearnsOf(u, r, n, c)
    BY LearnedAre
  <1>3. s \in Seq(V) /\ u \in Seq(V)
    BY <1>2, SeqOfRates DEF LearnsOf
  <1> HIDE DEF s, u, V
  <1>4. \A b : In1(b, s \o u) <=> In1(b, s) \/ In1(b, u)
    BY <1>3, InEither
  <1>5. s \o u \in Seq(V)
    BY <1>3
  <1> QED BY <1>1, <1>2, <1>4, <1>5 DEF LearnsOf, TaughtSays, s, V

LEMMA TaughtCounts ==
  ASSUME NEW txns, NEW n, NEW open, NEW remembered, RowsAre(txns, n, open, remembered), Known(open, remembered),
         NEW r, NEW e, NEW d, NEW fe, NEW fd, NodeSays(r, e, d, fe, fd, txns, n, open, remembered),
         NEW i \in open
  PROVE  /\ \A t : M!FitsWithTds(t, i, Taught(r, remembered)) <=> M!FitsWithTds(t, i, remembered)
         /\ \A m \in DOMAIN d : \A t : t.amount \in Int /\ ATds(d[m], t, i, remembered) =>
              TdsTrust(t, i, Taught(r, remembered)) = M!TDS_REMEMBERED_CONFIDENCE
  <1> DEFINE rates == Taught(r, remembered)
             c == i.party
             a == Len(r)
             old == remembered[c]
             new == rates[c]
  <1>0. c \in DOMAIN remembered /\ old \in Seq(1..3000) /\ RatesAre(i, remembered) /\ i.amount \in Int
    BY DEF Known, RowsAre
  <1>1. Halves(r, e, d)
    BY NodeHalves
  <1>2. a \in Nat /\ DOMAIN r = 1..a
    <2> DEFINE A == Every(ExactOffers(txns, n, open), n, open)
               E == Every(TdsOffers(LeftOf(txns, e), Len(LeftOf(txns, e)), FreeOf(open, e), remembered), Len(LeftOf(txns, e)), FreeOf(open, e))
    <2>1. e \in Seq(A) /\ d \in Seq(E) /\ r = e \o d
      BY DEF NodeSays, PassSays
    <2> HIDE DEF A, E
    <2>2. r \in Seq(A \cup E)
      BY <2>1, HalvesAre
    <2> QED BY <2>2
  <1> HIDE DEF a
  <1>3. new \in Seq(1..3000) /\ \A b : In1(b, new) <=> In1(b, old) \/ \E k \in 1..a : Teaches(r[k], c, b)
    <2>1. TaughtSays(rates[c], remembered[c], r, a, c)
      BY <1>0, <1>2, TaughtIs
    <2> QED BY <2>1 DEF TaughtSays
  <1>4. RatesAre(i, rates)
    BY <1>3 DEF RatesAre
  <1> DEFINE std == {100, 200, 500, 1000}
             olds == M!ToSet(old \o M!STANDARD_TDS_BPS)
             news == M!ToSet(new \o M!STANDARD_TDS_BPS)
  <1>5. olds = M!ToSet(old) \cup std /\ news = M!ToSet(new) \cup std
    <2>1. AllTried(remembered[i.party]) /\ AllTried(rates[i.party])
      BY <1>0, <1>4, RatesTried
    <2> QED BY <2>1 DEF AllTried
  <1>6. ASSUME NEW k \in 1..a, NEW b, Teaches(r[k], c, b) PROVE b \in olds
    <2>1. (k \in DOMAIN e /\ r[k] = e[k]) \/ \E m \in DOMAIN d : r[k] = d[m]
      BY <1>1, <1>2 DEF Halves
    <2>2. r[k].kind = "tds_adjusted" /\ r[k].party = c /\ b = RateBack(r[k])
      BY <1>6 DEF Teaches
    <2>3. ASSUME k \in DOMAIN e, r[k] = e[k] PROVE FALSE
      <3>1. e[k].kind = "full"
        BY <2>3, NodeProposals DEF AnExact
      <3> QED BY <2>2, <2>3, <3>1
    <2>4. PICK m \in DOMAIN d : r[k] = d[m]
      BY <2>1, <2>3
    <2>5. PICK l \in 1..n : \E j \in FreeOf(open, e) : ATds(d[m], txns[l], j, remembered)
      BY NodeProposals
    <2>6. PICK j \in FreeOf(open, e) : ATds(d[m], txns[l], j, remembered)
      BY <2>5
    <2>7. j \in open
      BY <2>6, FreeIn
    <2>8. RatesAre(j, remembered) /\ j.amount \in Int /\ txns[l].amount \in Int /\ j.party = c
      BY <2>2, <2>4, <2>6, <2>7 DEF RowsAre, ATds, Settles
    <2>9. PICK q : q \in M!ToSet(remembered[j.party] \o M!STANDARD_TDS_BPS) /\ Teaches(d[m], j.party, q)
      BY <2>6, <2>8, TellsItsRate
    <2>10. q = b
      BY <2>2, <2>4, <2>9 DEF Teaches
    <2> QED BY <2>8, <2>9, <2>10
  <1> HIDE DEF std, new, old, olds, news, c
  <1>7. olds = news
    <2>1. \A b : b \in M!ToSet(new) <=> b \in M!ToSet(old) \/ \E k \in 1..a : Teaches(r[k], c, b)
      BY <1>3, InIs
    <2> QED BY <1>5, <1>6, <2>1
  <1>8. \A t : M!FitsWithTds(t, i, rates) <=> M!FitsWithTds(t, i, remembered)
    <2>1. \A t : M!AnyDeducts(t, i, rates[i.party] \o M!STANDARD_TDS_BPS) <=> M!AnyDeducts(t, i, remembered[i.party] \o M!STANDARD_TDS_BPS)
      BY <1>7 DEF M!AnyDeducts, olds, news, old, new, c
    <2> QED BY <2>1 DEF M!FitsWithTds
  <1>9. ASSUME NEW m \in DOMAIN d, NEW t, t.amount \in Int, ATds(d[m], t, i, remembered)
        PROVE  TdsTrust(t, i, rates) = M!TDS_REMEMBERED_CONFIDENCE
    <2>1. PICK b : M!Deducts(t, i, b) /\ Teaches(d[m], i.party, b)
      BY <1>0, <1>9, TellsItsRate
    <2>2. \E k \in 1..a : Teaches(r[k], i.party, b)
      BY <1>1, <1>2, <2>1 DEF Halves
    <2>3. b \in M!ToSet(rates[i.party])
      BY <1>3, <2>2, InIs DEF new, c
    <2> QED BY <2>1, <2>3 DEF TdsTrust, M!AnyDeducts
  <1> QED BY <1>8, <1>9

\* Proposals that are trusted more.
Raise(p) == [p EXCEPT !.confidence = M!TDS_REMEMBERED_CONFIDENCE]
RaiseAll(s) == [k \in DOMAIN s |-> Raise(s[k])]

LEMMA RaisedAppend ==
  ASSUME NEW V, NEW s \in Seq(V), NEW p \in V
  PROVE  RaiseAll(Append(s, p)) = Append(RaiseAll(s), Raise(p))
  <1> DEFINE U == {Raise(x) : x \in V}
             t == RaiseAll(s)
             a == Len(s)
             left == RaiseAll(Append(s, p))
             right == Append(t, Raise(p))
  <1>1. a \in Nat /\ DOMAIN s = 1..a /\ \A k \in 1..a : s[k] \in V
    OBVIOUS
  <1>2. Raise(p) \in U /\ \A k \in 1..a : Raise(s[k]) \in U
    BY <1>1
  <1>3. t = [k \in 1..a |-> Raise(s[k])]
    BY <1>1 DEF RaiseAll
  <1> HIDE DEF U, t
  <1>4. t \in [1..a -> U]
    BY <1>2, <1>3
  <1>5. t \in Seq(U) /\ Len(t) = a
    BY <1>1, <1>4
  <1>6. right \in Seq(U) /\ Len(right) = a + 1 /\ right[a + 1] = Raise(p) /\ \A k \in 1..a : right[k] = t[k]
    BY <1>1, <1>2, <1>5
  <1>7. DOMAIN right = 1..(a + 1) /\ right = [k \in 1..(a + 1) |-> right[k]]
    <2> HIDE DEF right
    <2>1. DOMAIN right = 1..(a + 1)
      BY <1>6
    <2>2. right = [k \in DOMAIN right |-> right[k]]
      BY <1>6
    <2> QED BY <2>1, <2>2
  <1>8. DOMAIN Append(s, p) = 1..(a + 1) /\ Append(s, p)[a + 1] = p /\ \A k \in 1..a : Append(s, p)[k] = s[k]
    BY <1>1
  <1>9. left = [k \in 1..(a + 1) |-> Raise(Append(s, p)[k])]
    BY <1>8 DEF RaiseAll
  <1> HIDE DEF right
  <1>10. \A k \in 1..(a + 1) : Raise(Append(s, p)[k]) = right[k]
    <2> TAKE k \in 1..(a + 1)
    <2>1. CASE k = a + 1
      BY <1>6, <1>8, <2>1
    <2>2. CASE k # a + 1
      <3>1. k \in 1..a
        BY <1>1, <2>2
      <3> QED BY <1>3, <1>6, <1>8, <3>1
    <2> QED BY <2>1, <2>2
  <1> HIDE DEF left
  <1>11. left = right
    BY <1>7, <1>9, <1>10
  <1> QED BY <1>11 DEF left, right, t

\* A second pass offers in each turn what the first does, raised.
Raises(offer2, offer, after, n, open) ==
  \A m \in 1..n :
    /\ offer2[<<m, FreeOf(open, after[m - 1])>>] = {Raise(p) : p \in Turn(after, offer, open, m)}
    /\ \A p \in Turn(after, offer, open, m) : Raise(p).invoice = p.invoice

LEMMA RaisedPass ==
  ASSUME NEW offer, NEW offer2, NEW txns, NEW n, NEW open,
         Offering(offer, txns, n, open), Offering(offer2, txns, n, open),
         NEW after, IsPass(after, offer, n, open), NEW after2, IsPass(after2, offer2, n, open),
         Raises(offer2, offer, after, n, open), NEW m \in 0..n
  PROVE  after2[m] = RaiseAll(after[m])
  <1> DEFINE Good == {l \in 0..n : after2[l] = RaiseAll(after[l])}
             V == Every(offer, n, open)
             V2 == Every(offer2, n, open)
  <1>0. n \in Nat
    BY DEF Offering
  <1>1. 0 \in Good
    <2>1. after[0] = <<>> /\ after2[0] = <<>> /\ DOMAIN <<>> = {} /\ 0 \in 0..n
      BY <1>0 DEF IsPass
    <2>2. RaiseAll(<<>>) = <<>>
      BY DEF RaiseAll
    <2> QED BY <2>1, <2>2
  <1>2. ASSUME NEW l \in 1..n, l - 1 \in Good PROVE l \in Good
    <2> DEFINE s == after[l - 1]
               s2 == after2[l - 1]
               t == after[l]
               t2 == after2[l]
               S == FreeOf(open, s)
               O == Turn(after, offer, open, l)
    <2>1. l \in 0..n /\ l - 1 \in 0..n
      BY <1>0
    <2>2. s \in Seq(V) /\ s2 \in Seq(V2) /\ (\A k \in DOMAIN s : \E j \in 1..(l - 1) : s[k] \in Turn(after, offer, open, j))
      BY <2>1, PassKnows DEF Knows
    <2>3. s2 = RaiseAll(s)
      BY <1>2
    <2>4. DOMAIN s2 = DOMAIN s /\ \A k \in DOMAIN s : s2[k] = Raise(s[k]) /\ s2[k].invoice = s[k].invoice
      <3> SUFFICES ASSUME NEW k \in DOMAIN s PROVE Raise(s[k]).invoice = s[k].invoice
        BY <2>3 DEF RaiseAll
      <3>1. PICK j \in 1..(l - 1) : s[k] \in Turn(after, offer, open, j)
        BY <2>2
      <3>2. j \in 1..n
        BY <1>0
      <3> QED BY <3>1, <3>2 DEF Raises
    <2>5. FreeOf(open, s2) = S
      BY <2>4 DEF FreeOf
    <2>6. O = offer[<<l, S>>] /\ offer2[<<l, S>>] = {Raise(p) : p \in O}
      BY DEF Turn, Raises
    <2>7. t = AfterTurn(offer, open, s, l) /\ t2 = AfterTurn(offer2, open, s2, l)
      BY DEF IsPass
    <2> HIDE DEF s, s2, t, t2, O, V, V2
    <2>8. Adds1(s, t, O, txns[l], S, V)
      BY <2>2, <2>6, <2>7, NextIs DEF V
    <2>9. Adds1(s2, t2, offer2[<<l, S>>], txns[l], S, V2)
      BY <2>2, <2>5, <2>7, NextIs DEF V2
    <2> HIDE DEF S
    <2>10. CASE O = {}
      <3>1. offer2[<<l, S>>] = {}
        BY <2>6, <2>10
      <3>2. t = s /\ t2 = s2
        BY <2>8, <2>9, <2>10, <3>1 DEF Adds1
      <3> QED BY <2>1, <2>3, <3>2 DEF t, t2
    <2>11. CASE O # {}
      <3>1. PICK p \in V : O = {p} /\ t = Append(s, p)
        BY <2>8, <2>11 DEF Adds1
      <3>2. offer2[<<l, S>>] = {Raise(p)}
        BY <2>6, <3>1
      <3>3. t2 = Append(s2, Raise(p))
        <4>1. PICK q \in V2 : offer2[<<l, S>>] = {q} /\ t2 = Append(s2, q)
          BY <2>9, <3>2 DEF Adds1
        <4>2. q = Raise(p)
          BY <3>2, <4>1
        <4> QED BY <4>1, <4>2
      <3>4. t2 = RaiseAll(t)
        BY <2>2, <2>3, <3>1, <3>3, RaisedAppend
      <3> QED BY <2>1, <3>4 DEF t, t2
    <2> QED BY <2>10, <2>11
  <1> HIDE DEF Good
  <1>3. m \in Good
    BY <1>0, <1>1, <1>2, UpTo
  <1> QED BY <1>3 DEF Good

LEMMA RaisedProposal ==
  ASSUME NEW t, NEW i, NEW tds, NEW kind, NEW trust
  PROVE  /\ Raise(M!Proposal(t, i, tds, kind, trust)) = M!Proposal(t, i, tds, kind, M!TDS_REMEMBERED_CONFIDENCE)
         /\ Raise(M!Proposal(t, i, tds, kind, trust)).invoice = M!Proposal(t, i, tds, kind, trust).invoice
  BY DEF Raise, M!Proposal

LEMMA TdsOffer ==
  ASSUME NEW txns, NEW n, NEW open, NEW remembered, NEW m \in 1..n, NEW S \in SUBSET open
  PROVE  TdsOffers(txns, n, open, remembered)[<<m, S>>] = TdsOf(txns[m], S, remembered)
  BY DEF TdsOffers

\* The rates taught, the second pass raises what it found.
LEMMA TdsRaised ==
  ASSUME NEW txns, NEW n, NEW open, NEW remembered, RowsAre(txns, n, open, remembered), Known(open, remembered),
         NEW e, e = M!ProposeMatches(txns, open),
         NEW d, d = M!ProposeTdsMatches(LeftOf(txns, e), FreeOf(open, e), remembered),
         NEW d2, d2 = M!ProposeTdsMatches(LeftOf(txns, e), FreeOf(open, e), Taught(e \o d, remembered))
  PROVE  d2 = RaiseAll(d)
  <1> DEFINE left == LeftOf(txns, e)
             nl == Len(left)
             rest == FreeOf(open, e)
             r == e \o d
             rates == Taught(r, remembered)
             offer == TdsOffers(left, nl, rest, remembered)
             offer2 == TdsOffers(left, nl, rest, rates)
  <1>0. PaymentsAre(txns, n) /\ IsFiniteSet(open) /\ \A i, j \in open : i.id = j.id => i = j
    BY DEF RowsAre
  <1>1. LeftSays(left, nl, txns, n, e)
    BY <1>0, LeftIs
  <1>2. PaymentsAre(left, nl) /\ (\A l \in 1..nl : \E k \in 1..n : left[l] = txns[k])
    BY <1>1 DEF LeftSays
  <1>3. rest \subseteq open /\ IsFiniteSet(rest)
    BY <1>0, FreeIn, FS_Subset
  <1>4. \E fe, fd : NodeSays(r, e, d, fe, fd, txns, n, open, remembered)
    BY <1>0, NodeIs
  <1>5. PICK fe, fd : NodeSays(r, e, d, fe, fd, txns, n, open, remembered)
    BY <1>4
  <1>6. \A i \in open : \A t : M!FitsWithTds(t, i, rates) <=> M!FitsWithTds(t, i, remembered)
    BY <1>5, TaughtCounts
  <1>7. ASSUME NEW i \in open, NEW t, t.amount \in Int, NEW k \in DOMAIN d, ATds(d[k], t, i, remembered)
        PROVE  TdsTrust(t, i, rates) = M!TDS_REMEMBERED_CONFIDENCE
    BY <1>5, <1>7, TaughtCounts
  <1> HIDE DEF left, nl, rest, r, rates
  <1>8. PassGives(d, offer, nl, rest) /\ PassGives(d2, offer2, nl, rest)
        /\ Offering(offer, left, nl, rest) /\ Offering(offer2, left, nl, rest)
    <2>1. d = M!ProposeTdsMatches(left, rest, remembered) /\ d2 = M!ProposeTdsMatches(left, rest, rates)
      BY DEF left, rest, rates, r
    <2> QED BY <1>2, <1>3, <2>1, TdsPass, OffersAre
  <1>9. \A m \in 1..nl, S \in SUBSET rest :
          offer[<<m, S>>] = TdsOf(left[m], S, remembered) /\ offer2[<<m, S>>] = TdsOf(left[m], S, rates)
    <2> SUFFICES ASSUME NEW m \in 1..nl, NEW S \in SUBSET rest
                 PROVE  offer[<<m, S>>] = TdsOf(left[m], S, remembered) /\ offer2[<<m, S>>] = TdsOf(left[m], S, rates)
      OBVIOUS
    <2> QED BY <1>2, <1>3, TdsOffer
  <1> HIDE DEF offer, offer2
  <1>10. PICK after : IsPass(after, offer, nl, rest) /\ d = after[nl]
    BY <1>8 DEF PassGives
  <1>11. PICK after2 : IsPass(after2, offer2, nl, rest) /\ d2 = after2[nl]
    BY <1>8 DEF PassGives
  <1>12. nl \in 0..nl
    BY <1>8 DEF Offering
  <1>13. Knows(after, offer, left, nl, rest, nl)
    BY <1>8, <1>10, <1>12, PassKnows
  <1>14. Raises(offer2, offer, after, nl, rest)
    <2> SUFFICES ASSUME NEW m \in 1..nl
                 PROVE  /\ offer2[<<m, FreeOf(rest, after[m - 1])>>] = {Raise(p) : p \in Turn(after, offer, rest, m)}
                        /\ \A p \in Turn(after, offer, rest, m) : Raise(p).invoice = p.invoice
      BY DEF Raises
    <2> DEFINE S == FreeOf(rest, after[m - 1])
               t == left[m]
               O == Turn(after, offer, rest, m)
    <2>1. S \in SUBSET rest
      BY FreeIn
    <2>2. O = TdsOf(t, S, remembered) /\ offer2[<<m, S>>] = TdsOf(t, S, rates)
      BY <1>9, <2>1 DEF Turn
    <2>3. TdsFits(t, S, rates) = TdsFits(t, S, remembered)
      BY <1>3, <1>6, <2>1 DEF TdsFits
    <2>4. t.amount \in Int /\ IsFiniteSet(S) /\ Whole1(t, S) /\ \A x \in S : RatesAre(x, remembered)
      <3>1. IsFiniteSet(S)
        BY <1>3, <2>1, FS_Subset
      <3> QED BY <1>2, <1>3, <2>1, <3>1 DEF Whole1, RowsAre
    <2>5. \A p \in O : \E k \in DOMAIN d : d[k] = p
      BY <1>10, <1>13 DEF Knows
    <2> HIDE DEF S, t, O
    <2> DEFINE c == M!OnlyOf(TdsFits(t, S, remembered))
               P1(i) == M!Proposal(t, i, i.amount - t.amount, "tds_adjusted", TdsTrust(t, i, remembered))
               P2(i) == M!Proposal(t, i, i.amount - t.amount, "tds_adjusted", TdsTrust(t, i, rates))
    <2>6. O = {P1(i) : i \in c} /\ offer2[<<m, S>>] = {P2(i) : i \in c}
      BY <2>2, <2>3 DEF TdsOf
    <2>7. c \subseteq S
      <3>1. TdsFits(t, S, remembered) \subseteq S
        BY DEF TdsFits
      <3> QED BY <2>4, <3>1, FS_Subset, OnlyIs
    <2>8. ASSUME NEW i \in c PROVE P2(i) = Raise(P1(i)) /\ Raise(P1(i)).invoice = P1(i).invoice
      <3>1. P1(i) \in O
        BY <2>6
      <3>2. PICK k \in DOMAIN d : d[k] = P1(i)
        BY <2>5, <3>1
      <3>3. PICK j \in S : ATds(P1(i), t, j, remembered)
        BY <2>2, <2>4, <3>1, TdsSays
      <3>4. j = i /\ i \in open
        <4>1. P1(i).invoice = i.id
          BY ProposalIs
        <4>2. P1(i).invoice = j.id
          BY <3>3 DEF ATds, Settles
        <4>3. i \in open /\ j \in open
          BY <1>3, <2>1, <2>7
        <4> QED BY <1>0, <4>1, <4>2, <4>3
      <3>5. TdsTrust(t, i, rates) = M!TDS_REMEMBERED_CONFIDENCE
        BY <1>7, <2>4, <3>2, <3>3, <3>4
      <3> QED BY <3>5, RaisedProposal
    <2> HIDE DEF c, P1, P2
    <2>9. offer2[<<m, S>>] = {Raise(p) : p \in O}
      BY <2>6, <2>8
    <2>10. \A p \in O : Raise(p).invoice = p.invoice
      BY <2>6, <2>8
    <2> QED BY <2>9, <2>10 DEF S, O
  <1>15. after2[nl] = RaiseAll(after[nl])
    BY <1>8, <1>10, <1>11, <1>12, <1>14, RaisedPass
  <1> QED BY <1>10, <1>11, <1>15

-----------------------------------------------------------------------------
(* The match node.                                                          *)

MatchAnswered ==
  call = "match" =>
    input \in MatchInputs /\ result = M!MatchNode(input.unmatched, input.open, input.remembered)

LEMMA MatchesAnswer == CallSpec => []MatchAnswered
  <1>1. Uncalled => MatchAnswered
    BY DEF Uncalled, MatchAnswered
  <1>2. MatchAnswered /\ [OneCall]_callVars => MatchAnswered'
    BY Zenon DEF MatchAnswered, OneCall, callVars, Match, Accrue, Forecast, Rank, Scan, Pack, Mine, Grade, Report,
              ReadStatement, ReadExport, Chase, AfterCall, Return
  <1> QED BY <1>1, <1>2, PTL DEF CallSpec

\* What a call of the match node is given and gives.
NodeCalled(txns, n, open, remembered) ==
  /\ RowsAre(txns, n, open, remembered) /\ Known(open, remembered) /\ txns \in Seq({txns[k] : k \in DOMAIN txns})
  /\ \A i \in open : i = [id |-> i.id, day |-> i.day, amount |-> i.amount, party |-> i.party, tokens |-> i.tokens]
LEMMA CallIsGiven ==
  ASSUME MatchesAreGiven, MatchAnswered, call = "match"
  PROVE  /\ NodeCalled(input.unmatched, Len(input.unmatched), input.open, input.remembered)
         /\ result = M!MatchNode(input.unmatched, input.open, input.remembered)
  <1> DEFINE txns == input.unmatched
             n == Len(txns)
             open == input.open
             old == input.remembered
             V == {txns[k] : k \in DOMAIN txns}
  <1>1. input \in MatchInputs /\ result = M!MatchNode(txns, open, old)
    BY DEF MatchAnswered
  <1>0. PaymentsAreGiven(txns) /\ InvoicesAreGiven(open, DOMAIN old) /\ RatesAreGiven(old)
    BY <1>1 DEF MatchesAreGiven
  <1>2. /\ txns \in Seq(V)
        /\ \A k \in DOMAIN txns : txns[k].amount \in Int
        /\ \A j, k \in DOMAIN txns : txns[j].id = txns[k].id => j = k
        /\ IsFiniteSet(open) /\ \A i, j \in open : i.id = j.id => i = j
    BY <1>0 DEF PaymentsAreGiven, InvoicesAreGiven
  <1>3. \A i \in open :
          /\ i = [id |-> i.id, day |-> i.day, amount |-> i.amount, party |-> i.party, tokens |-> i.tokens]
          /\ i.amount \in Int /\ i.party \in DOMAIN old
    BY <1>0 DEF InvoicesAreGiven
  <1>4. \A c \in DOMAIN old : old[c] \in Seq(1..3000)
    BY <1>0 DEF RatesAreGiven
  <1> HIDE DEF open, old
  <1>5. Known(open, old) /\ \A i \in open : RatesAre(i, old)
    BY <1>3, <1>4 DEF Known, RatesAre
  <1>6. n \in Nat /\ DOMAIN txns = 1..n
    <2> HIDE DEF txns, V
    <2> QED BY <1>2
  <1> HIDE DEF txns, n
  <1>7. PaymentsAre(txns, n)
    BY <1>2, <1>6 DEF PaymentsAre, n
  <1>8. RowsAre(txns, n, open, old)
    BY <1>2, <1>3, <1>5, <1>6, <1>7 DEF RowsAre
  <1>9. NodeCalled(txns, n, open, old)
    BY <1>2, <1>3, <1>5, <1>8 DEF NodeCalled
  <1> QED BY <1>1, <1>9 DEF txns, n, open, old

Critical(r, txns, n, open) ==
  \A k \in DOMAIN r :
    /\ M!Passes(r, open, k)
    /\ \E l \in 1..n, i \in open : txns[l].id = r[k].txn /\ i.id = r[k].invoice /\ txns[l].cr /\ txns[l].day >= i.day
LEMMA NodeIsSound ==
  ASSUME NEW txns, NEW n, NEW open, NEW remembered, RowsAre(txns, n, open, remembered),
         NEW r, r = M!MatchNode(txns, open, remembered)
  PROVE  Critical(r, txns, n, open)
  <1> DEFINE e == M!ProposeMatches(txns, open)
             d == M!ProposeTdsMatches(LeftOf(txns, e), FreeOf(open, e), remembered)
  <1>1. r = e \o d /\ \E fe, fd : NodeSays(e \o d, e, d, fe, fd, txns, n, open, remembered)
    BY NodeIs DEF RowsAre
  <1> HIDE DEF e, d
  <1>2. PICK fe, fd : NodeSays(r, e, d, fe, fd, txns, n, open, remembered)
    BY <1>1
  <1>3. \A j, k \in DOMAIN r : j # k => r[j].txn # r[k].txn /\ r[j].invoice # r[k].invoice
    BY <1>2, NoneTwice
  <1>4. \A k \in DOMAIN r : \E l \in 1..n : \E i \in open : Settles(r[k], txns[l], i)
    BY <1>2, EachSettles
  <1>5. \A k \in DOMAIN r : \A j \in 1..(k - 1) : j \in DOMAIN r /\ j # k
    <2>1. r \in Seq(Every(ExactOffers(txns, n, open), n, open) \cup
                    Every(TdsOffers(LeftOf(txns, e), Len(LeftOf(txns, e)), FreeOf(open, e), remembered),
                          Len(LeftOf(txns, e)), FreeOf(open, e)))
      BY <1>2, HalvesAre DEF NodeSays, PassSays
    <2>2. Len(r) \in Nat /\ DOMAIN r = 1..Len(r)
      BY <2>1
    <2> QED BY <2>2
  <1> SUFFICES ASSUME NEW k \in DOMAIN r
               PROVE  /\ M!Passes(r, open, k)
                      /\ \E l \in 1..n, i \in open :
                           txns[l].id = r[k].txn /\ i.id = r[k].invoice /\ txns[l].cr /\ txns[l].day >= i.day
    BY DEF Critical
  <1>6. PICK l \in 1..n : \E i \in open : Settles(r[k], txns[l], i)
    BY <1>4
  <1>7. PICK i \in open : Settles(r[k], txns[l], i)
    BY <1>6
  <1>8. \A j \in 1..(k - 1) : r[j].txn # r[k].txn /\ r[j].invoice # r[k].invoice
    BY <1>3, <1>5
  <1>9. \E x \in open : x.id = r[k].invoice /\ x.amount = r[k].amount + r[k].tds
    BY <1>7 DEF Settles
  <1>10. r[k].kind = "tds_adjusted" => r[k].tds > 0
    BY <1>7 DEF Settles
  <1>11. M!Passes(r, open, k)
    BY <1>8, <1>9, <1>10 DEF M!Passes
  <1> QED BY <1>7, <1>11 DEF Settles

LEMMA InSet ==
  ASSUME NEW p, NEW s
  PROVE  (p \in ToSet(s) <=> In1(p, s)) /\ (p \in M!ToSet(s) <=> In1(p, s))
  BY DEF ToSet, M!ToSet, In1

LEMMA SoundMatches ==
  ASSUME MatchesAreGiven, MatchAnswered
  PROVE  MatchesAreSound
  <1> SUFFICES ASSUME call = "match" PROVE MatchesAreSound
    BY DEF MatchesAreSound, Called
  <1> DEFINE txns == input.unmatched
             n == Len(txns)
  <1>1. NodeCalled(txns, n, input.open, input.remembered) /\ result = M!MatchNode(txns, input.open, input.remembered)
    BY CallIsGiven
  <1> HIDE DEF n
  <1>2. Critical(result, txns, n, input.open)
    BY <1>1, NodeIsSound DEF NodeCalled
  <1>3. \A l \in 1..n : txns[l] \in ToSet(txns)
    BY <1>1 DEF NodeCalled, RowsAre, PaymentsAre, ToSet
  <1> QED BY <1>2, <1>3 DEF Critical, MatchesAreSound

LEMMA AloneIsCalled ==
  ASSUME NEW txns, NEW n, NEW open, NEW remembered, RowsAre(txns, n, open, remembered), NEW m \in 1..n
  PROVE  RowsAre(<<txns[m]>>, 1, open, remembered)
  <1> DEFINE t == txns[m]
             s == <<t>>
  <1>1. t.amount \in Int
    BY DEF RowsAre
  <1> HIDE DEF t
  <1>2. Len(s) = 1 /\ DOMAIN s = 1..1 /\ 1..1 = {1} /\ s[1] = t
    OBVIOUS
  <1> HIDE DEF s
  <1>3. PaymentsAre(s, 1)
    BY <1>2 DEF PaymentsAre
  <1>4. \A k \in 1..1 : s[k].amount \in Int
    BY <1>1, <1>2
  <1>5. RowsAre(s, 1, open, remembered)
    BY <1>3, <1>4 DEF RowsAre
  <1> QED BY <1>5 DEF s, t

LEMMA AloneMatches ==
  ASSUME MatchesAreGiven, MatchAnswered
  PROVE  DecidedAsIfAlone
  <1> SUFFICES ASSUME call = "match", NEW t \in ToSet(input.unmatched), ~Contested(t)
               PROVE  {p \in ToSet(result) : p.txn = t.id} = ToSet(M!MatchNode(<<t>>, input.open, input.remembered))
    BY DEF DecidedAsIfAlone, Called
  <1> DEFINE txns == input.unmatched
             n == Len(txns)
             open == input.open
             old == input.remembered
  <1>1. NodeCalled(txns, n, open, old) /\ result = M!MatchNode(txns, open, old)
    BY CallIsGiven
  <1>2. PICK m \in DOMAIN txns : t = txns[m]
    BY DEF ToSet
  <1> HIDE DEF n
  <1>3. m \in 1..n /\ \A l \in 1..n : txns[l] \in ToSet(txns) /\ (txns[l].id = txns[m].id => l = m)
    BY <1>1 DEF NodeCalled, RowsAre, PaymentsAre, ToSet
  <1>4. Unrivalled(m, txns, n, open, old)
    <2> SUFFICES ASSUME NEW l \in 1..n, NEW i \in open, l # m, Fits1(txns[m], i, old), Fits1(txns[l], i, old)
                 PROVE  FALSE
      BY DEF Unrivalled
    <2>1. txns[l] \in ToSet(txns) /\ txns[l].id # t.id
      BY <1>2, <1>3
    <2>2. Suits(t, i) /\ Suits(txns[l], i)
      BY <1>2 DEF Suits, Fits1
    <2> QED BY <2>1, <2>2 DEF Contested
  <1>5. RowsAre(txns, n, open, old)
    BY <1>1 DEF NodeCalled
  <1>6. RowsAre(<<t>>, 1, open, old)
    BY <1>2, <1>3, <1>5, AloneIsCalled
  <1> HIDE DEF open, old, txns
  <1>7. \A p : In1(p, result) /\ p.txn = t.id <=> p \in Deserves(t, open, old)
    BY <1>1, <1>2, <1>3, <1>4, <1>5, Deserved
  <1>8. \A p : In1(p, M!MatchNode(<<t>>, open, old)) <=> p \in Deserves(t, open, old)
    BY <1>6, DeservedAlone
  <1>9. \A p : p \in {q \in ToSet(result) : q.txn = t.id} <=> p \in ToSet(M!MatchNode(<<t>>, open, old))
    BY <1>7, <1>8, InSet
  <1> QED BY <1>9 DEF open, old

LEMMA TwinsLeft ==
  ASSUME MatchesAreGiven, MatchAnswered
  PROVE  AmbiguousIsLeft
  <1> SUFFICES ASSUME call = "match", NEW p \in ToSet(result), NEW i \in input.open, NEW j \in input.open,
                      p.invoice = i.id, i.id # j.id, [j EXCEPT !.id = i.id] = i
               PROVE  FALSE
    BY DEF AmbiguousIsLeft, Called
  <1> DEFINE txns == input.unmatched
             n == Len(txns)
             open == input.open
             old == input.remembered
             e == M!ProposeMatches(txns, open)
             d == M!ProposeTdsMatches(LeftOf(txns, e), FreeOf(open, e), old)
  <1>1. NodeCalled(txns, n, open, old) /\ result = M!MatchNode(txns, open, old)
    BY CallIsGiven
  <1>2. Twin(i, j)
    <2>1. j = [id |-> j.id, day |-> j.day, amount |-> j.amount, party |-> j.party, tokens |-> j.tokens]
      BY <1>1 DEF NodeCalled
    <2>2. [j EXCEPT !.id = i.id] = [id |-> i.id, day |-> j.day, amount |-> j.amount, party |-> j.party, tokens |-> j.tokens]
      BY <2>1
    <2> QED BY <2>2 DEF Twin
  <1>3. i \in Twins(open)
    BY <1>2 DEF Twins
  <1> HIDE DEF open, old, txns, n
  <1>4. RowsAre(txns, n, open, old)
    BY <1>1 DEF NodeCalled
  <1>5. (\A k \in DOMAIN e : e[k].invoice # i.id) /\ (\A k \in DOMAIN d : d[k].invoice # i.id)
    BY <1>3, <1>4, NoTwinProposed
  <1>6. result = e \o d /\ \E fe, fd : NodeSays(e \o d, e, d, fe, fd, txns, n, open, old)
    BY <1>1, <1>4, NodeIs DEF RowsAre
  <1> HIDE DEF e, d
  <1>7. Halves(result, e, d)
    BY <1>6, NodeHalves
  <1>8. PICK k \in DOMAIN result : p = result[k]
    BY DEF ToSet
  <1> QED BY <1>5, <1>7, <1>8 DEF Halves

LEMMA LearnedCounts ==
  ASSUME MatchesAreGiven, MatchAnswered
  PROVE  LearnedRatesCount
  <1> SUFFICES ASSUME call = "match" PROVE LearnedRatesCount
    BY DEF LearnedRatesCount, Called
  <1> DEFINE txns == input.unmatched
             n == Len(txns)
             open == input.open
             old == input.remembered
             rates == Taught(result, old)
             again == M!MatchNode(txns, open, rates)
             trusted == [k \in DOMAIN result |->
                           IF result[k].kind = "full" THEN result[k]
                           ELSE [result[k] EXCEPT !.confidence = M!TDS_REMEMBERED_CONFIDENCE]]
             e == M!ProposeMatches(txns, open)
             left == LeftOf(txns, e)
             rest == FreeOf(open, e)
             d == M!ProposeTdsMatches(left, rest, old)
             d2 == M!ProposeTdsMatches(left, rest, rates)
  <1>1. NodeCalled(txns, n, open, old) /\ result = M!MatchNode(txns, open, old)
    BY CallIsGiven
  <1>2. LearnedRatesCount <=> again = trusted
    BY DEF LearnedRatesCount, Called, Taught, Learned, LearnedOf
  <1> HIDE DEF open, old, txns, n
  <1>3. RowsAre(txns, n, open, old) /\ Known(open, old)
    BY <1>1 DEF NodeCalled
  <1>4. result = e \o d /\ \E fe, fd : NodeSays(e \o d, e, d, fe, fd, txns, n, open, old)
    BY <1>1, <1>3, NodeIs DEF RowsAre
  <1>5. again = e \o d2 /\ \E fe, fd : NodeSays(e \o d2, e, d2, fe, fd, txns, n, open, rates)
    BY <1>3, NodeIs DEF RowsAre
  <1>6. d2 = RaiseAll(d)
    BY <1>3, <1>4, TdsRaised
  <1> HIDE DEF e, left, rest, d, d2, rates, again
  <1>7. Halves(result, e, d)
    BY <1>4, NodeHalves
  <1>8. Halves(again, e, d2)
    BY <1>5, NodeHalves
  <1>9. (\A k \in DOMAIN e : e[k].kind = "full") /\ (\A m \in DOMAIN d : d[m].kind = "tds_adjusted")
    <2>1. PICK fe, fd : NodeSays(result, e, d, fe, fd, txns, n, open, old)
      BY <1>4
    <2>2. /\ \A k \in DOMAIN e : \E l \in 1..n : \E i \in open : AnExact(e[k], txns[l], i)
          /\ \A k \in DOMAIN d : \E l \in 1..n : \E i \in FreeOf(open, e) :
               ATds(d[k], txns[l], i, old) /\ ~Served(txns[l], e)
      BY <1>3, <2>1, NodeProposals
    <2> QED BY <2>2 DEF AnExact, ATds
  <1>10. DOMAIN d2 = DOMAIN d /\ \A m \in DOMAIN d : d2[m] = Raise(d[m])
    BY <1>6 DEF RaiseAll
  <1>11. DOMAIN again = DOMAIN result
    BY <1>7, <1>8, <1>10 DEF Halves
  <1>12. ASSUME NEW k \in DOMAIN result PROVE again[k] = trusted[k]
    <2>1. CASE k \in DOMAIN e /\ result[k] = e[k]
      BY <1>8, <1>9, <2>1 DEF Halves
    <2>2. CASE \E m \in DOMAIN d : k = Len(e) + m /\ result[k] = d[m]
      <3>1. PICK m \in DOMAIN d : k = Len(e) + m /\ result[k] = d[m]
        BY <2>2
      <3>2. again[k] = d2[m]
        BY <1>8, <1>10, <3>1 DEF Halves
      <3>3. result[k].kind # "full"
        BY <1>9, <3>1
      <3>4. trusted[k] = Raise(result[k])
        BY <3>3 DEF Raise
      <3> QED BY <1>10, <3>1, <3>2, <3>4
    <2> QED BY <1>7, <2>1, <2>2 DEF Halves
  <1>13. again = [k \in DOMAIN again |-> again[k]]
    <2> DEFINE V == Every(ExactOffers(txns, n, open), n, open)
               V2 == Every(TdsOffers(LeftOf(txns, e), Len(LeftOf(txns, e)), FreeOf(open, e), rates),
                           Len(LeftOf(txns, e)), FreeOf(open, e))
    <2>1. e \in Seq(V) /\ d2 \in Seq(V2)
      BY <1>5 DEF NodeSays, PassSays
    <2> HIDE DEF V, V2
    <2>2. again \in Seq(V \cup V2)
      BY <1>5, <2>1, HalvesAre
    <2> QED BY <2>2
  <1>14. trusted = [k \in DOMAIN result |-> trusted[k]]
    OBVIOUS
  <1> HIDE DEF trusted
  <1>15. again = trusted
    BY <1>11, <1>12, <1>13, <1>14
  <1> QED BY <1>2, <1>15

\* What the match node proposes always stands before the critic (open, to the
\* paisa, no payment and no invoice twice), is for a payment without rivals what
\* it deserves alone, never picks one of two invoices that are alike, and is
\* found again with the rates learned from it, the TDS ones with the higher
\* confidence of a remembered rate.
THEOREM MatchingStaysSound ==
  ASSUME MatchesAreGiven
  PROVE  CallSpec => []MatchingSound
  <1>1. MatchAnswered => MatchingSound
    BY SoundMatches, AloneMatches, TwinsLeft, LearnedCounts DEF MatchingSound
  <1> QED BY <1>1, MatchesAnswer, PTL
=============================================================================
