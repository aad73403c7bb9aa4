------------------------------ MODULE FiniteSums ------------------------------
(***************************************************************************)
(* Facts about finite sets of numbers, sums over finite sets and functions *)
(* defined by recursion that the proofs of other modules rest on.  The     *)
(* induction they need is that every set of natural numbers has a least    *)
(* element.                                                                *)
(***************************************************************************)
EXTENDS Integers, Sequences, FiniteSets, FiniteSetsExt, FiniteSetTheorems, WellFoundedInduction, TLAPS

(* Some number in a set of natural numbers is the least.                   *)
LEMMA LeastNatural ==
    ASSUME NEW N \in SUBSET Nat, N # {}
    PROVE  \E n \in N : \A m \in N : n <= m
<1> DEFINE Less == {ss \in Nat \X Nat : ss[1] < ss[2]}
<1>1. IsWellFoundedOn(Less, Nat)
    BY NatLessThanWellFounded DEF OpToRel
<1>2. PICK n \in N : \A m \in N : <<m, n>> \notin Less
    <2> HIDE DEF Less
    <2> QED BY <1>1, WFMin
<1>3. \A m \in N : n <= m
    <2> TAKE m \in N
    <2>1. n \in Nat /\ m \in Nat
        OBVIOUS
    <2>2. <<m, n>> \in Nat \X Nat /\ <<m, n>>[1] = m /\ <<m, n>>[2] = n
        BY <2>1
    <2> QED BY <1>2, <2>1, <2>2
<1> QED BY <1>3

(* A set with 0 and with the number after each of its own has all numbers. *)
LEMMA NaturalsByStep ==
    ASSUME NEW N \in SUBSET Nat, 0 \in N, \A n \in N : n + 1 \in N
    PROVE  N = Nat
<1>1. SUFFICES ASSUME Nat \ N # {} PROVE FALSE
    OBVIOUS
<1>2. PICK n \in Nat \ N : \A m \in Nat \ N : n <= m
    BY <1>1, LeastNatural
<1>3. n # 0 /\ n - 1 \in Nat /\ n - 1 \in N
    BY <1>2
<1>4. (n - 1) + 1 \in N /\ (n - 1) + 1 = n
    BY <1>3
<1> QED BY <1>2, <1>4


(* A finite set of integers that is not empty has a least element: if not  *)
(* all of them had one, neither would a set without it and one element.    *)
LEMMA LeastOfFinite ==
    ASSUME NEW S, IsFiniteSet(S), S # {}, S \subseteq Int
    PROVE  \E x \in S : \A y \in S : x <= y
<1> DEFINE HasLeast(T) == \E x \in T : \A y \in T : x <= y
           Sizes == {n \in Nat : \A T \in SUBSET S : T # {} /\ Cardinality(T) <= n => HasLeast(T)}
<1>1. 0 \in Sizes
    <2> SUFFICES ASSUME NEW T \in SUBSET S, T # {}, Cardinality(T) <= 0 PROVE FALSE
        OBVIOUS
    <2>1. IsFiniteSet(T)
        BY FS_Subset
    <2>2. Cardinality(T) \in Nat /\ Cardinality(T) # 0
        BY <2>1, FS_EmptySet, FS_CardinalityType
    <2> QED BY <2>2
<1>2. ASSUME NEW n \in Sizes PROVE n + 1 \in Sizes
    <2> SUFFICES ASSUME NEW T \in SUBSET S, T # {}, Cardinality(T) <= n + 1 PROVE HasLeast(T)
        OBVIOUS
    <2>1. PICK x \in T : TRUE
        OBVIOUS
    <2>2. IsFiniteSet(T) /\ Cardinality(T) \in Nat
        BY FS_Subset, FS_CardinalityType
    <2>3. Cardinality(T \ {x}) = Cardinality(T) - 1
        BY <2>2, FS_RemoveElement
    <2>4. CASE T \ {x} = {}
        <3>1. x \in Int /\ \A y \in T : y = x
            BY <2>4
        <3> QED BY <3>1
    <2>5. CASE T \ {x} # {}
        <3>1. HasLeast(T \ {x})
            <4>1. T \ {x} \in SUBSET S /\ Cardinality(T \ {x}) <= n
                BY <2>2, <2>3
            <4> QED BY <4>1, <2>5
        <3>2. PICK m \in T \ {x} : \A y \in T \ {x} : m <= y
            BY <3>1
        <3>3. m \in Int /\ x \in Int /\ T \subseteq Int
            OBVIOUS
        <3>4. CASE m <= x
            BY <3>2, <3>3, <3>4
        <3>5. CASE x < m
            <4>1. \A y \in T : x <= y
                BY <3>2, <3>3, <3>5
            <4> QED BY <4>1
        <3> QED BY <3>3, <3>4, <3>5
    <2> QED BY <2>4, <2>5
<1>3. Sizes = Nat
    <2>1. Sizes \in SUBSET Nat
        OBVIOUS
    <2> HIDE DEF Sizes
    <2> QED BY <1>1, <1>2, <2>1, NaturalsByStep
<1>4. Cardinality(S) \in Sizes
    BY <1>3, FS_CardinalityType
<1> QED BY <1>4

(* The values of a function on a finite set are finitely many.             *)
LEMMA ImageOfFinite ==
    ASSUME NEW S, IsFiniteSet(S), NEW f
    PROVE  IsFiniteSet({f[x] : x \in S})
<1> DEFINE T == {f[x] : x \in S}
           g == [x \in S |-> f[x]]
<1>1. g \in Surjection(S, T)
    BY DEF Surjection
<1> QED BY <1>1, FS_Surjection

(* So has it a greatest one.                                               *)
LEMMA GreatestOfFinite ==
    ASSUME NEW S, IsFiniteSet(S), S # {}, S \subseteq Int
    PROVE  \E x \in S : \A y \in S : x >= y
<1> DEFINE f == [x \in S |-> -x]
           T == {f[x] : x \in S}
<1>1. IsFiniteSet(T)
    BY ImageOfFinite
<1>2. T # {} /\ T \subseteq Int
    <2>1. \A x \in S : f[x] \in Int /\ f[x] \in T
        OBVIOUS
    <2> QED BY <2>1
<1> HIDE DEF T
<1>3. PICK m \in T : \A n \in T : m <= n
    BY <1>1, <1>2, LeastOfFinite
<1>4. PICK x \in S : m = -x
    BY DEF T
<1>5. \A y \in S : -y \in T
    BY DEF T
<1>6. \A y \in S : x >= y
    BY <1>3, <1>4, <1>5
<1> QED BY <1>6

(* Min and Max are those elements.                                         *)
LEMMA MinIsLeast ==
    ASSUME NEW S, IsFiniteSet(S), S # {}, S \subseteq Int
    PROVE  Min(S) \in S /\ \A y \in S : Min(S) <= y
BY LeastOfFinite DEF Min

\* A finite set of numbers has a greatest one.
LEMMA MaxIsGreatest ==
    ASSUME NEW S, IsFiniteSet(S), S # {}, S \subseteq Int
    PROVE  Max(S) \in S /\ \A y \in S : Max(S) >= y
BY GreatestOfFinite DEF Max

-----------------------------------------------------------------------------
(***************************************************************************)
(* MapThenSumSet takes the elements of a set one by one in an order of its *)
(* own.  It is well defined, and the order does not matter.                *)
(***************************************************************************)
AnyOf(s) == CHOOSE x \in s : TRUE

\* The function of the subsets of S that the definition of MapThenSumSet chooses.
Sums(g, f, S) ==
    g = [s \in SUBSET S |-> IF s = {} THEN 0 ELSE f[AnyOf(s)] + g[s \ {AnyOf(s)}]]

SumOver(f, S) == MapThenSumSet(LAMBDA x : f[x], S)

(* There is such a function: one that is right for sets of n elements is   *)
(* made right for those of n + 1.                                          *)
LEMMA SumsExist ==
    ASSUME NEW S, IsFiniteSet(S), NEW f
    PROVE  \E g : Sums(g, f, S)
<1> DEFINE Value(g, s) == IF s = {} THEN 0 ELSE f[AnyOf(s)] + g[s \ {AnyOf(s)}]
           RightTo(g, n) == \A s \in SUBSET S : Cardinality(s) <= n => g[s] = Value(g, s)
           Sizes == {n \in Nat : \E g : g = [s \in SUBSET S |-> g[s]] /\ RightTo(g, n)}
<1>0. \A s \in SUBSET S : IsFiniteSet(s) /\ Cardinality(s) \in Nat
    BY FS_Subset, FS_CardinalityType
<1>1. 0 \in Sizes
    <2> DEFINE g == [s \in SUBSET S |-> 0]
    <2>1. ASSUME NEW s \in SUBSET S, Cardinality(s) <= 0 PROVE s = {}
        BY <1>0, <2>1, FS_EmptySet
    <2>2. RightTo(g, 0)
        BY <2>1
    <2>3. g = [s \in SUBSET S |-> g[s]]
        OBVIOUS
    <2> QED BY <2>2, <2>3
<1>2. ASSUME NEW n \in Sizes PROVE n + 1 \in Sizes
    <2>1. PICK g : g = [s \in SUBSET S |-> g[s]] /\ RightTo(g, n)
        OBVIOUS
    <2> DEFINE h == [s \in SUBSET S |-> IF Cardinality(s) <= n THEN g[s] ELSE Value(g, s)]
    <2>2. ASSUME NEW s \in SUBSET S, Cardinality(s) <= n + 1 PROVE h[s] = Value(h, s)
        <3>1. CASE s = {}
            BY <3>1, <2>1, FS_EmptySet
        <3>2. CASE s # {}
            <4>1. AnyOf(s) \in s
                BY <3>2 DEF AnyOf
            <4>2. Cardinality(s \ {AnyOf(s)}) = Cardinality(s) - 1 /\ s \ {AnyOf(s)} \in SUBSET S
                BY <1>0, <4>1, FS_RemoveElement
            <4>3. Cardinality(s \ {AnyOf(s)}) <= n
                BY <4>2, <2>2, <1>0
            <4>4. h[s \ {AnyOf(s)}] = g[s \ {AnyOf(s)}]
                BY <4>2, <4>3
            <4>5. h[s] = Value(g, s)
                BY <2>1
            <4> QED BY <4>4, <4>5, <3>2
        <3> QED BY <3>1, <3>2
    <2>3. h = [s \in SUBSET S |-> h[s]] /\ RightTo(h, n + 1)
        BY <2>2
    <2>4. n + 1 \in Nat
        OBVIOUS
    <2> HIDE DEF h, RightTo
    <2> QED BY <2>3, <2>4
<1>3. Sizes = Nat
    <2>1. Sizes \in SUBSET Nat
        OBVIOUS
    <2> HIDE DEF Sizes
    <2> QED BY <1>1, <1>2, <2>1, NaturalsByStep
<1>4. Cardinality(S) \in Sizes
    BY <1>0, <1>3
<1>5. PICK g : g = [s \in SUBSET S |-> g[s]] /\ RightTo(g, Cardinality(S))
    BY <1>4
<1>6. \A s \in SUBSET S : g[s] = Value(g, s)
    <2> TAKE s \in SUBSET S
    <2>1. Cardinality(s) <= Cardinality(S)
        BY FS_Subset
    <2> QED BY <2>1, <1>5
<1> QED BY <1>5, <1>6 DEF Sums

(* MapThenSumSet is that function.                                         *)
LEMMA SumIsOfSums ==
    ASSUME NEW S, IsFiniteSet(S), NEW f
    PROVE  \E g : Sums(g, f, S) /\ SumOver(f, S) = g[S]
<1>1. \E g : Sums(g, f, S)
    BY SumsExist
<1>2. Sums(CHOOSE g : Sums(g, f, S), f, S)
    BY <1>1
<1>3. SumOver(f, S) = (CHOOSE g : Sums(g, f, S))[S]
    BY DEF SumOver, MapThenSumSet, MapThenFoldSet, Sums, AnyOf
<1> QED BY <1>2, <1>3


(* Any element can be taken first, and the sum is an integer.              *)
LEMMA SumsOfAny ==
    ASSUME NEW S, IsFiniteSet(S), NEW f, \A x \in S : f[x] \in Int, NEW g, Sums(g, f, S)
    PROVE  \A s \in SUBSET S : g[s] \in Int /\ \A x \in s : g[s] = f[x] + g[s \ {x}]
<1> DEFINE Right(s) == g[s] \in Int /\ \A x \in s : g[s] = f[x] + g[s \ {x}]
           Sizes == {n \in Nat : \A s \in SUBSET S : Cardinality(s) <= n => Right(s)}
<1>0. \A s \in SUBSET S : IsFiniteSet(s) /\ Cardinality(s) \in Nat
    BY FS_Subset, FS_CardinalityType
<1>1. \A s \in SUBSET S : s # {} => AnyOf(s) \in s /\ g[s] = f[AnyOf(s)] + g[s \ {AnyOf(s)}]
    BY DEF Sums, AnyOf
<1>2. Right({})
    BY DEF Sums
<1>3. 0 \in Sizes
    <2>1. ASSUME NEW s \in SUBSET S, Cardinality(s) <= 0 PROVE s = {}
        BY <1>0, <2>1, FS_EmptySet
    <2> HIDE DEF Right
    <2> QED BY <2>1, <1>2
<1>4. ASSUME NEW n \in Sizes PROVE n + 1 \in Sizes
    <2> SUFFICES ASSUME NEW s \in SUBSET S, Cardinality(s) <= n + 1, s # {} PROVE Right(s)
        <3> HIDE DEF Right
        <3> QED BY <1>2
    <2> DEFINE p == AnyOf(s)
    <2>1. p \in s /\ g[s] = f[p] + g[s \ {p}]
        BY <1>1
    <2>2. ASSUME NEW x \in s
          PROVE  s \ {x} \in SUBSET S /\ Right(s \ {x})
        <3>1. Cardinality(s \ {x}) = Cardinality(s) - 1
            BY <1>0, FS_RemoveElement
        <3>2. s \ {x} \in SUBSET S /\ Cardinality(s \ {x}) <= n
            BY <3>1, <1>0
        <3> QED BY <3>2
    <2> HIDE DEF p
    <2>3. g[s] \in Int
        <3>1. f[p] \in Int /\ g[s \ {p}] \in Int
            BY <2>1, <2>2
        <3> QED BY <3>1, <2>1
    <2>4. ASSUME NEW x \in s, x # p PROVE g[s] = f[x] + g[s \ {x}]
        <3>1. g[s \ {p}] = f[x] + g[(s \ {p}) \ {x}]
            BY <2>1, <2>2, <2>4
        <3>2. g[s \ {x}] = f[p] + g[(s \ {x}) \ {p}]
            BY <2>1, <2>2, <2>4
        <3>3. (s \ {p}) \ {x} = (s \ {x}) \ {p}
            OBVIOUS
        <3> DEFINE q == (s \ {p}) \ {x}
        <3>4. f[x] \in Int /\ f[p] \in Int /\ g[q] \in Int
            <4>1. Right(s \ {p}) /\ x \in s \ {p} /\ Cardinality(q) = Cardinality(s \ {p}) - 1
                BY <2>1, <2>2, <2>4, <1>0, FS_RemoveElement
            <4>2. Cardinality(s \ {p}) = Cardinality(s) - 1 /\ Cardinality(s) \in Nat
                  /\ Cardinality(s \ {p}) \in Nat
                BY <2>1, <2>2, <1>0, FS_RemoveElement
            <4>3. q \in SUBSET S /\ Cardinality(q) <= n
                BY <4>1, <4>2, <2>1
            <4> QED BY <4>3, <2>1
        <3> HIDE DEF q
        <3>5. g[s \ {p}] = f[x] + g[q] /\ g[s \ {x}] = f[p] + g[q]
            BY <3>1, <3>2, <3>3 DEF q
        <3> QED BY <3>4, <3>5, <2>1
    <2> QED BY <2>1, <2>3, <2>4
<1>5. Sizes = Nat
    <2>1. Sizes \in SUBSET Nat
        OBVIOUS
    <2> HIDE DEF Sizes
    <2> QED BY <1>3, <1>4, <2>1, NaturalsByStep
<1> SUFFICES ASSUME NEW s \in SUBSET S PROVE Right(s)
    OBVIOUS
<1>6. Cardinality(s) \in Sizes
    BY <1>0, <1>5
<1> QED BY <1>0, <1>6

(* Two sums over a set are the same when what they add is.                 *)
LEMMA SumsAgree ==
    ASSUME NEW S, IsFiniteSet(S), NEW f, \A x \in S : f[x] \in Int, NEW g, Sums(g, f, S),
           NEW R, IsFiniteSet(R), NEW h, NEW k, Sums(k, h, R),
           S \subseteq R, \A x \in S : f[x] = h[x]
    PROVE  g[S] = k[S]
<1> DEFINE Sizes == {n \in Nat : \A s \in SUBSET S : Cardinality(s) <= n => g[s] = k[s]}
<1>0. \A s \in SUBSET S : IsFiniteSet(s) /\ Cardinality(s) \in Nat
    BY FS_Subset, FS_CardinalityType
<1>1. \A s \in SUBSET S : s # {} =>
          AnyOf(s) \in s /\ g[s] = f[AnyOf(s)] + g[s \ {AnyOf(s)}] /\ k[s] = h[AnyOf(s)] + k[s \ {AnyOf(s)}]
    BY DEF Sums, AnyOf
<1>2. g[{}] = 0 /\ k[{}] = 0
    BY DEF Sums
<1>3. 0 \in Sizes
    <2>1. ASSUME NEW s \in SUBSET S, Cardinality(s) <= 0 PROVE s = {}
        BY <1>0, <2>1, FS_EmptySet
    <2> QED BY <2>1, <1>2
<1>4. ASSUME NEW n \in Sizes PROVE n + 1 \in Sizes
    <2> SUFFICES ASSUME NEW s \in SUBSET S, Cardinality(s) <= n + 1, s # {} PROVE g[s] = k[s]
        BY <1>2
    <2>1. Cardinality(s \ {AnyOf(s)}) = Cardinality(s) - 1
        BY <1>0, <1>1, FS_RemoveElement
    <2>2. s \ {AnyOf(s)} \in SUBSET S /\ Cardinality(s \ {AnyOf(s)}) <= n
        BY <2>1, <1>0
    <2>3. g[s \ {AnyOf(s)}] = k[s \ {AnyOf(s)}]
        BY <2>2
    <2>4. f[AnyOf(s)] = h[AnyOf(s)]
        BY <1>1
    <2> QED BY <1>1, <2>3, <2>4
<1>5. Sizes = Nat
    <2>1. Sizes \in SUBSET Nat
        OBVIOUS
    <2> HIDE DEF Sizes
    <2> QED BY <1>3, <1>4, <2>1, NaturalsByStep
<1>6. Cardinality(S) \in Sizes
    BY <1>0, <1>5
<1> QED BY <1>6, <1>0

-----------------------------------------------------------------------------
(* The facts about sums that other modules use.                            *)
LEMMA SumOfNothing ==
    ASSUME NEW f PROVE SumOver(f, {}) = 0
<1>1. IsFiniteSet({})
    BY FS_EmptySet
<1>2. PICK g : Sums(g, f, {}) /\ SumOver(f, {}) = g[{}]
    BY <1>1, SumIsOfSums
<1> QED BY <1>2 DEF Sums

\* A sum is one of its parts and the sum of the others.
LEMMA SumWithout ==
    ASSUME NEW S, IsFiniteSet(S), NEW f, \A x \in S : f[x] \in Int, NEW e \in S
    PROVE  SumOver(f, S) \in Int /\ SumOver(f, S \ {e}) \in Int
           /\ SumOver(f, S) = f[e] + SumOver(f, S \ {e})
<1>0. IsFiniteSet(S \ {e})
    BY FS_RemoveElement
<1>1. PICK g : Sums(g, f, S) /\ SumOver(f, S) = g[S]
    BY SumIsOfSums
<1>2. PICK k : Sums(k, f, S \ {e}) /\ SumOver(f, S \ {e}) = k[S \ {e}]
    BY <1>0, SumIsOfSums
<1>3. g[S] \in Int /\ g[S] = f[e] + g[S \ {e}]
    BY <1>1, SumsOfAny
<1>4. g[S \ {e}] \in Int
    <2>1. S \ {e} \in SUBSET S
        OBVIOUS
    <2> QED BY <1>1, <2>1, SumsOfAny
<1>5. k[S \ {e}] = g[S \ {e}]
    BY <1>0, <1>1, <1>2, SumsAgree
<1> QED BY <1>1, <1>2, <1>3, <1>4, <1>5

\* The sum depends on the values at the elements only.
LEMMA SumOfTheSame ==
    ASSUME NEW S, IsFiniteSet(S), NEW f, NEW h, \A x \in S : f[x] \in Int /\ f[x] = h[x]
    PROVE  SumOver(f, S) = SumOver(h, S)
<1>1. PICK g : Sums(g, f, S) /\ SumOver(f, S) = g[S]
    BY SumIsOfSums
<1>2. PICK k : Sums(k, h, S) /\ SumOver(h, S) = k[S]
    BY SumIsOfSums
<1>3. g[S] = k[S]
    BY <1>1, <1>2, SumsAgree
<1> QED BY <1>1, <1>2, <1>3

(* Blocks of some length, one after the other, cannot all meet a set that  *)
(* is smaller than their number.                                           *)
LEMMA SomeBlockIsFree ==
    ASSUME NEW T, IsFiniteSet(T), NEW from \in Int, NEW work \in Nat, work > 0
    PROVE  \E b \in from..(from + work * (Cardinality(T) + 1)) : (b..(b + work - 1)) \cap T = {}
<1>0. Cardinality(T) \in Nat
    BY FS_CardinalityType
<1> DEFINE n == Cardinality(T)
           Block(j) == (from + work * j)..(from + work * j + work - 1)
<1>1. \A j \in 0..n : work * j \in Nat /\ work * j <= work * (n + 1)
    <2> TAKE j \in 0..n
    <2>1. j \in Nat /\ n + 1 - j \in Nat /\ work * (n + 1) = work * j + work * (n + 1 - j)
        BY <1>0
    <2>2. work * j \in Nat /\ work * (n + 1 - j) \in Nat
        BY <1>0, <2>1
    <2> QED BY <2>1, <2>2
<1>2. \A i, j \in 0..n : i < j => work * i + work <= work * j
    <2> TAKE i, j \in 0..n
    <2> HAVE i < j
    <2>1. i \in Nat /\ j \in Nat /\ j - i - 1 \in Nat /\ work * j = work * i + work + work * (j - i - 1)
        BY <1>0
    <2>2. work * (j - i - 1) \in Nat /\ work * i \in Nat
        BY <2>1
    <2> QED BY <2>1, <2>2
<1>3. PICK j \in 0..n : Block(j) \cap T = {}
    <2> SUFFICES ASSUME \A j \in 0..n : Block(j) \cap T # {} PROVE FALSE
        OBVIOUS
    <2> DEFINE f == [j \in 0..n |-> CHOOSE h \in T : h \in Block(j)]
    <2>1. \A j \in 0..n : f[j] \in T /\ f[j] \in Block(j)
        OBVIOUS
    <2>2. IsFiniteSet(0..n) /\ Cardinality(0..n) = n + 1
        BY <1>0, FS_Interval
    <2>3. f \in [0..n -> T]
        BY <2>1
    <2> HIDE DEF f
    <2>4. PICK i, j \in 0..n : i # j /\ f[i] = f[j]
        <3>1. Cardinality(T) < Cardinality(0..n)
            BY <1>0, <2>2
        <3> HIDE DEF n
        <3> QED BY <2>2, <2>3, <3>1, FS_PigeonHole
    <2>5. \A k, l \in 0..n : k < l => f[k] # f[l]
        <3> TAKE k, l \in 0..n
        <3> HAVE k < l
        <3>1. work * k + work <= work * l /\ work * k \in Nat /\ work * l \in Nat
            BY <1>1, <1>2
        <3>2. f[k] \in Int /\ f[k] <= from + work * k + work - 1 /\ f[l] >= from + work * l
            BY <2>1, <3>1
        <3> QED BY <3>1, <3>2
    <2>6. i < j \/ j < i
        BY <1>0, <2>4
    <2> QED BY <2>4, <2>5, <2>6
<1>4. from + work * j \in from..(from + work * (n + 1))
    <2>1. work * (n + 1) \in Int
        BY <1>0
    <2> QED BY <1>1, <2>1
<1> QED BY <1>3, <1>4

(* Of a set that is not empty, those where a function is least.            *)
LEMMA LeastByFunction ==
    ASSUME NEW S, IsFiniteSet(S), S # {}, NEW k \in [S -> Int]
    PROVE  \E T \in SUBSET S :
              /\ T # {} /\ IsFiniteSet(T)
              /\ \A t, u \in T : k[t] = k[u]
              /\ \A t \in T, u \in S \ T : k[t] < k[u]
<1> DEFINE K == {k[x] : x \in S}
<1>1. IsFiniteSet(K)
    BY ImageOfFinite
<1>2. K # {} /\ K \subseteq Int
    <2>1. \A x \in S : k[x] \in Int /\ k[x] \in K
        OBVIOUS
    <2> QED BY <2>1
<1>3. PICK m \in K : \A n \in K : m <= n
    <2> HIDE DEF K
    <2> QED BY <1>1, <1>2, LeastOfFinite
<1> DEFINE T == {x \in S : k[x] = m}
<1>4. T # {}
    BY <1>3
<1>5. IsFiniteSet(T)
    BY FS_Subset
<1>6. \A t, u \in T : k[t] = k[u]
    OBVIOUS
<1>7. ASSUME NEW t \in T, NEW u \in S \ T PROVE k[t] < k[u]
    <2>1. k[t] = m /\ k[u] # m /\ k[u] \in Int /\ m \in Int /\ k[u] \in K
        BY <1>3
    <2>2. m <= k[u]
        BY <1>3, <2>1
    <2> QED BY <2>1, <2>2
<1> HIDE DEF T
<1>8. T \in SUBSET S
    BY DEF T
<1> QED BY <1>4, <1>5, <1>6, <1>7, <1>8

\* A set of numbers to be put in order by four functions, then by themselves.
ToOrder(S, k, l, m, n) ==
    /\ IsFiniteSet(S) /\ S # {} /\ S \subseteq Int
    /\ k \in [S -> Int] /\ l \in [S -> Int] /\ m \in [S -> Int] /\ n \in [S -> Int]

Precedes(k, l, m, n, t, u) ==
    \/ k[t] < k[u]
    \/ k[t] = k[u] /\ l[t] < l[u]
    \/ k[t] = k[u] /\ l[t] = l[u] /\ m[t] < m[u]
    \/ k[t] = k[u] /\ l[t] = l[u] /\ m[t] = m[u] /\ n[t] < n[u]
    \/ k[t] = k[u] /\ l[t] = l[u] /\ m[t] = m[u] /\ n[t] = n[u] /\ t < u

(* One of them comes before all others.                                    *)
LEMMA LeastInOrder ==
    ASSUME NEW S, NEW k, NEW l, NEW m, NEW n, ToOrder(S, k, l, m, n)
    PROVE  \E t \in S : \A u \in S \ {t} : Precedes(k, l, m, n, t, u)
<1> USE DEF ToOrder
<1>1. PICK K \in SUBSET S : /\ K # {} /\ IsFiniteSet(K)
                            /\ \A t, u \in K : k[t] = k[u]
                            /\ \A t \in K, u \in S \ K : k[t] < k[u]
    BY LeastByFunction
<1>2. PICK L \in SUBSET K : /\ L # {} /\ IsFiniteSet(L)
                            /\ \A t, u \in L : l[t] = l[u]
                            /\ \A t \in L, u \in K \ L : l[t] < l[u]
    <2> DEFINE g == [x \in K |-> l[x]]
    <2>1. g \in [K -> Int]
        OBVIOUS
    <2>2. \E L \in SUBSET K : /\ L # {} /\ IsFiniteSet(L)
                              /\ \A t, u \in L : g[t] = g[u]
                              /\ \A t \in L, u \in K \ L : g[t] < g[u]
        <3> HIDE DEF g
        <3> QED BY <1>1, <2>1, LeastByFunction
    <2> QED BY <2>2, ZenonT(30)
<1>3. PICK M \in SUBSET L : /\ M # {} /\ IsFiniteSet(M)
                            /\ \A t, u \in M : m[t] = m[u]
                            /\ \A t \in M, u \in L \ M : m[t] < m[u]
    <2> DEFINE g == [x \in L |-> m[x]]
    <2>1. g \in [L -> Int]
        OBVIOUS
    <2>2. \E M \in SUBSET L : /\ M # {} /\ IsFiniteSet(M)
                              /\ \A t, u \in M : g[t] = g[u]
                              /\ \A t \in M, u \in L \ M : g[t] < g[u]
        <3> HIDE DEF g
        <3> QED BY <1>2, <2>1, LeastByFunction
    <2> QED BY <2>2, ZenonT(30)
<1>4. PICK N \in SUBSET M : /\ N # {} /\ IsFiniteSet(N)
                            /\ \A t, u \in N : n[t] = n[u]
                            /\ \A t \in N, u \in M \ N : n[t] < n[u]
    <2> DEFINE g == [x \in M |-> n[x]]
    <2>1. g \in [M -> Int]
        OBVIOUS
    <2>2. \E N \in SUBSET M : /\ N # {} /\ IsFiniteSet(N)
                              /\ \A t, u \in N : g[t] = g[u]
                              /\ \A t \in N, u \in M \ N : g[t] < g[u]
        <3> HIDE DEF g
        <3> QED BY <1>3, <2>1, LeastByFunction
    <2> QED BY <2>2, ZenonT(30)
<1>5. PICK t \in N : \A u \in N : t <= u
    BY <1>4, LeastOfFinite
<1>6. t \in K /\ t \in L /\ t \in M /\ t \in S
    OBVIOUS
<1>7. ASSUME NEW u \in S \ {t} PROVE Precedes(k, l, m, n, t, u)
    <2> USE DEF Precedes
    <2>1. CASE u \notin K
        BY <1>1, <1>6, <2>1
    <2>2. CASE u \in K \ L
        BY <1>1, <1>2, <1>6, <2>2
    <2>3. CASE u \in L \ M
        BY <1>1, <1>2, <1>3, <1>6, <2>3
    <2>4. CASE u \in M \ N
        BY <1>1, <1>2, <1>3, <1>4, <1>6, <2>4
    <2>5. CASE u \in N
        <3>1. t < u
            <4>1. t <= u /\ t # u /\ t \in Int /\ u \in Int
                BY <1>5, <2>5
            <4> QED BY <4>1
        <3> QED BY <1>1, <1>2, <1>3, <1>4, <1>6, <2>5, <3>1
    <2> QED BY <2>1, <2>2, <2>3, <2>4, <2>5
<1> QED BY <1>6, <1>7

-----------------------------------------------------------------------------
(***************************************************************************)
(* Keys of several numbers                                                 *)
(***************************************************************************)
\* One key comes before another.
KeyBefore(a, b, n) == \E i \in 1..n : a[i] < b[i] /\ \A j \in 1..(i - 1) : a[j] = b[j]

(* Of finitely many with different keys one has the least, and one the     *)
(* greatest.                                                               *)
LEMMA LeastKey ==
    ASSUME NEW S, IsFiniteSet(S), S # {}, NEW n \in Nat, NEW key \in [S -> [1..n -> Int]],
           \A t, u \in S : key[t] = key[u] => t = u
    PROVE  \E t \in S : \A u \in S \ {t} : KeyBefore(key[t], key[u], n)
<1> DEFINE FirstOf(T, i) ==
               /\ T \in SUBSET S /\ T # {} /\ IsFiniteSet(T)
               /\ \A t, u \in T : \A j \in 1..i : key[t][j] = key[u][j]
               /\ \A t \in T, u \in S \ T : \E j \in 1..i : key[t][j] < key[u][j] /\ \A h \in 1..(j - 1) : key[t][h] = key[u][h]
           Places == {i \in Nat : i <= n => \E T : FirstOf(T, i)}
<1>1. 0 \in Places
    <2>1. FirstOf(S, 0)
        OBVIOUS
    <2> QED BY <2>1
<1>2. ASSUME NEW i \in Places PROVE i + 1 \in Places
    <2>0. i \in Nat /\ i + 1 \in Nat /\ (i <= n => \E T : FirstOf(T, i))
        BY <1>2
    <2> HIDE DEF FirstOf
    <2> SUFFICES ASSUME i + 1 <= n PROVE \E T : FirstOf(T, i + 1)
        BY <2>0
    <2>1. i \in Nat /\ i <= n /\ i + 1 \in 1..n
        BY <2>0
    <2>2. PICK T : FirstOf(T, i)
        BY <2>0, <2>1
    <2> USE DEF FirstOf
    <2> DEFINE k == [x \in T |-> key[x][i + 1]]
    <2>3. k \in [T -> Int]
        BY <2>1, <2>2
    <2>4. PICK U \in SUBSET T : /\ U # {} /\ IsFiniteSet(U)
                                /\ \A t, u \in U : k[t] = k[u]
                                /\ \A t \in U, u \in T \ U : k[t] < k[u]
        <3> HIDE DEF k
        <3> QED BY <2>2, <2>3, LeastByFunction
    <2>5. \A t, u \in U : key[t][i + 1] = key[u][i + 1]
        BY <2>4
    <2>6. \A t \in U, u \in T \ U : key[t][i + 1] < key[u][i + 1]
        BY <2>4
    <2>7. \A j \in 1..(i + 1) : j = i + 1 \/ j \in 1..i
        BY <2>1
    <2>8. \A t, u \in U : \A j \in 1..(i + 1) : key[t][j] = key[u][j]
        BY <2>2, <2>5, <2>7
    <2>9. ASSUME NEW t \in U, NEW u \in S \ U
          PROVE  \E j \in 1..(i + 1) : key[t][j] < key[u][j] /\ \A h \in 1..(j - 1) : key[t][h] = key[u][h]
        <3>1. CASE u \in T
            <4>1. key[t][i + 1] < key[u][i + 1] /\ \A h \in 1..(i + 1 - 1) : key[t][h] = key[u][h]
                BY <2>1, <2>2, <2>6, <3>1
            <4>2. i + 1 \in 1..(i + 1)
                BY <2>1
            <4> QED BY <4>1, <4>2
        <3>2. CASE u \notin T
            <4>1. PICK j \in 1..i : key[t][j] < key[u][j] /\ \A h \in 1..(j - 1) : key[t][h] = key[u][h]
                BY <2>2, <3>2
            <4>2. j \in 1..(i + 1)
                BY <2>1
            <4> QED BY <4>1, <4>2
        <3> QED BY <3>1, <3>2
    <2> QED BY <2>2, <2>4, <2>8, <2>9
<1>3. Places = Nat
    <2>1. Places \in SUBSET Nat
        OBVIOUS
    <2> HIDE DEF Places
    <2> QED BY <1>1, <1>2, <2>1, NaturalsByStep
<1>4. PICK T : FirstOf(T, n)
    <2>1. n \in Places
        BY <1>3
    <2> HIDE DEF FirstOf
    <2> QED BY <2>1
<1>5. PICK t \in T : TRUE
    BY <1>4
<1>6. \A u \in T : u = t
    <2> SUFFICES ASSUME NEW u \in T PROVE u = t
        OBVIOUS
    <2>1. \A j \in 1..n : key[t][j] = key[u][j]
        BY <1>4, <1>5
    <2>2. t \in S /\ u \in S
        BY <1>4, <1>5
    <2>3. key[t] \in [1..n -> Int] /\ key[u] \in [1..n -> Int]
        BY <2>2
    <2>4. key[t] = key[u]
        BY <2>1, <2>3
    <2> HIDE DEF FirstOf
    <2> QED BY <2>2, <2>4
<1>7. t \in S
    BY <1>4, <1>5
<1>8. ASSUME NEW u \in S \ {t} PROVE KeyBefore(key[t], key[u], n)
    <2>1. u \in S \ T
        BY <1>6, <1>8
    <2>2. \E j \in 1..n : key[t][j] < key[u][j] /\ \A h \in 1..(j - 1) : key[t][h] = key[u][h]
        BY <1>4, <1>5, <2>1
    <2> QED BY <2>2 DEF KeyBefore
<1> QED BY <1>7, <1>8

\* Different keys of one length have a greatest one, in lexical order.
LEMMA GreatestKey ==
    ASSUME NEW S, IsFiniteSet(S), S # {}, NEW n \in Nat, NEW key \in [S -> [1..n -> Int]],
           \A t, u \in S : key[t] = key[u] => t = u
    PROVE  \E t \in S : \A u \in S \ {t} : KeyBefore(key[u], key[t], n)
<1> DEFINE back == [t \in S |-> [i \in 1..n |-> -key[t][i]]]
<1>1. \A t \in S : \A i \in 1..n : key[t][i] \in Int /\ back[t][i] = -key[t][i]
    OBVIOUS
<1>2. back \in [S -> [1..n -> Int]]
    OBVIOUS
<1>3. ASSUME NEW t \in S, NEW u \in S, back[t] = back[u] PROVE t = u
    <2>1. \A i \in 1..n : key[t][i] = key[u][i]
        <3> SUFFICES ASSUME NEW i \in 1..n PROVE key[t][i] = key[u][i]
            OBVIOUS
        <3>1. key[t][i] \in Int /\ key[u][i] \in Int /\ back[t][i] = -key[t][i] /\ back[u][i] = -key[u][i]
            BY <1>1
        <3>2. back[t][i] = back[u][i]
            BY <1>3
        <3> HIDE DEF back
        <3> QED BY <3>1, <3>2
    <2>2. key[t] \in [1..n -> Int] /\ key[u] \in [1..n -> Int]
        OBVIOUS
    <2>3. key[t] = key[u]
        BY <2>1, <2>2
    <2> QED BY <2>3
<1>4. PICK t \in S : \A u \in S \ {t} : KeyBefore(back[t], back[u], n)
    <2> HIDE DEF back
    <2> QED BY <1>2, <1>3, LeastKey
<1>5. ASSUME NEW u \in S \ {t} PROVE KeyBefore(key[u], key[t], n)
    <2>1. PICK i \in 1..n : back[t][i] < back[u][i] /\ \A j \in 1..(i - 1) : back[t][j] = back[u][j]
        BY <1>4 DEF KeyBefore
    <2>2. \A j \in 1..(i - 1) : j \in 1..n
        OBVIOUS
    <2> HIDE DEF back
    <2>3. key[u][i] < key[t][i]
        BY <1>1, <2>1
    <2>4. ASSUME NEW j \in 1..(i - 1) PROVE key[u][j] = key[t][j]
        <3>1. /\ key[t][j] \in Int /\ key[u][j] \in Int
              /\ back[t][j] = -key[t][j] /\ back[u][j] = -key[u][j] /\ back[t][j] = back[u][j]
            BY <1>1, <2>1, <2>2
        <3> QED BY <3>1
    <2> QED BY <2>3, <2>4 DEF KeyBefore
<1> QED BY <1>5

-----------------------------------------------------------------------------
(***************************************************************************)
(* A recursion: the value at a place of S, step of the place and of the    *)
(* function itself, depends on its values at lower places only, and no     *)
(* place is higher than n.                                                 *)
(***************************************************************************)
Recursion(S, V, n, rank, step) ==
    /\ V # {} /\ n \in Nat
    /\ rank \in [S -> 0..n]
    /\ step \in [S \X [S -> V] -> V]
    /\ \A x \in S : \A g, h \in [S -> V] :
          (\A y \in S : rank[y] < rank[x] => g[y] = h[y]) => step[<<x, g>>] = step[<<x, h>>]

(* The function it describes exists.                                       *)
LEMMA RecursionExists ==
    ASSUME NEW S, NEW V, NEW n, NEW rank, NEW step, Recursion(S, V, n, rank, step)
    PROVE  \E f \in [S -> V] : \A x \in S : f[x] = step[<<x, f>>]
<1> USE DEF Recursion
<1> DEFINE RightTo(f, m) == \A x \in S : rank[x] < m => f[x] = step[<<x, f>>]
           Heights == {m \in Nat : \E f \in [S -> V] : RightTo(f, m)}
<1>1. 0 \in Heights
    <2>1. PICK v \in V : TRUE
        OBVIOUS
    <2> DEFINE f == [x \in S |-> v]
    <2>2. f \in [S -> V] /\ RightTo(f, 0)
        OBVIOUS
    <2> HIDE DEF RightTo, f
    <2> QED BY <2>2
<1>2. ASSUME NEW m \in Heights PROVE m + 1 \in Heights
    <2>1. PICK f \in [S -> V] : RightTo(f, m)
        OBVIOUS
    <2> DEFINE g == [x \in S |-> IF rank[x] < m THEN f[x] ELSE step[<<x, f>>]]
    <2>2. g \in [S -> V]
        OBVIOUS
    <2>3. ASSUME NEW x \in S, rank[x] < m + 1 PROVE g[x] = step[<<x, g>>]
        <3>1. \A y \in S : rank[y] < rank[x] => f[y] = g[y]
            BY <2>3
        <3>2. step[<<x, f>>] = step[<<x, g>>]
            <4> HIDE DEF g
            <4> QED BY <2>2, <3>1
        <3>3. g[x] = step[<<x, f>>]
            BY <2>1
        <3> QED BY <3>2, <3>3
    <2>4. m + 1 \in Nat
        OBVIOUS
    <2>5. RightTo(g, m + 1)
        BY <2>3
    <2> HIDE DEF RightTo, g
    <2> QED BY <2>2, <2>4, <2>5
<1>3. n + 1 \in Heights
    <2>1. Heights \in SUBSET Nat
        OBVIOUS
    <2> HIDE DEF Heights
    <2> QED BY <1>1, <1>2, <2>1, NaturalsByStep
<1>4. PICK f \in [S -> V] : RightTo(f, n + 1)
    BY <1>3
<1> QED BY <1>4

\* What holds at a place when it holds at all lower ones.
Inherited(Good, S, n, rank) ==
    /\ n \in Nat /\ rank \in [S -> 0..n] /\ Good \subseteq S
    /\ \A x \in S : (\A y \in S : rank[y] < rank[x] => y \in Good) => x \in Good

(* It holds everywhere.                                                    *)
LEMMA RankInduction ==
    ASSUME NEW Good, NEW S, NEW n, NEW rank, Inherited(Good, S, n, rank)
    PROVE  Good = S
<1> USE DEF Inherited
<1> DEFINE Heights == {m \in Nat : \A x \in S : rank[x] < m => x \in Good}
<1>1. 0 \in Heights
    OBVIOUS
<1>2. ASSUME NEW m \in Heights PROVE m + 1 \in Heights
    <2> SUFFICES ASSUME NEW x \in S, rank[x] < m + 1 PROVE x \in Good
        OBVIOUS
    <2>1. \A y \in S : rank[y] < rank[x] => y \in Good
        <3> SUFFICES ASSUME NEW y \in S, rank[y] < rank[x] PROVE y \in Good
            OBVIOUS
        <3>1. rank[y] \in Int /\ rank[x] \in Int /\ m \in Nat
            OBVIOUS
        <3>2. rank[y] < m
            BY <3>1
        <3> QED BY <3>2
    <2> QED BY <2>1
<1>3. Heights = Nat
    <2>1. Heights \in SUBSET Nat
        OBVIOUS
    <2> HIDE DEF Heights
    <2> QED BY <1>1, <1>2, <2>1, NaturalsByStep
<1>4. n + 1 \in Heights
    BY <1>3
<1>5. \A x \in S : rank[x] < n + 1
    OBVIOUS
<1> QED BY <1>4, <1>5

-----------------------------------------------------------------------------
(***************************************************************************)
(* Days of some length                                                     *)
(***************************************************************************)
(* A time is at some place of some day.                                    *)
LEMMA DayAndSlot ==
    ASSUME NEW length \in Nat \ {0}, NEW t \in Int
    PROVE  /\ t \div length \in Int /\ t % length \in 0..(length - 1)
           /\ t = (t \div length) * length + (t % length)
<1>1. length \in Nat /\ length > 0
    OBVIOUS
<1>2. t \div length \in Int /\ t % length \in 0..(length - 1)
    BY <1>1
<1>3. t = length * (t \div length) + (t % length)
    BY <1>1
<1> QED BY <1>1, <1>2, <1>3

(* And there is one such day and place.                                    *)
LEMMA SlotOfDay ==
    ASSUME NEW length \in Nat \ {0}, NEW d \in Int, NEW s \in 0..(length - 1)
    PROVE  /\ d * length + s \in Int
           /\ (d * length + s) \div length = d /\ (d * length + s) % length = s
<1>1. length \in Nat /\ length > 0 /\ s \in Int /\ 0 <= s /\ s < length
    OBVIOUS
<1> DEFINE t == d * length + s
           e == t \div length
           r == t % length
<1>2. t \in Int
    BY <1>1
<1>3. e \in Int /\ r \in Int /\ 0 <= r /\ r < length /\ t = e * length + r
    <2> HIDE DEF t
    <2> QED BY <1>1, <1>2, DayAndSlot
<1> HIDE DEF e, r
<1>4. (d - e) * length = r - s
    BY <1>1, <1>3
<1>5. d - e < 1
    <2> SUFFICES ASSUME d - e >= 1 PROVE FALSE
        BY <1>3
    <2>1. (d - e) * length >= length
        BY <1>1, <1>3
    <2> QED BY <1>1, <1>3, <1>4, <2>1
<1>6. d - e > -1
    <2> SUFFICES ASSUME e - d >= 1 PROVE FALSE
        BY <1>3
    <2>1. (e - d) * length >= length
        BY <1>1, <1>3
    <2>2. (e - d) * length = s - r
        BY <1>1, <1>3
    <2> QED BY <1>1, <1>3, <2>1, <2>2
<1>7. d = e /\ r = s
    <2>1. d = e
        BY <1>3, <1>5, <1>6
    <2> QED BY <1>1, <1>3, <2>1
<1> QED BY <1>2, <1>7 DEF e, r

(* What a function pairs off has the same size.                            *)
LEMMA SameSize ==
    ASSUME NEW S, NEW T, NEW f \in [S -> T], IsFiniteSet(S),
           \A x, y \in S : f[x] = f[y] => x = y,
           \A t \in T : \E x \in S : f[x] = t
    PROVE  IsFiniteSet(T) /\ Cardinality(T) = Cardinality(S)
<1>1. f \in Surjection(S, T) /\ f \in Injection(S, T)
    BY DEF Surjection, Injection, IsInjective
<1> QED BY <1>1, FS_Surjection

(* A segment of the natural numbers.                                       *)
LEMMA OneTo ==
    ASSUME NEW n \in Nat
    PROVE  IsFiniteSet(1..n) /\ Cardinality(1..n) = n
BY FS_Interval

-----------------------------------------------------------------------------
(***************************************************************************)
(* Sets in an order                                                        *)
(***************************************************************************)
\* A finite set and for each element the ones before it, in a total order.
IsOrder(S, B) ==
    /\ IsFiniteSet(S)
    /\ \A e \in S : B[e] \subseteq S /\ e \notin B[e]
    /\ \A e, f \in S : e = f \/ e \in B[f] \/ f \in B[e]
    /\ \A e, f \in S : e \in B[f] => B[e] \subseteq B[f]

(* As many as there are in all have a number of elements before them that  *)
(* is their own: every place is taken, by one element.                     *)
LEMMA PlacesAreTaken ==
    ASSUME NEW S, NEW B, IsOrder(S, B)
    PROVE  /\ Cardinality(S) \in Nat
           /\ \A e \in S : Cardinality(B[e]) \in 0..(Cardinality(S) - 1)
           /\ \A e, f \in S : e \in B[f] <=> Cardinality(B[e]) < Cardinality(B[f])
           /\ \A i \in 1..Cardinality(S) : \E e \in S : Cardinality(B[e]) = i - 1
<1> USE DEF IsOrder
<1> DEFINE n == Cardinality(S)
           r == [e \in S |-> Cardinality(B[e])]
<1>1. n \in Nat
    BY FS_CardinalityType
<1>2. \A T \in SUBSET S : IsFiniteSet(T) /\ Cardinality(T) \in Nat
    BY FS_Subset, FS_CardinalityType
<1>3. ASSUME NEW e \in S PROVE r[e] \in 0..(n - 1)
    <2>1. B[e] \in SUBSET (S \ {e}) /\ IsFiniteSet(S \ {e}) /\ Cardinality(S \ {e}) = n - 1
        BY FS_RemoveElement
    <2>2. Cardinality(B[e]) <= n - 1
        BY <2>1, FS_Subset
    <2> QED BY <1>1, <1>2, <2>2
<1>4. ASSUME NEW e \in S, NEW f \in S, e \in B[f] PROVE r[e] < r[f]
    <2>1. B[e] \in SUBSET (B[f] \ {e})
        BY <1>4
    <2>2. IsFiniteSet(B[f]) /\ Cardinality(B[f]) \in Nat /\ Cardinality(B[e]) \in Nat
        BY <1>2
    <2>3. IsFiniteSet(B[f] \ {e}) /\ Cardinality(B[f] \ {e}) = Cardinality(B[f]) - 1
        BY <1>4, <2>2, FS_RemoveElement
    <2>4. Cardinality(B[e]) <= Cardinality(B[f] \ {e})
        BY <2>1, <2>3, FS_Subset
    <2> QED BY <2>2, <2>3, <2>4
<1>5. \A e \in S : r[e] \in Int
    BY <1>3
<1>6. ASSUME NEW e \in S, NEW f \in S PROVE e \in B[f] <=> r[e] < r[f]
    <2> HIDE DEF r
    <2>1. CASE e \in B[f]
        BY <1>4, <2>1
    <2>2. CASE e = f
        BY <1>5, <2>2
    <2>3. CASE f \in B[e]
        <3>1. r[f] < r[e]
            BY <1>4, <2>3
        <3>2. ~(r[e] < r[f])
            BY <1>5, <3>1
        <3> QED BY <1>4, <3>2
    <2> QED BY <2>1, <2>2, <2>3
<1>7. \A e, f \in S : r[e] = r[f] => e = f
    <2> SUFFICES ASSUME NEW e \in S, NEW f \in S, r[e] = r[f], e # f PROVE FALSE
        OBVIOUS
    <2> HIDE DEF r
    <2> QED BY <1>5, <1>4
<1>8. \A i \in 0..(n - 1) : \E e \in S : r[e] = i
    <2> DEFINE T == {r[e] : e \in S}
    <2>1. IsFiniteSet(T) /\ Cardinality(T) = n
        <3>1. r \in [S -> T] /\ \A t \in T : \E e \in S : r[e] = t
            OBVIOUS
        <3> HIDE DEF r, T
        <3> QED BY <1>7, <3>1, SameSize
    <2>2. T \in SUBSET (0..(n - 1))
        BY <1>3
    <2>3. IsFiniteSet(0..(n - 1)) /\ Cardinality(0..(n - 1)) = n
        <3>1. 0 \in Int /\ n - 1 \in Int
            BY <1>1
        <3>2. CASE 0 > n - 1
            <4>1. 0..(n - 1) = {} /\ n = 0
                BY <1>1, <3>2
            <4> HIDE DEF n
            <4> QED BY <4>1, FS_EmptySet
        <3>3. CASE ~(0 > n - 1)
            <4> HIDE DEF n
            <4>1. Cardinality(0..(n - 1)) = (n - 1) - 0 + 1 /\ IsFiniteSet(0..(n - 1))
                BY <3>1, <3>3, FS_Interval
            <4> QED BY <1>1, <4>1
        <3> QED BY <3>2, <3>3
    <2>4. T = 0..(n - 1)
        <3> HIDE DEF T, n, r
        <3> QED BY <2>1, <2>2, <2>3, FS_Subset
    <2> QED BY <2>4
<1>9. \A i \in 1..n : \E e \in S : Cardinality(B[e]) = i - 1
    <2> TAKE i \in 1..n
    <2>1. i - 1 \in 0..(n - 1)
        BY <1>1
    <2> QED BY <1>8, <2>1
<1> QED BY <1>1, <1>3, <1>6, <1>9

\* A sequence of the elements in that order.
InOrderOf(s, S, B) ==
    /\ DOMAIN s = 1..Cardinality(S)
    /\ \A i \in DOMAIN s : s[i] \in S /\ Cardinality(B[s[i]]) = i - 1

(* It has each element once, and the order of places is theirs.            *)
LEMMA OrderedIsInOrder ==
    ASSUME NEW S, NEW B, IsOrder(S, B), NEW s, InOrderOf(s, S, B)
    PROVE  /\ DOMAIN s = 1..Cardinality(S) /\ Cardinality(S) \in Nat
           /\ \A i \in DOMAIN s : s[i] \in S
           /\ \A e \in S : \E i \in DOMAIN s : s[i] = e
           /\ \A i, j \in DOMAIN s : i < j <=> s[i] \in B[s[j]]
           /\ \A i, j \in DOMAIN s : s[i] = s[j] => i = j
<1> USE DEF InOrderOf
<1> DEFINE n == Cardinality(S)
           r(e) == Cardinality(B[e])
<1>1. /\ n \in Nat /\ \A e \in S : r(e) \in 0..(n - 1)
      /\ \A e, f \in S : e \in B[f] <=> r(e) < r(f)
    BY PlacesAreTaken
<1>2. \A i \in DOMAIN s : i \in Int /\ s[i] \in S /\ r(s[i]) = i - 1
    OBVIOUS
<1>3. \A i, j \in DOMAIN s : i < j <=> s[i] \in B[s[j]]
    <2> TAKE i, j \in DOMAIN s
    <2> HIDE DEF r
    <2>1. i < j <=> r(s[i]) < r(s[j])
        BY <1>2
    <2> QED BY <1>1, <1>2, <2>1
<1>4. \A i, j \in DOMAIN s : s[i] = s[j] => i = j
    <2> TAKE i, j \in DOMAIN s
    <2> HIDE DEF r
    <2> QED BY <1>2
<1>5. ASSUME NEW e \in S PROVE \E i \in DOMAIN s : s[i] = e
    <2>1. r(e) \in 0..(n - 1)
        BY <1>1
    <2> DEFINE i == r(e) + 1
    <2> HIDE DEF r, n
    <2>2. i \in 1..n /\ i - 1 = r(e)
        BY <1>1, <2>1
    <2>3. i \in DOMAIN s /\ s[i] \in S /\ r(s[i]) = r(e)
        BY <1>2, <2>2 DEF n
    <2>4. s[i] = e
        <3>1. s[i] \in B[e] => r(s[i]) < r(e)
            BY <1>1, <2>3
        <3>2. e \in B[s[i]] => r(e) < r(s[i])
            BY <1>1, <2>3
        <3>3. r(e) \in Int
            BY <1>1, <2>1
        <3>4. s[i] \notin B[e] /\ e \notin B[s[i]]
            BY <2>3, <3>1, <3>2, <3>3
        <3> QED BY <2>3, <3>4 DEF IsOrder
    <2> QED BY <2>3, <2>4
<1> QED BY <1>1, <1>2, <1>3, <1>4, <1>5

-----------------------------------------------------------------------------
(***************************************************************************)
(* More about sums                                                         *)
(***************************************************************************)
(* A sum is no more than another one when what it adds is.                 *)
LEMMA SumsInOrder ==
    ASSUME NEW S, IsFiniteSet(S), NEW f, NEW g,
           \A x \in S : f[x] \in Int /\ g[x] \in Int /\ f[x] <= g[x]
    PROVE  SumOver(f, S) \in Int /\ SumOver(g, S) \in Int /\ SumOver(f, S) <= SumOver(g, S)
<1> DEFINE Right(T) == SumOver(f, T) \in Int /\ SumOver(g, T) \in Int /\ SumOver(f, T) <= SumOver(g, T)
           Sizes == {n \in Nat : \A T \in SUBSET S : Cardinality(T) <= n => Right(T)}
<1>0. \A T \in SUBSET S : IsFiniteSet(T) /\ Cardinality(T) \in Nat
    BY FS_Subset, FS_CardinalityType
<1>1. 0 \in Sizes
    <2>1. Right({})
        BY SumOfNothing
    <2>2. \A T \in SUBSET S : Cardinality(T) <= 0 => T = {}
        BY <1>0, FS_EmptySet
    <2> HIDE DEF Right
    <2> QED BY <2>1, <2>2
<1>2. ASSUME NEW n \in Sizes PROVE n + 1 \in Sizes
    <2> SUFFICES ASSUME NEW T \in SUBSET S, Cardinality(T) <= n + 1 PROVE Right(T)
        OBVIOUS
    <2>1. CASE T = {}
        BY <2>1, SumOfNothing
    <2>2. CASE T # {}
        <3>1. PICK x \in T : TRUE
            BY <2>2
        <3>2. Cardinality(T \ {x}) = Cardinality(T) - 1
            BY <1>0, <3>1, FS_RemoveElement
        <3>3. Right(T \ {x})
            <4>1. T \ {x} \in SUBSET S /\ Cardinality(T \ {x}) <= n
                BY <1>0, <3>2
            <4> QED BY <4>1
        <3>4. /\ SumOver(f, T) \in Int /\ SumOver(f, T) = f[x] + SumOver(f, T \ {x})
              /\ SumOver(g, T) \in Int /\ SumOver(g, T) = g[x] + SumOver(g, T \ {x})
            BY <1>0, SumWithout
        <3>5. f[x] \in Int /\ g[x] \in Int /\ f[x] <= g[x]
            OBVIOUS
        <3> QED BY <3>3, <3>4, <3>5
    <2> QED BY <2>1, <2>2
<1>3. Sizes = Nat
    <2>1. Sizes \in SUBSET Nat
        OBVIOUS
    <2> HIDE DEF Sizes
    <2> QED BY <1>1, <1>2, <2>1, NaturalsByStep
<1>4. Cardinality(S) \in Sizes
    BY <1>0, <1>3
<1> QED BY <1>0, <1>4

(* What holds of the empty set and of a set if it holds of the set without *)
(* some element holds of all parts of a finite set.                        *)
LEMMA PartsByStep ==
    ASSUME NEW S, IsFiniteSet(S), NEW G \in SUBSET (SUBSET S), {} \in G,
           \A T \in SUBSET S : T # {} => \E e \in T : T \ {e} \in G => T \in G
    PROVE  S \in G
<1> DEFINE Sizes == {n \in Nat : \A T \in SUBSET S : Cardinality(T) <= n => T \in G}
<1>0. \A T \in SUBSET S : IsFiniteSet(T) /\ Cardinality(T) \in Nat
    BY FS_Subset, FS_CardinalityType
<1>1. 0 \in Sizes
    <2>1. \A T \in SUBSET S : Cardinality(T) <= 0 => T = {}
        BY <1>0, FS_EmptySet
    <2> QED BY <2>1
<1>2. ASSUME NEW n \in Sizes PROVE n + 1 \in Sizes
    <2> SUFFICES ASSUME NEW T \in SUBSET S, Cardinality(T) <= n + 1, T # {} PROVE T \in G
        <3>1. n + 1 \in Nat
            OBVIOUS
        <3> QED BY <3>1
    <2>1. PICK e \in T : T \ {e} \in G => T \in G
        OBVIOUS
    <2>2. Cardinality(T \ {e}) = Cardinality(T) - 1
        BY <1>0, FS_RemoveElement
    <2>3. T \ {e} \in SUBSET S /\ Cardinality(T \ {e}) <= n
        BY <1>0, <2>2
    <2> QED BY <2>1, <2>3
<1>3. Sizes = Nat
    <2>1. Sizes \in SUBSET Nat
        OBVIOUS
    <2> HIDE DEF Sizes
    <2> QED BY <1>1, <1>2, <2>1, NaturalsByStep
<1>4. Cardinality(S) \in Sizes
    BY <1>0, <1>3
<1> QED BY <1>0, <1>4

(* A sum of integers is one, of natural numbers too.                       *)
LEMMA SumIsNumber ==
    ASSUME NEW S, IsFiniteSet(S), NEW f, \A x \in S : f[x] \in Int
    PROVE  SumOver(f, S) \in Int /\ ((\A x \in S : f[x] >= 0) => SumOver(f, S) >= 0)
<1> DEFINE G == {T \in SUBSET S : SumOver(f, T) \in Int
                                  /\ ((\A x \in S : f[x] >= 0) => SumOver(f, T) >= 0)}
<1>1. {} \in G
    BY SumOfNothing
<1>2. ASSUME NEW T \in SUBSET S, NEW e \in T, T \ {e} \in G PROVE T \in G
    <2>1. IsFiniteSet(T)
        BY FS_Subset
    <2>2. /\ SumOver(f, T) \in Int /\ SumOver(f, T \ {e}) \in Int
          /\ SumOver(f, T) = f[e] + SumOver(f, T \ {e})
        BY <2>1, SumWithout
    <2>3. (\A x \in S : f[x] >= 0) => SumOver(f, T \ {e}) >= 0 /\ f[e] >= 0
        BY <1>2
    <2>4. f[e] \in Int
        OBVIOUS
    <2> QED BY <2>2, <2>3, <2>4
<1>3. S \in G
    <2> HIDE DEF G
    <2>1. G \in SUBSET (SUBSET S)
        BY DEF G
    <2>2. \A T \in SUBSET S : T # {} => \E e \in T : T \ {e} \in G => T \in G
        BY <1>2
    <2> QED BY <1>1, <2>1, <2>2, PartsByStep
<1> QED BY <1>3

(* The sum over two sets that have nothing in common.                      *)
LEMMA SumOfTwo ==
    ASSUME NEW S, IsFiniteSet(S), NEW T, T \subseteq S, NEW f, \A x \in S : f[x] \in Int
    PROVE  /\ SumOver(f, S) \in Int /\ SumOver(f, T) \in Int /\ SumOver(f, S \ T) \in Int
           /\ SumOver(f, S) = SumOver(f, T) + SumOver(f, S \ T)
<1> DEFINE G == {R \in SUBSET T : SumOver(f, S) = SumOver(f, R) + SumOver(f, S \ R)}
<1>1. \A R \in SUBSET S : IsFiniteSet(R) /\ SumOver(f, R) \in Int
    BY FS_Subset, SumIsNumber
<1>2. {} \in G
    <2>1. S \ {} = S /\ SumOver(f, S) \in Int
        BY <1>1
    <2> QED BY <2>1, SumOfNothing
<1>3. ASSUME NEW R \in SUBSET T, NEW e \in R, R \ {e} \in G PROVE R \in G
    <2>1. SumOver(f, R) = f[e] + SumOver(f, R \ {e})
        <3>1. R \in SUBSET S
            OBVIOUS
        <3> QED BY <1>1, <3>1, SumWithout
    <2>2. SumOver(f, S \ (R \ {e})) = f[e] + SumOver(f, S \ R)
        <3>1. e \in S \ (R \ {e}) /\ (S \ (R \ {e})) \ {e} = S \ R /\ S \ (R \ {e}) \in SUBSET S
            OBVIOUS
        <3>2. SumOver(f, S \ (R \ {e})) = f[e] + SumOver(f, (S \ (R \ {e})) \ {e})
            BY <1>1, <3>1, SumWithout
        <3> QED BY <3>1, <3>2
    <2>3. SumOver(f, S) = SumOver(f, R \ {e}) + SumOver(f, S \ (R \ {e}))
        BY <1>3
    <2>4. f[e] \in Int /\ SumOver(f, R \ {e}) \in Int /\ SumOver(f, S \ R) \in Int
        <3>1. e \in S /\ R \ {e} \in SUBSET S /\ S \ R \in SUBSET S
            OBVIOUS
        <3> QED BY <1>1, <3>1
    <2> QED BY <2>1, <2>2, <2>3, <2>4
<1>4. T \in G
    <2>1. G \in SUBSET (SUBSET T) /\ IsFiniteSet(T)
        BY <1>1
    <2> HIDE DEF G
    <2>2. \A R \in SUBSET T : R # {} => \E e \in R : R \ {e} \in G => R \in G
        BY <1>3
    <2> QED BY <1>2, <2>1, <2>2, PartsByStep
<1> QED BY <1>1, <1>4

(* Of more natural numbers it is no less.                                  *)
LEMMA SumOfMore ==
    ASSUME NEW S, IsFiniteSet(S), NEW T, T \subseteq S, NEW f, \A x \in S : f[x] \in Nat
    PROVE  SumOver(f, S) \in Nat /\ SumOver(f, T) \in Nat /\ SumOver(f, T) <= SumOver(f, S)
<1>1. \A x \in S : f[x] \in Int /\ f[x] >= 0
    OBVIOUS
<1>2. /\ SumOver(f, S) \in Int /\ SumOver(f, T) \in Int /\ SumOver(f, S \ T) \in Int
      /\ SumOver(f, S) = SumOver(f, T) + SumOver(f, S \ T)
    BY <1>1, SumOfTwo
<1>3. \A R \in SUBSET S : SumOver(f, R) >= 0
    BY <1>1, FS_Subset, SumIsNumber
<1>4. SumOver(f, S) >= 0 /\ SumOver(f, T) >= 0 /\ SumOver(f, S \ T) >= 0
    <2>1. S \in SUBSET S /\ T \in SUBSET S /\ S \ T \in SUBSET S
        OBVIOUS
    <2> QED BY <1>3, <2>1
<1> QED BY <1>2, <1>4

\* The sums of f over the parts of S that p sends to the same.
PartSums(f, S, p, T) == [t \in T |-> SumOver(f, {x \in S : p[x] = t})]

(* A sum can be taken part by part.                                        *)
LEMMA SumOfParts ==
    ASSUME NEW S, IsFiniteSet(S), NEW f, \A x \in S : f[x] \in Int,
           NEW T, IsFiniteSet(T), NEW p, \A x \in S : p[x] \in T
    PROVE  SumOver(f, S) = SumOver(PartSums(f, S, p, T), T)
<1> DEFINE At(R, t) == {x \in R : p[x] = t}
           G == {R \in SUBSET S : SumOver(f, R) = SumOver(PartSums(f, R, p, T), T)}
<1>1. \A R \in SUBSET S : IsFiniteSet(R) /\ SumOver(f, R) \in Int
    BY FS_Subset, SumIsNumber
<1>2. \A R \in SUBSET S : \A t \in T : PartSums(f, R, p, T)[t] = SumOver(f, At(R, t))
                                     /\ PartSums(f, R, p, T)[t] \in Int
    <2> SUFFICES ASSUME NEW R \in SUBSET S, NEW t \in T
                 PROVE  PartSums(f, R, p, T)[t] = SumOver(f, At(R, t)) /\ PartSums(f, R, p, T)[t] \in Int
        OBVIOUS
    <2>1. PartSums(f, R, p, T)[t] = SumOver(f, At(R, t))
        BY DEF PartSums
    <2>2. At(R, t) \in SUBSET S
        OBVIOUS
    <2> HIDE DEF At
    <2> QED BY <1>1, <2>1, <2>2
<1>3. {} \in G
    <2> DEFINE z == PartSums(f, {}, p, T)
    <2>1. \A t \in T : z[t] = 0
        <3> SUFFICES ASSUME NEW t \in T PROVE z[t] = 0
            OBVIOUS
        <3>1. At({}, t) = {} /\ {} \in SUBSET S
            OBVIOUS
        <3>2. z[t] = SumOver(f, At({}, t))
            BY <1>2, <3>1
        <3> QED BY <3>1, <3>2, SumOfNothing
    <2> HIDE DEF z
    <2>2. SumOver(z, T) = 0
        <3> DEFINE H == {R \in SUBSET T : SumOver(z, R) = 0}
        <3>1. {} \in H
            BY SumOfNothing
        <3>2. ASSUME NEW R \in SUBSET T, NEW e \in R, R \ {e} \in H PROVE R \in H
            <4>1. IsFiniteSet(R) /\ \A t \in R : z[t] \in Int
                BY <2>1, FS_Subset
            <4>2. SumOver(z, R) = z[e] + SumOver(z, R \ {e})
                BY <4>1, SumWithout
            <4>3. z[e] = 0 /\ SumOver(z, R \ {e}) = 0
                BY <2>1, <3>2
            <4> QED BY <4>2, <4>3
        <3>3. H \in SUBSET (SUBSET T)
            OBVIOUS
        <3>4. T \in H
            <4> HIDE DEF H
            <4>1. \A R \in SUBSET T : R # {} => \E e \in R : R \ {e} \in H => R \in H
                BY <3>2
            <4> QED BY <3>1, <3>3, <4>1, PartsByStep
        <3> QED BY <3>4
    <2> QED BY <2>2, SumOfNothing DEF z
<1>4. ASSUME NEW R \in SUBSET S, NEW e \in R, R \ {e} \in G PROVE R \in G
    <2> DEFINE q == R \ {e}
               g == PartSums(f, R, p, T)
               h == PartSums(f, q, p, T)
               u == p[e]
    <2>0. q \in SUBSET S /\ u \in T /\ f[e] \in Int
        OBVIOUS
    <2>1. \A t \in T : /\ g[t] = SumOver(f, At(R, t)) /\ g[t] \in Int
                       /\ h[t] = SumOver(f, At(q, t)) /\ h[t] \in Int
        BY <1>2, <2>0
    <2>2. \A t \in T \ {u} : g[t] = h[t]
        <3> SUFFICES ASSUME NEW t \in T \ {u} PROVE g[t] = h[t]
            OBVIOUS
        <3>1. At(R, t) = At(q, t)
            OBVIOUS
        <3> HIDE DEF g, h, At
        <3> QED BY <2>1, <3>1
    <2>3. g[u] = f[e] + h[u]
        <3>1. e \in At(R, u) /\ At(R, u) \ {e} = At(q, u) /\ At(R, u) \in SUBSET S
            OBVIOUS
        <3> HIDE DEF g, h, At
        <3>2. SumOver(f, At(R, u)) = f[e] + SumOver(f, At(R, u) \ {e})
            BY <1>1, <3>1, SumWithout
        <3> QED BY <2>0, <2>1, <3>1, <3>2
    <2> HIDE DEF g, h, u, At
    <2>4. /\ SumOver(g, T) = g[u] + SumOver(g, T \ {u}) /\ SumOver(h, T) = h[u] + SumOver(h, T \ {u})
          /\ SumOver(h, T \ {u}) \in Int
        BY <2>0, <2>1, SumWithout
    <2>5. SumOver(g, T \ {u}) = SumOver(h, T \ {u})
        <3>1. IsFiniteSet(T \ {u}) /\ \A t \in T \ {u} : g[t] \in Int /\ g[t] = h[t]
            BY <2>1, <2>2, FS_Subset
        <3> QED BY <3>1, SumOfTheSame
    <2>6. SumOver(f, R) = f[e] + SumOver(f, q)
        BY <1>1, SumWithout
    <2>7. SumOver(f, q) = SumOver(h, T)
        BY <1>4 DEF h
    <2>8. SumOver(f, R) = SumOver(g, T)
        BY <2>0, <2>1, <2>3, <2>4, <2>5, <2>6, <2>7
    <2> QED BY <2>8 DEF g
<1>5. S \in G
    <2>1. G \in SUBSET (SUBSET S)
        OBVIOUS
    <2> HIDE DEF G
    <2>2. \A R \in SUBSET S : R # {} => \E e \in R : R \ {e} \in G => R \in G
        BY <1>4
    <2> QED BY <1>3, <2>1, <2>2, PartsByStep
<1> QED BY <1>5

(* Paired off with the elements of another set the sum is the same.        *)
LEMMA SumOfPairs ==
    ASSUME NEW S, IsFiniteSet(S), NEW f, \A x \in S : f[x] \in Int,
           NEW T, NEW g, NEW p, \A x \in S : p[x] \in T /\ f[x] = g[p[x]],
           \A t \in T : \E x \in S : p[x] = t,
           \A x, y \in S : p[x] = p[y] => x = y
    PROVE  IsFiniteSet(T) /\ SumOver(f, S) = SumOver(g, T)
<1> DEFINE q == [x \in S |-> p[x]]
           h == PartSums(f, S, p, T)
<1>1. IsFiniteSet(T)
    <2>1. q \in [S -> T] /\ \A x, y \in S : q[x] = q[y] => x = y
        OBVIOUS
    <2>2. \A t \in T : \E x \in S : q[x] = t
        OBVIOUS
    <2> HIDE DEF q
    <2> QED BY <2>1, <2>2, SameSize
<1>2. SumOver(f, S) = SumOver(h, T)
    BY <1>1, SumOfParts
<1>3. \A t \in T : h[t] \in Int /\ h[t] = g[t]
    <2> SUFFICES ASSUME NEW t \in T PROVE h[t] \in Int /\ h[t] = g[t]
        OBVIOUS
    <2>1. PICK x \in S : p[x] = t
        OBVIOUS
    <2>2. {y \in S : p[y] = t} = {x}
        BY <2>1
    <2>3. h[t] = SumOver(f, {x})
        BY <2>2 DEF PartSums
    <2>4. IsFiniteSet({x}) /\ {x} \ {x} = {}
        BY FS_Singleton
    <2>5. SumOver(f, {x}) = f[x] + SumOver(f, {x} \ {x})
        BY <2>4, SumWithout
    <2>6. f[x] \in Int /\ f[x] = g[t]
        BY <2>1
    <2> QED BY <2>3, <2>4, <2>5, <2>6, SumOfNothing
<1>4. SumOver(h, T) = SumOver(g, T)
    <2> HIDE DEF h
    <2> QED BY <1>1, <1>3, SumOfTheSame
<1> QED BY <1>1, <1>2, <1>4

(* A sum of ones counts.                                                   *)
LEMMA SumOfOnes ==
    ASSUME NEW S, IsFiniteSet(S)
    PROVE  \A R \in SUBSET S : SumOver([x \in S |-> 1], R) = Cardinality(R)
<1> DEFINE one == [x \in S |-> 1]
<1> SUFFICES ASSUME NEW R \in SUBSET S PROVE SumOver(one, R) = Cardinality(R)
    OBVIOUS
<1> DEFINE G == {T \in SUBSET R : SumOver(one, T) = Cardinality(T)}
<1>0. IsFiniteSet(R) /\ \A T \in SUBSET R : IsFiniteSet(T) /\ Cardinality(T) \in Nat
    BY FS_Subset, FS_CardinalityType
<1>1. {} \in G
    BY SumOfNothing, FS_EmptySet
<1>2. ASSUME NEW T \in SUBSET R, NEW e \in T, T \ {e} \in G PROVE T \in G
    <2>1. \A x \in T : one[x] = 1
        OBVIOUS
    <2> HIDE DEF one
    <2>2. SumOver(one, T) = one[e] + SumOver(one, T \ {e})
        <3>1. \A x \in T : one[x] \in Int
            BY <2>1
        <3> QED BY <1>0, <3>1, SumWithout
    <2>3. Cardinality(T \ {e}) = Cardinality(T) - 1
        BY <1>0, FS_RemoveElement
    <2>4. Cardinality(T) \in Nat /\ SumOver(one, T \ {e}) = Cardinality(T \ {e})
        BY <1>0, <1>2
    <2> QED BY <2>1, <2>2, <2>3, <2>4
<1>3. R \in G
    <2>1. G \in SUBSET (SUBSET R)
        OBVIOUS
    <2> HIDE DEF G
    <2>2. \A T \in SUBSET R : T # {} => \E e \in T : T \ {e} \in G => T \in G
        BY <1>2
    <2> QED BY <1>0, <1>1, <2>1, <2>2, PartsByStep
<1> QED BY <1>3

(* The sizes of the parts of a set add up to its size.                     *)
LEMMA SizeOfParts ==
    ASSUME NEW S, IsFiniteSet(S), NEW T, IsFiniteSet(T), NEW p, \A x \in S : p[x] \in T
    PROVE  Cardinality(S) = SumOver([t \in T |-> Cardinality({x \in S : p[x] = t})], T)
<1> DEFINE one == [x \in S |-> 1]
           g == PartSums(one, S, p, T)
           h == [t \in T |-> Cardinality({x \in S : p[x] = t})]
<1>1. SumOver(one, S) = SumOver(g, T)
    <2>1. \A x \in S : one[x] \in Int
        OBVIOUS
    <2> HIDE DEF one
    <2> QED BY <2>1, SumOfParts
<1>2. \A R \in SUBSET S : SumOver(one, R) = Cardinality(R)
    BY SumOfOnes
<1>3. \A t \in T : g[t] \in Int /\ g[t] = h[t]
    <2> SUFFICES ASSUME NEW t \in T PROVE g[t] \in Int /\ g[t] = h[t]
        OBVIOUS
    <2> DEFINE R == {x \in S : p[x] = t}
    <2>1. R \in SUBSET S /\ h[t] = Cardinality(R)
        OBVIOUS
    <2>2. g[t] = SumOver(one, R)
        <3> HIDE DEF one
        <3> QED BY DEF PartSums
    <2>3. Cardinality(R) \in Int
        <3> HIDE DEF R
        <3> QED BY <2>1, FS_Subset, FS_CardinalityType
    <2> HIDE DEF R, one, g, h
    <2> QED BY <1>2, <2>1, <2>2, <2>3
<1>4. SumOver(g, T) = SumOver(h, T)
    <2> HIDE DEF g, h
    <2> QED BY <1>3, SumOfTheSame
<1>5. SumOver(one, S) = Cardinality(S)
    <2>1. S \in SUBSET S
        OBVIOUS
    <2> HIDE DEF one
    <2> QED BY <1>2, <2>1
<1> QED BY <1>1, <1>4, <1>5

(* The greatest and the least number of a set.                             *)
LEMMA MaxIs ==
    ASSUME NEW S, S \subseteq Int, NEW x \in S, \A y \in S : y <= x
    PROVE  Max(S) = x
<1>1. \A z \in S : (\A y \in S : z >= y) => z = x
    <2> SUFFICES ASSUME NEW z \in S, \A y \in S : z >= y PROVE z = x
        OBVIOUS
    <2>1. z >= x /\ z <= x /\ z \in Int /\ x \in Int
        OBVIOUS
    <2> QED BY <2>1
<1>2. \A y \in S : x >= y
    OBVIOUS
<1> QED BY <1>1, <1>2 DEF Max

\* An element that no other is below is the least one.
LEMMA MinIs ==
    ASSUME NEW S, S \subseteq Int, NEW x \in S, \A y \in S : x <= y
    PROVE  Min(S) = x
<1>1. \A z \in S : (\A y \in S : z <= y) => z = x
    <2> SUFFICES ASSUME NEW z \in S, \A y \in S : z <= y PROVE z = x
        OBVIOUS
    <2>1. z >= x /\ z <= x /\ z \in Int /\ x \in Int
        OBVIOUS
    <2> QED BY <2>1
<1> QED BY <1>1 DEF Min

(* Keys that are all different put what has them in an order.              *)
LEMMA KeysOrder ==
    ASSUME NEW S, IsFiniteSet(S), NEW n \in Nat, NEW key \in [S -> [1..n -> Int]],
           \A e, f \in S : (\A i \in 1..n : key[e][i] = key[f][i]) => e = f,
           NEW B, \A e \in S : B[e] \subseteq S,
           \A e, f \in S : f \in B[e] <=> KeyBefore(key[f], key[e], n)
    PROVE  IsOrder(S, B)
<1>0. \A e \in S : \A i \in 1..n : key[e][i] \in Int
    OBVIOUS
<1>1. ASSUME NEW e \in S PROVE e \notin B[e]
    <2> SUFFICES ASSUME KeyBefore(key[e], key[e], n) PROVE FALSE
        OBVIOUS
    <2>1. PICK i \in 1..n : key[e][i] < key[e][i]
        BY DEF KeyBefore
    <2> QED BY <1>0, <2>1
<1>2. ASSUME NEW e \in S, NEW f \in S, e # f PROVE e \in B[f] \/ f \in B[e]
    <2> DEFINE D == {i \in 1..n : key[e][i] # key[f][i]}
    <2>1. D \in SUBSET Nat /\ D # {}
        BY <1>2
    <2>2. PICK i \in D : \A j \in D : i <= j
        <3> HIDE DEF D
        <3> QED BY <2>1, LeastNatural
    <2>3. \A j \in 1..(i - 1) : key[e][j] = key[f][j]
        <3> TAKE j \in 1..(i - 1)
        <3>1. j \in 1..n /\ ~(i <= j)
            OBVIOUS
        <3> QED BY <2>2, <3>1
    <2>4. i \in 1..n /\ key[e][i] # key[f][i] /\ key[e][i] \in Int /\ key[f][i] \in Int
        BY <1>0
    <2> HIDE DEF D
    <2>5. CASE key[e][i] < key[f][i]
        <3>1. KeyBefore(key[e], key[f], n)
            BY <2>3, <2>4, <2>5 DEF KeyBefore
        <3> QED BY <3>1
    <2>6. CASE key[f][i] < key[e][i]
        <3>1. KeyBefore(key[f], key[e], n)
            BY <2>3, <2>4, <2>6 DEF KeyBefore
        <3> QED BY <3>1
    <2> QED BY <2>4, <2>5, <2>6
<1>3. ASSUME NEW e \in S, NEW f \in S, e \in B[f], NEW g \in B[e] PROVE g \in B[f]
    <2>0. g \in S
        OBVIOUS
    <2>1. PICK i \in 1..n : key[e][i] < key[f][i] /\ \A j \in 1..(i - 1) : key[e][j] = key[f][j]
        BY <1>3 DEF KeyBefore
    <2>2. PICK h \in 1..n : key[g][h] < key[e][h] /\ \A j \in 1..(h - 1) : key[g][j] = key[e][j]
        BY <1>3, <2>0 DEF KeyBefore
    <2> DEFINE m == IF i <= h THEN i ELSE h
    <2>3. m \in 1..n /\ m <= i /\ m <= h /\ (m = i \/ m = h)
        OBVIOUS
    <2> HIDE DEF m
    <2>4. key[g][m] < key[f][m]
        <3>1. key[g][m] \in Int /\ key[e][m] \in Int /\ key[f][m] \in Int
            BY <1>0, <2>0, <2>3
        <3>2. key[g][m] <= key[e][m]
            <4>1. CASE m = h
                BY <2>2, <3>1, <4>1
            <4>2. CASE m # h
                <5>1. m \in 1..(h - 1)
                    BY <2>3, <4>2
                <5> QED BY <2>2, <3>1, <5>1
            <4> QED BY <4>1, <4>2
        <3>3. key[e][m] <= key[f][m]
            <4>1. CASE m = i
                BY <2>1, <3>1, <4>1
            <4>2. CASE m # i
                <5>1. m \in 1..(i - 1)
                    BY <2>3, <4>2
                <5> QED BY <2>1, <3>1, <5>1
            <4> QED BY <4>1, <4>2
        <3>4. key[g][m] < key[e][m] \/ key[e][m] < key[f][m]
            BY <2>1, <2>2, <2>3
        <3> QED BY <3>1, <3>2, <3>3, <3>4
    <2>5. \A j \in 1..(m - 1) : key[g][j] = key[f][j]
        <3> TAKE j \in 1..(m - 1)
        <3>1. j \in 1..(i - 1) /\ j \in 1..(h - 1)
            BY <2>3
        <3> QED BY <2>1, <2>2, <3>1
    <2>6. KeyBefore(key[g], key[f], n)
        BY <2>3, <2>4, <2>5 DEF KeyBefore
    <2> QED BY <2>0, <2>6
<1> QED BY <1>1, <1>2, <1>3 DEF IsOrder

\* What goes from step to step.
Steps(f, V, start, n, step) ==
    f \in [0..n -> V] /\ f[0] = start /\ \A k \in 1..n : f[k] = step[<<k, f[k - 1]>>]

(* It has a value at each.                                                 *)
LEMMA StepsExist ==
    ASSUME NEW V, NEW start \in V, NEW n \in Nat, NEW step \in [(1..n) \X V -> V]
    PROVE  \E f : Steps(f, V, start, n, step)
<1> DEFINE Goes(f, m) == f \in [0..m -> V] /\ f[0] = start
                         /\ \A k \in 1..m : f[k] = step[<<k, f[k - 1]>>]
           Good == {m \in Nat : m <= n => \E f : Goes(f, m)}
<1>1. 0 \in Good
    <2>1. Goes([k \in 0..0 |-> start], 0)
        OBVIOUS
    <2> HIDE DEF Goes
    <2> QED BY <2>1
<1>2. ASSUME NEW m \in Good PROVE m + 1 \in Good
    <2> SUFFICES ASSUME m + 1 <= n PROVE \E f : Goes(f, m + 1)
        OBVIOUS
    <2>1. PICK f : Goes(f, m)
        <3> HIDE DEF Goes
        <3> QED OBVIOUS
    <2> DEFINE g == [k \in 0..(m + 1) |-> IF k = m + 1 THEN step[<<m + 1, f[m]>>] ELSE f[k]]
    <2>2. m \in Nat /\ f[m] \in V
        BY <2>1
    <2>3. step[<<m + 1, f[m]>>] \in V
        BY <2>2
    <2>4. g \in [0..(m + 1) -> V] /\ g[0] = start
        BY <2>1, <2>2, <2>3
    <2>5. \A k \in 1..(m + 1) : g[k] = step[<<k, g[k - 1]>>]
        <3> TAKE k \in 1..(m + 1)
        <3>1. k - 1 \in 0..m /\ g[k - 1] = f[k - 1]
            BY <2>2
        <3>2. CASE k = m + 1
            BY <2>2, <3>1, <3>2
        <3>3. CASE k # m + 1
            <4>1. k \in 1..m /\ g[k] = f[k]
                BY <2>2, <3>3
            <4> QED BY <2>1, <3>1, <4>1
        <3> QED BY <3>2, <3>3
    <2> HIDE DEF g
    <2> QED BY <2>4, <2>5
<1>3. Good = Nat
    <2>1. Good \in SUBSET Nat
        OBVIOUS
    <2> HIDE DEF Good
    <2> QED BY <1>1, <1>2, <2>1, NaturalsByStep
<1>4. \E f : Goes(f, n)
    BY <1>3
<1> QED BY <1>4 DEF Steps

(* A sum over numbers in a row goes on with the next.                      *)
LEMMA SumGoesOn ==
    ASSUME NEW i \in Int, NEW k \in Int, i <= k + 1, NEW f, \A j \in i..(k + 1) : f[j] \in Int
    PROVE  /\ SumOver(f, i..k) \in Int /\ SumOver(f, i..(k + 1)) \in Int
           /\ SumOver(f, i..(k + 1)) = SumOver(f, i..k) + f[k + 1]
<1> DEFINE S == i..(k + 1)
           e == k + 1
<1>1. IsFiniteSet(S)
    BY FS_Interval
<1>2. e \in S /\ S \ {e} = i..k /\ f[e] \in Int
    OBVIOUS
<1> HIDE DEF S, e
<1>3. \A j \in S : f[j] \in Int
    BY DEF S
<1>4. SumOver(f, S) \in Int /\ SumOver(f, S \ {e}) \in Int /\ SumOver(f, S) = f[e] + SumOver(f, S \ {e})
    BY <1>1, <1>2, <1>3, SumWithout
<1>5. SumOver(f, S \ {e}) = SumOver(f, i..k)
    BY <1>2
<1>6. SumOver(f, i..k) \in Int /\ SumOver(f, S) \in Int /\ SumOver(f, S) = SumOver(f, i..k) + f[e]
    BY <1>2, <1>4, <1>5
<1> QED BY <1>6 DEF S, e

\* The elements before which there is less than the limit.
FirstOf(S, B, w, limit) == {r \in S : SumOver(w, B[r]) < limit}

(* In an order those that come after less than some limit of work in all   *)
(* are the first, and the first to reach it.                               *)
LEMMA FirstUpTo ==
    ASSUME NEW S, NEW B, IsOrder(S, B), NEW w, \A e \in S : w[e] \in Nat, NEW limit \in Int,
           NEW up, up = FirstOf(S, B, w, limit)
    PROVE  /\ limit <= 0 => up = {}
           /\ limit > 0 => up = S \/ SumOver(w, up) >= limit
           /\ up # {} => \E s \in up : /\ \A r \in up \ {s} : r \in B[s]
                                      /\ SumOver(w, up \ {s}) < limit
           /\ \A r \in up, s \in S \ up : r \in B[s]
<1> USE DEF IsOrder, FirstOf
<1>0. \A R \in SUBSET S : IsFiniteSet(R) /\ SumOver(w, R) \in Nat
    <2> TAKE R \in SUBSET S
    <2>1. R \subseteq S
        OBVIOUS
    <2> QED BY <2>1, FS_Subset, SumOfMore
<1>1. \A r \in S : B[r] \in SUBSET S /\ SumOver(w, B[r]) \in Nat
    BY <1>0
<1>2. limit <= 0 => up = {}
    BY <1>1
<1>3. \A r \in up, q \in S : q \in B[r] => q \in up
    <2> SUFFICES ASSUME NEW r \in up, NEW q \in S, q \in B[r] PROVE q \in up
        OBVIOUS
    <2>1. B[q] \subseteq B[r] /\ r \in S
        OBVIOUS
    <2>2. IsFiniteSet(B[r]) /\ \A e \in B[r] : w[e] \in Nat
        BY <1>0, <1>1, <2>1
    <2>3. SumOver(w, B[q]) <= SumOver(w, B[r])
        BY <2>1, <2>2, SumOfMore
    <2>4. SumOver(w, B[r]) < limit
        OBVIOUS
    <2> QED BY <1>1, <2>1, <2>3, <2>4
<1>4. \A r \in up, s \in S \ up : r \in B[s]
    BY <1>3
<1>5. up \in SUBSET S
    OBVIOUS
<1>6. ASSUME up # S PROVE SumOver(w, up) >= limit
    <2> DEFINE R == S \ up
               size == [e \in S |-> Cardinality(B[e])]
               X == {size[e] : e \in R}
    <2>1. R # {} /\ R \in SUBSET S
        BY <1>6
    <2>2. \A e \in S : size[e] \in Int
        BY <1>1, <1>0, FS_CardinalityType
    <2>3. PICK x \in X : \A y \in X : x <= y
        <3>1. IsFiniteSet(X) /\ X # {} /\ X \subseteq Int
            <4> HIDE DEF size, R
            <4>1. IsFiniteSet(R)
                BY <1>0, <2>1
            <4>2. IsFiniteSet(X)
                BY <4>1, ImageOfFinite
            <4> QED BY <2>1, <2>2, <4>2
        <3> HIDE DEF X
        <3> QED BY <3>1, LeastOfFinite
    <2>4. PICK t \in R : x = size[t]
        OBVIOUS
    <2>5. B[t] = up
        <3>1. \A r \in up : r \in B[t]
            BY <1>4
        <3>2. ASSUME NEW r \in B[t] PROVE r \in up
            <4> SUFFICES ASSUME r \in R PROVE FALSE
                BY <2>1
            <4>1. r \in S /\ t \in S
                OBVIOUS
            <4>2. Cardinality(B[r]) < Cardinality(B[t])
                BY <4>1, PlacesAreTaken
            <4>3. size[t] <= size[r]
                BY <2>3, <2>4
            <4> QED BY <2>2, <4>1, <4>2, <4>3
        <3> QED BY <3>1, <3>2
    <2>6. ~(SumOver(w, B[t]) < limit) /\ SumOver(w, B[t]) \in Nat
        BY <1>1, <2>1
    <2> QED BY <2>5, <2>6
<1>7. ASSUME up # {}
      PROVE  \E s \in up : (\A r \in up \ {s} : r \in B[s]) /\ SumOver(w, up \ {s}) < limit
    <2> DEFINE size == [e \in S |-> Cardinality(B[e])]
               X == {size[e] : e \in up}
    <2>1. \A e \in S : size[e] \in Int
        BY <1>1, <1>0, FS_CardinalityType
    <2>2. PICK x \in X : \A y \in X : x >= y
        <3>1. IsFiniteSet(X) /\ X # {} /\ X \subseteq Int
            <4> HIDE DEF size
            <4>1. IsFiniteSet(up)
                BY <1>0, <1>5
            <4>2. IsFiniteSet(X)
                BY <4>1, ImageOfFinite
            <4> QED BY <1>5, <1>7, <2>1, <4>2
        <3> HIDE DEF X
        <3> QED BY <3>1, GreatestOfFinite
    <2>3. PICK s \in up : x = size[s]
        OBVIOUS
    <2>4. \A r \in up \ {s} : r \in B[s]
        <3> TAKE r \in up \ {s}
        <3>1. r \in S /\ s \in S /\ size[s] >= size[r]
            BY <1>5, <2>2, <2>3
        <3>2. ~(Cardinality(B[s]) < Cardinality(B[r]))
            BY <2>1, <3>1
        <3>3. s \notin B[r]
            BY <3>1, <3>2, PlacesAreTaken
        <3> QED BY <3>1, <3>3
    <2>5. B[s] = up \ {s}
        <3>1. \A q \in B[s] : q \in S /\ q # s
            BY <1>5
        <3>2. \A q \in B[s] : q \in up
            BY <1>3, <3>1
        <3> QED BY <2>4, <3>1, <3>2
    <2>6. SumOver(w, B[s]) < limit
        OBVIOUS
    <2> HIDE DEF size, X
    <2> QED BY <2>4, <2>5, <2>6
<1> QED BY <1>2, <1>4, <1>6, <1>7

\* What a sequence has, and that it has nothing twice.
Has(s) == {s[i] : i \in DOMAIN s}
HasOnce(s) == \A i, j \in DOMAIN s : s[i] = s[j] => i = j

(* Of two sequences, one after the other.                                  *)
LEMMA JoinedHas ==
    ASSUME NEW T, NEW s \in Seq(T), NEW t \in Seq(T)
    PROVE  /\ s \o t \in Seq(T) /\ Has(s \o t) = Has(s) \cup Has(t)
           /\ HasOnce(s) /\ HasOnce(t) /\ Has(s) \cap Has(t) = {} => HasOnce(s \o t)
<1> DEFINE r == s \o t
           m == Len(s)
           n == Len(t)
<1>1. /\ r \in Seq(T) /\ DOMAIN r = 1..(m + n) /\ m \in Nat /\ n \in Nat
      /\ DOMAIN s = 1..m /\ DOMAIN t = 1..n
      /\ \A i \in 1..m : r[i] = s[i]
      /\ \A i \in (m + 1)..(m + n) : r[i] = t[i - m]
    OBVIOUS
<1> HIDE DEF r, m, n
<1>2. ASSUME NEW i \in 1..(m + n) PROVE i \in 1..m \/ (i \in (m + 1)..(m + n) /\ i - m \in 1..n)
    BY <1>1
<1>3. ASSUME NEW i \in 1..n PROVE m + i \in (m + 1)..(m + n) /\ (m + i) - m = i /\ m + i \in 1..(m + n)
    BY <1>1
<1>4. Has(r) = Has(s) \cup Has(t)
    <2>1. ASSUME NEW x \in Has(r) PROVE x \in Has(s) \cup Has(t)
        <3>1. PICK i \in 1..(m + n) : r[i] = x
            BY <1>1 DEF Has
        <3> QED BY <1>1, <1>2, <3>1 DEF Has
    <2>2. ASSUME NEW x \in Has(s) PROVE x \in Has(r)
        <3>1. PICK i \in 1..m : s[i] = x
            BY <1>1 DEF Has
        <3>2. i \in 1..(m + n)
            BY <1>1
        <3> QED BY <1>1, <3>1, <3>2 DEF Has
    <2>3. ASSUME NEW x \in Has(t) PROVE x \in Has(r)
        <3>1. PICK i \in 1..n : t[i] = x
            BY <1>1 DEF Has
        <3>2. r[m + i] = x
            BY <1>1, <1>3, <3>1
        <3> QED BY <1>1, <1>3, <3>2 DEF Has
    <2> QED BY <2>1, <2>2, <2>3
<1>5. ASSUME HasOnce(s), HasOnce(t), Has(s) \cap Has(t) = {} PROVE HasOnce(r)
    <2> SUFFICES ASSUME NEW i \in 1..(m + n), NEW j \in 1..(m + n), r[i] = r[j] PROVE i = j
        BY <1>1 DEF HasOnce
    <2>1. CASE i \in 1..m /\ j \in 1..m
        BY <1>1, <1>5, <2>1 DEF HasOnce
    <2>2. CASE i \in (m + 1)..(m + n) /\ j \in (m + 1)..(m + n)
        <3>1. i - m \in 1..n /\ j - m \in 1..n
            BY <1>1, <2>2
        <3>2. i - m = j - m
            BY <1>1, <1>5, <2>2, <3>1 DEF HasOnce
        <3> QED BY <1>1, <3>2
    <2>3. ASSUME NEW a \in 1..m, NEW b \in (m + 1)..(m + n), r[a] = r[b] PROVE FALSE
        <3>1. r[a] \in Has(s)
            BY <1>1 DEF Has
        <3>2. b - m \in 1..n
            BY <1>1
        <3>3. r[b] \in Has(t)
            BY <1>1, <3>2 DEF Has
        <3> QED BY <1>5, <2>3, <3>1, <3>3
    <2> QED BY <1>2, <2>1, <2>2, <2>3
<1> QED BY <1>1, <1>4, <1>5 DEF r

\* Sequences, one after the other.
Joins(g, seqs, n) ==
    /\ DOMAIN g = 1..n
    /\ \A i \in 1..n : g[i] = IF i = 1 THEN seqs[i] ELSE g[i - 1] \o seqs[i]

(* Joining many, nothing is left out.                                      *)
LEMMA ManyJoined ==
    ASSUME NEW T, NEW n \in Nat \ {0}, NEW seqs, \A i \in 1..n : seqs[i] \in Seq(T),
           NEW g, Joins(g, seqs, n)
    PROVE  /\ g[n] \in Seq(T) /\ Has(g[n]) = UNION {Has(seqs[j]) : j \in 1..n}
           /\ (/\ \A i \in 1..n : HasOnce(seqs[i])
               /\ \A i, j \in 1..n : i # j => Has(seqs[i]) \cap Has(seqs[j]) = {}) => HasOnce(g[n])
<1> DEFINE Apart == /\ \A i \in 1..n : HasOnce(seqs[i])
                    /\ \A i, j \in 1..n : i # j => Has(seqs[i]) \cap Has(seqs[j]) = {}
           All(m) == UNION {Has(seqs[j]) : j \in 1..m}
           Right(m) == g[m] \in Seq(T) /\ Has(g[m]) = All(m) /\ (Apart => HasOnce(g[m]))
           Good == {m \in Nat : m + 1 <= n => Right(m + 1)}
<1>0. /\ n \in Nat /\ n >= 1 /\ 1 \in 1..n
      /\ \A i \in 1..n : g[i] = IF i = 1 THEN seqs[i] ELSE g[i - 1] \o seqs[i]
    <2>1. n \in Nat /\ n >= 1 /\ 1 \in 1..n
        OBVIOUS
    <2> QED BY <2>1 DEF Joins
<1>1. 0 \in Good
    <2>1. g[1] = seqs[1]
        BY <1>0
    <2>2. All(1) = Has(seqs[1])
        <3>1. 1..1 = {1}
            OBVIOUS
        <3> QED BY <3>1
    <2>3. seqs[1] \in Seq(T) /\ (Apart => HasOnce(seqs[1]))
        BY <1>0
    <2> HIDE DEF All, Apart
    <2>4. Right(1)
        BY <2>1, <2>2, <2>3
    <2> QED BY <2>4
<1>2. ASSUME NEW m \in Good PROVE m + 1 \in Good
    <2> SUFFICES ASSUME (m + 1) + 1 <= n PROVE Right((m + 1) + 1)
        <3> HIDE DEF Right
        <3> QED OBVIOUS
    <2> DEFINE k == (m + 1) + 1
    <2>1. k \in 1..n /\ k # 1 /\ k - 1 = m + 1 /\ k - 1 \in 1..n /\ k \in Nat
        BY <1>0
    <2>2. Right(k - 1)
        <3> HIDE DEF Right
        <3>1. Right(m + 1)
            BY <1>0
        <3> QED BY <2>1, <3>1
    <2> HIDE DEF k
    <2>3. g[k] = g[k - 1] \o seqs[k]
        BY <1>0, <2>1
    <2>4. All(k) = All(k - 1) \cup Has(seqs[k])
        <3>1. 1..k = 1..(k - 1) \cup {k}
            BY <2>1
        <3> QED BY <3>1
    <2>5. Apart => All(k - 1) \cap Has(seqs[k]) = {}
        <3>1. ASSUME Apart, NEW j \in 1..(k - 1) PROVE Has(seqs[j]) \cap Has(seqs[k]) = {}
            <4>1. j \in 1..n /\ j # k
                BY <1>0, <2>1
            <4> QED BY <2>1, <3>1, <4>1
        <3> HIDE DEF Apart
        <3> QED BY <3>1
    <2>6. Apart => HasOnce(seqs[k])
        BY <2>1
    <2>7. seqs[k] \in Seq(T)
        BY <2>1
    <2> HIDE DEF Apart, All
    <2>8. Right(k)
        BY <2>2, <2>3, <2>4, <2>5, <2>6, <2>7, JoinedHas
    <2> QED BY <2>8 DEF k
<1>3. Good = Nat
    <2>1. Good \in SUBSET Nat
        OBVIOUS
    <2> HIDE DEF Good
    <2> QED BY <1>1, <1>2, <2>1, NaturalsByStep
<1>4. Right(n)
    <2> HIDE DEF Right
    <2>1. n - 1 \in Good /\ (n - 1) + 1 = n
        <3> HIDE DEF Good
        <3> QED BY <1>0, <1>3
    <2> QED BY <1>0, <2>1
<1> QED BY <1>4

IsJoin(g, seqs, n) == g = [i \in 1..n |-> IF i = 1 THEN seqs[i] ELSE g[i - 1] \o seqs[i]]

(* There is a way to join them.                                            *)
LEMMA JoinsExist ==
    ASSUME NEW T, NEW n \in Nat \ {0}, NEW seqs, \A i \in 1..n : seqs[i] \in Seq(T)
    PROVE  \E g : IsJoin(g, seqs, n)
<1> DEFINE V == Seq(T)
           step == [a \in (1..n) \X V |-> IF a[1] = 1 THEN seqs[1] ELSE a[2] \o seqs[a[1]]]
<1>0. n \in Nat
    OBVIOUS
<1>1. seqs[1] \in V
    OBVIOUS
<1>2. step \in [(1..n) \X V -> V]
    <2> SUFFICES ASSUME NEW i \in 1..n, NEW s \in V PROVE step[<<i, s>>] \in V
        OBVIOUS
    <2>1. s \o seqs[i] \in V
        OBVIOUS
    <2> QED BY <1>1, <2>1
<1>3. PICK f : f \in [0..n -> V] /\ f[0] = seqs[1] /\ \A k \in 1..n : f[k] = step[<<k, f[k - 1]>>]
    <2> HIDE DEF step, V
    <2>1. \E f : Steps(f, V, seqs[1], n, step)
        BY <1>0, <1>1, <1>2, StepsExist
    <2> QED BY <2>1 DEF Steps
<1> DEFINE g == [i \in 1..n |-> f[i]]
<1>4. \A i \in 1..n : g[i] = IF i = 1 THEN seqs[i] ELSE g[i - 1] \o seqs[i]
    <2> TAKE i \in 1..n
    <2>1. f[i - 1] \in V /\ <<i, f[i - 1]>> \in (1..n) \X V
        <3>1. i - 1 \in 0..n
            OBVIOUS
        <3> HIDE DEF V, step
        <3> QED BY <1>3, <3>1
    <2>2. f[i] = IF i = 1 THEN seqs[1] ELSE f[i - 1] \o seqs[i]
        BY <1>3, <2>1
    <2>3. i # 1 => g[i - 1] = f[i - 1]
        OBVIOUS
    <2> HIDE DEF step, V
    <2> QED BY <2>2, <2>3
<1>5. g = [i \in 1..n |-> IF i = 1 THEN seqs[i] ELSE g[i - 1] \o seqs[i]]
    <2> DEFINE h == [i \in 1..n |-> IF i = 1 THEN seqs[i] ELSE g[i - 1] \o seqs[i]]
    <2>1. \A i \in 1..n : h[i] = g[i]
        BY <1>4
    <2> QED BY <2>1
<1> HIDE DEF g
<1> QED BY <1>5 DEF IsJoin

=============================================================================
