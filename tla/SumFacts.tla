------------------------------ MODULE SumFacts ------------------------------
(***************************************************************************)
(* Sums over finite sets, as MapThenSumSet of the community modules        *)
(* computes them: what the sum of the empty set is, what one more element  *)
(* adds, and that only the summed values matter.                           *)
(*                                                                         *)
(* The induction theorems of the library take the induction predicate as   *)
(* an operator.  Here the predicate is the membership of a set, so that    *)
(* the well-foundedness of < on Nat (WFMin) is all that is needed.         *)
(***************************************************************************)
EXTENDS Integers, FiniteSetsExt, Functions, FiniteSetTheorems, TLAPS

-----------------------------------------------------------------------------
(* Induction *)

\* A set with 0 and with the successor of each of its numbers holds every
\* natural number.
LEMMA SetInduction ==
    ASSUME NEW T, 0 \in T, \A n \in Nat : n \in T => n + 1 \in T
    PROVE  \A n \in Nat : n \in T
<1> DEFINE R == OpToRel(<, Nat)
           Rest == Nat \ T
<1>1. IsWellFoundedOn(R, Nat)
  BY NatLessThanWellFounded, Zenon
<1>2. ASSUME Rest # {} PROVE FALSE
  <2>1. \E x \in Rest : \A y \in Rest : <<y, x>> \notin R
    <3> HIDE DEF R
    <3> QED BY <1>1, <1>2, WFMin, Zenon DEF Rest
  <2>2. PICK x \in Rest : \A y \in Rest : <<y, x>> \notin R
    BY <2>1, Zenon
  <2>3. x \in Nat /\ x - 1 \in Rest /\ x - 1 < x
    <3> HIDE DEF R
    <3> QED OBVIOUS
  <2>4. \A y \in Nat : y < x => <<y, x>> \in R
    BY <2>3, Zenon DEF OpToRel
  <2> HIDE DEF R
  <2> QED BY <2>2, <2>3, <2>4
<1> QED
  <2> HIDE DEF R
  <2> QED BY <1>2

\* Every finite set has a property that the empty set has and that passes from
\* the sets with n elements to those with n + 1.
LEMMA CardinalityInduction ==
    ASSUME NEW S, IsFiniteSet(S), NEW T, {} \in T,
           \A s \in SUBSET S : (\A x \in s : s \ {x} \in T) => s \in T
    PROVE  \A s \in SUBSET S : s \in T
<1> DEFINE Good == {n \in Nat : \A s \in SUBSET S : Cardinality(s) = n => s \in T}
<1>1. \A s \in SUBSET S : IsFiniteSet(s) /\ Cardinality(s) \in Nat
  BY FS_Subset, FS_CardinalityType
<1>2. 0 \in Good
  BY <1>1, FS_EmptySet
<1>3. \A n \in Nat : n \in Good => n + 1 \in Good
  <2> SUFFICES ASSUME NEW n \in Nat, n \in Good,
                      NEW s \in SUBSET S, Cardinality(s) = n + 1
               PROVE  s \in T
    OBVIOUS
  <2>1. ASSUME NEW x \in s PROVE s \ {x} \in T
    <3>1. Cardinality(s \ {x}) = n
      BY <1>1, FS_RemoveElement
    <3> QED BY <3>1
  <2> QED BY <2>1
<1>4. \A n \in Nat : n \in Good
  <2> HIDE DEF Good
  <2> QED BY <1>2, <1>3, SetInduction
<1> QED BY <1>1, <1>4

-----------------------------------------------------------------------------
(* The function that MapThenSumSet recurses with *)

AnyOf(s) == CHOOSE x \in s : TRUE

\* h sums f over every subset of S, taking one element at a time.
IsSum(h, f, S) ==
    h = [s \in SUBSET S |-> IF s = {} THEN 0 ELSE f[AnyOf(s)] + h[s \ {AnyOf(s)}]]

\* The sum of the values of f over S.
SumOver(f, S) == MapThenSumSet(LAMBDA x : f[x], S)

\* The element MapThenSumSet takes first is one of the set.
LEMMA AnyOfFact == \A s : s # {} => AnyOf(s) \in s
  BY Zenon DEF AnyOf

\* Such a function exists.
LEMMA SumExists ==
    ASSUME NEW S, IsFiniteSet(S), NEW f \in [S -> Int]
    PROVE  \E h \in [SUBSET S -> Int] : IsSum(h, f, S)
<1> DEFINE Step(h, s) == IF s = {} THEN 0 ELSE f[AnyOf(s)] + h[s \ {AnyOf(s)}]
           Upto(h, n) == \A s \in SUBSET S : Cardinality(s) <= n => h[s] = Step(h, s)
           Good == {n \in Nat : \E h \in [SUBSET S -> Int] : Upto(h, n)}
<1>1. \A s \in SUBSET S : IsFiniteSet(s) /\ Cardinality(s) \in Nat
  BY FS_Subset, FS_CardinalityType
<1>2. 0 \in Good
  <2>1. \A s \in SUBSET S : Cardinality(s) <= 0 => s = {}
    BY <1>1, FS_EmptySet
  <2>2. Upto([s \in SUBSET S |-> 0], 0)
    BY <2>1
  <2>3. [s \in SUBSET S |-> 0] \in [SUBSET S -> Int]
    OBVIOUS
  <2> HIDE DEF Upto
  <2> QED BY <2>2, <2>3
<1>3. \A n \in Nat : n \in Good => n + 1 \in Good
  <2> SUFFICES ASSUME NEW n \in Nat, NEW h \in [SUBSET S -> Int], Upto(h, n)
               PROVE  n + 1 \in Good
    OBVIOUS
  <2> DEFINE g == [s \in SUBSET S |-> IF Cardinality(s) <= n THEN h[s] ELSE Step(h, s)]
  <2>1. \A s \in SUBSET S : s # {} => /\ AnyOf(s) \in S /\ s \ {AnyOf(s)} \in SUBSET S
                                      /\ Cardinality(s \ {AnyOf(s)}) = Cardinality(s) - 1
    BY <1>1, AnyOfFact, FS_RemoveElement
  <2>2. g \in [SUBSET S -> Int]
    BY <2>1
  <2>3. Upto(g, n + 1)
    <3> SUFFICES ASSUME NEW s \in SUBSET S, Cardinality(s) <= n + 1
                 PROVE  g[s] = Step(g, s)
      BY Zenon
    <3>1. g[s] = Step(h, s)
      BY Zenon
    <3>2. CASE s = {}
      BY <3>1, <3>2
    <3>3. CASE s # {}
      <4>1. /\ s \ {AnyOf(s)} \in SUBSET S
            /\ Cardinality(s \ {AnyOf(s)}) <= n
        BY <1>1, <2>1, <3>3
      <4>2. g[s \ {AnyOf(s)}] = h[s \ {AnyOf(s)}]
        BY <4>1
      <4> QED BY <3>1, <3>3, <4>2
    <3> QED BY <3>2, <3>3
  <2> HIDE DEF Upto, g
  <2> QED BY <2>2, <2>3
<1>4. \A n \in Nat : n \in Good
  <2> HIDE DEF Good
  <2> QED BY <1>2, <1>3, SetInduction
<1>5. PICK h \in [SUBSET S -> Int] : Upto(h, Cardinality(S))
  BY <1>1, <1>4
<1>6. \A s \in SUBSET S : Cardinality(s) <= Cardinality(S)
  BY FS_Subset
<1>7. \A s \in SUBSET S : h[s] = Step(h, s)
  BY <1>5, <1>6
<1>8. h = [s \in SUBSET S |-> Step(h, s)]
  <2> HIDE DEF Step
  <2> QED BY <1>7
<1> QED BY <1>8 DEF IsSum

\* A sum of two functions that agree on S is the same, whichever sets the two
\* recursions started from.
LEMMA SumUnique ==
    ASSUME NEW S, IsFiniteSet(S), NEW f, NEW g, NEW A, NEW B, NEW h, NEW k,
           S \subseteq A, S \subseteq B, \A x \in S : f[x] = g[x],
           IsSum(h, f, A), IsSum(k, g, B)
    PROVE  h[S] = k[S]
<1> DEFINE T == {s \in SUBSET S : h[s] = k[s]}
<1>1. \A s \in SUBSET S :
        /\ h[s] = IF s = {} THEN 0 ELSE f[AnyOf(s)] + h[s \ {AnyOf(s)}]
        /\ k[s] = IF s = {} THEN 0 ELSE g[AnyOf(s)] + k[s \ {AnyOf(s)}]
  BY DEF IsSum
<1>2. {} \in T
  BY <1>1
<1>3. \A s \in SUBSET S : (\A x \in s : s \ {x} \in T) => s \in T
  <2> SUFFICES ASSUME NEW s \in SUBSET S, \A x \in s : s \ {x} \in T
               PROVE  h[s] = k[s]
    OBVIOUS
  <2>1. CASE s = {}
    BY <1>1, <2>1
  <2>2. CASE s # {}
    <3>1. AnyOf(s) \in s /\ AnyOf(s) \in S /\ s \ {AnyOf(s)} \in T
      BY <2>2, AnyOfFact
    <3> QED BY <1>1, <2>2, <3>1
  <2> QED BY <2>1, <2>2
<1>4. \A s \in SUBSET S : s \in T
  <2> HIDE DEF T
  <2> QED BY <1>2, <1>3, CardinalityInduction
<1> QED BY <1>4

\* Any element may be summed first.
LEMMA SumAnyFirst ==
    ASSUME NEW S, IsFiniteSet(S), NEW f, \A x \in S : f[x] \in Int,
           NEW h, \A s \in SUBSET S : h[s] \in Int, IsSum(h, f, S),
           NEW r \in SUBSET S, NEW a \in r
    PROVE  h[r] = f[a] + h[r \ {a}]
<1> DEFINE T == {s \in SUBSET S : \A x \in s : h[s] = f[x] + h[s \ {x}]}
<1>1. \A s \in SUBSET S :
        s # {} => /\ AnyOf(s) \in s
                  /\ h[s] = f[AnyOf(s)] + h[s \ {AnyOf(s)}]
  BY AnyOfFact DEF IsSum
<1>2. {} \in T
  OBVIOUS
<1>3. \A s \in SUBSET S : (\A x \in s : s \ {x} \in T) => s \in T
  <2> SUFFICES ASSUME NEW s \in SUBSET S, \A y \in s : s \ {y} \in T,
                      NEW x \in s
               PROVE  h[s] = f[x] + h[s \ {x}]
    OBVIOUS
  <2> DEFINE p == AnyOf(s)
  <2>1. p \in s /\ h[s] = f[p] + h[s \ {p}]
    BY <1>1
  <2> HIDE DEF p
  <2>2. CASE x = p
    BY <2>1, <2>2
  <2>3. CASE x # p
    <3>1. h[s \ {p}] = f[x] + h[(s \ {p}) \ {x}]
      BY <2>1, <2>3
    <3>2. h[s \ {x}] = f[p] + h[(s \ {x}) \ {p}]
      BY <2>1, <2>3
    <3>3. (s \ {p}) \ {x} = (s \ {x}) \ {p}
      OBVIOUS
    <3>4. /\ f[x] \in Int /\ f[p] \in Int
          /\ h[(s \ {p}) \ {x}] \in Int
      BY <2>1
    <3> HIDE DEF T
    <3>5. h[s] = f[p] + (f[x] + h[(s \ {p}) \ {x}])
      BY <2>1, <3>1
    <3>6. h[s \ {x}] = f[p] + h[(s \ {p}) \ {x}]
      BY <3>2, <3>3
    <3> QED BY <3>4, <3>5, <3>6
  <2> QED BY <2>2, <2>3
<1>4. \A s \in SUBSET S : s \in T
  <2> HIDE DEF T
  <2> QED BY <1>2, <1>3, CardinalityInduction
<1> QED BY <1>4

-----------------------------------------------------------------------------
(* What the proofs about the models cite *)

\* MapThenSumSet is such a function, applied to the whole set.
LEMMA SumIsSum ==
    ASSUME NEW S, IsFiniteSet(S), NEW f, \A x \in S : f[x] \in Int
    PROVE  \E h \in [SUBSET S -> Int] : IsSum(h, f, S) /\ SumOver(f, S) = h[S]
<1> DEFINE g == [x \in S |-> f[x]]
<1>1. PICK h \in [SUBSET S -> Int] : IsSum(h, g, S)
  BY SumExists
<1>2. IsSum(h, f, S)
  <2>1. \A s \in SUBSET S : s # {} => g[AnyOf(s)] = f[AnyOf(s)]
    BY AnyOfFact
  <2>2. h = [s \in SUBSET S |-> IF s = {} THEN 0 ELSE g[AnyOf(s)] + h[s \ {AnyOf(s)}]]
    BY <1>1 DEF IsSum
  <2> HIDE DEF g
  <2> QED BY <2>1, <2>2 DEF IsSum
<1> DEFINE k == CHOOSE k : IsSum(k, f, S)
<1>3. IsSum(k, f, S)
  BY <1>2
<1>4. SumOver(f, S) = k[S]
  BY DEF SumOver, MapThenSumSet, MapThenFoldSet, IsSum, AnyOf
<1> HIDE DEF k
<1>5. k = h
  <2>1. \A s \in SUBSET S : IsFiniteSet(s)
    BY FS_Subset
  <2>2. \A s \in SUBSET S : k[s] = h[s]
    BY <1>2, <1>3, <2>1, SumUnique
  <2>3. /\ k = [s \in SUBSET S |-> k[s]]
        /\ h = [s \in SUBSET S |-> h[s]]
    BY <1>2, <1>3 DEF IsSum
  <2> QED BY <2>2, <2>3
<1> QED BY <1>3, <1>4, <1>5

\* The sum of nothing.
LEMMA SumEmpty == \A f : SumOver(f, {}) = 0
<1> SUFFICES ASSUME NEW f PROVE SumOver(f, {}) = 0
  OBVIOUS
<1>1. PICK h : IsSum(h, f, {}) /\ SumOver(f, {}) = h[{}]
  BY SumIsSum, FS_EmptySet
<1> QED BY <1>1 DEF IsSum

\* A sum of integers is an integer.
LEMMA SumType ==
    ASSUME NEW S, IsFiniteSet(S), NEW f, \A x \in S : f[x] \in Int
    PROVE  SumOver(f, S) \in Int
<1>1. PICK h \in [SUBSET S -> Int] : SumOver(f, S) = h[S]
  BY SumIsSum
<1> QED BY <1>1

\* Only the summed values matter.
LEMMA SumSame ==
    ASSUME NEW S, IsFiniteSet(S), NEW f, NEW g, \A x \in S : f[x] \in Int,
           \A x \in S : f[x] = g[x]
    PROVE  SumOver(f, S) = SumOver(g, S)
<1>1. PICK h : IsSum(h, f, S) /\ SumOver(f, S) = h[S]
  BY SumIsSum
<1>2. PICK k : IsSum(k, g, S) /\ SumOver(g, S) = k[S]
  BY SumIsSum
<1> QED BY <1>1, <1>2, SumUnique

\* Any element may be split off.
LEMMA SumSplit ==
    ASSUME NEW S, IsFiniteSet(S), NEW f, \A y \in S : f[y] \in Int, NEW x \in S
    PROVE  SumOver(f, S) = f[x] + SumOver(f, S \ {x})
<1>1. PICK h \in [SUBSET S -> Int] : IsSum(h, f, S) /\ SumOver(f, S) = h[S]
  BY SumIsSum
<1>2. IsFiniteSet(S \ {x})
  BY FS_Subset
<1>3. PICK k : IsSum(k, f, S \ {x}) /\ SumOver(f, S \ {x}) = k[S \ {x}]
  BY <1>2, SumIsSum
<1>4. h[S \ {x}] = k[S \ {x}]
  BY <1>1, <1>2, <1>3, SumUnique
<1>5. h[S] = f[x] + h[S \ {x}]
  <2>1. IsSum(h, f, S) /\ \A s \in SUBSET S : h[s] \in Int
    BY <1>1
  <2>2. S \in SUBSET S
    OBVIOUS
  <2> QED BY <2>1, <2>2, SumAnyFirst
<1> QED BY <1>1, <1>3, <1>4, <1>5

\* One value of the sum changes.
LEMMA SumChange ==
    ASSUME NEW S, IsFiniteSet(S), NEW f, NEW g, NEW x \in S,
           \A y \in S : f[y] \in Int /\ g[y] \in Int,
           \A y \in S \ {x} : g[y] = f[y]
    PROVE  SumOver(g, S) = SumOver(f, S) + g[x] - f[x]
<1>1. IsFiniteSet(S \ {x})
  BY FS_Subset
<1>2. /\ SumOver(f, S) = f[x] + SumOver(f, S \ {x})
      /\ SumOver(g, S) = g[x] + SumOver(g, S \ {x})
  BY SumSplit
<1>3. SumOver(g, S \ {x}) = SumOver(f, S \ {x})
  BY <1>1, SumSame
<1>4. SumOver(f, S \ {x}) \in Int
  BY <1>1, SumType
<1> QED BY <1>2, <1>3, <1>4

-----------------------------------------------------------------------------
(* The same for SumFunction, the sum of all the values of a function *)

\* SumFunction sums over the domain.
LEMMA FunctionSum == \A f : SumFunction(f) = SumOver(f, DOMAIN f)
  BY DEF SumFunction, SumFunctionOnSet, FoldFunctionOnSet, SumOver, MapThenSumSet

\* Nothing adds up to nothing.
LEMMA FunctionSumEmpty == \A f : DOMAIN f = {} => SumFunction(f) = 0
  BY FunctionSum, SumEmpty

\* A sum of integers is an integer.
LEMMA FunctionSumType ==
    ASSUME NEW S, IsFiniteSet(S), NEW f \in [S -> Int]
    PROVE  SumFunction(f) \in Int
<1>1. DOMAIN f = S /\ \A x \in S : f[x] \in Int
  OBVIOUS
<1>2. SumOver(f, S) \in Int
  BY <1>1, SumType
<1> QED BY <1>1, <1>2, FunctionSum

\* A sum of natural numbers is one.
LEMMA FunctionSumNat ==
    ASSUME NEW S, IsFiniteSet(S), NEW f \in [S -> Nat]
    PROVE  SumFunction(f) \in Nat
<1> DEFINE T == {s \in SUBSET S : SumOver(f, s) \in Nat}
<1>1. {} \in T
  BY SumEmpty
<1>2. \A s \in SUBSET S : (\A x \in s : s \ {x} \in T) => s \in T
  <2> SUFFICES ASSUME NEW s \in SUBSET S, \A x \in s : s \ {x} \in T, s # {}
               PROVE  s \in T
    BY <1>1
  <2>1. PICK x \in s : TRUE
    OBVIOUS
  <2>2. IsFiniteSet(s) /\ \A y \in s : f[y] \in Int
    BY FS_Subset
  <2>3. SumOver(f, s) = f[x] + SumOver(f, s \ {x})
    BY <2>2, SumSplit
  <2>4. SumOver(f, s \ {x}) \in Nat /\ f[x] \in Nat
    OBVIOUS
  <2> QED BY <2>3, <2>4
<1>3. \A s \in SUBSET S : s \in T
  <2> HIDE DEF T
  <2> QED BY <1>1, <1>2, CardinalityInduction
<1> QED BY <1>3, FunctionSum

\* One more value.
LEMMA FunctionSumOneMore ==
    ASSUME NEW S, IsFiniteSet(S), NEW x, x \notin S,
           NEW f \in [S -> Int], NEW g \in [S \cup {x} -> Int],
           \A y \in S : g[y] = f[y]
    PROVE  SumFunction(g) = SumFunction(f) + g[x]
<1>1. IsFiniteSet(S \cup {x}) /\ (S \cup {x}) \ {x} = S
  BY FS_AddElement
<1>2. SumOver(g, S \cup {x}) = g[x] + SumOver(g, S)
  <2>1. \A y \in S \cup {x} : g[y] \in Int
    OBVIOUS
  <2> QED BY <1>1, <2>1, SumSplit
<1>3. SumOver(g, S) = SumOver(f, S)
  <2>1. \A y \in S : g[y] \in Int
    OBVIOUS
  <2> QED BY <2>1, SumSame
<1>4. SumOver(f, S) \in Int
  BY SumType
<1>5. SumFunction(f) = SumOver(f, S) /\ SumFunction(g) = SumOver(g, S \cup {x})
  BY FunctionSum
<1> QED BY <1>2, <1>3, <1>4, <1>5

\* A single value is its own sum.
LEMMA FunctionSumOne ==
    ASSUME NEW x, NEW f \in [{x} -> Int]
    PROVE  SumFunction(f) = f[x]
<1>1. IsFiniteSet({x}) /\ {x} \ {x} = {}
  BY FS_Singleton
<1>2. SumOver(f, {x}) = f[x] + SumOver(f, {})
  <2>1. \A y \in {x} : f[y] \in Int
    OBVIOUS
  <2> QED BY <1>1, <2>1, SumSplit
<1> QED BY <1>2, SumEmpty, FunctionSum

\* Zeros add up to zero.
LEMMA SumZero ==
    ASSUME NEW S, IsFiniteSet(S), NEW f, \A x \in S : f[x] = 0
    PROVE  SumOver(f, S) = 0
<1> DEFINE T == {s \in SUBSET S : SumOver(f, s) = 0}
<1>1. {} \in T
  BY SumEmpty
<1>2. \A s \in SUBSET S : (\A x \in s : s \ {x} \in T) => s \in T
  <2> SUFFICES ASSUME NEW s \in SUBSET S, \A x \in s : s \ {x} \in T, s # {}
               PROVE  s \in T
    BY <1>1
  <2>1. PICK x \in s : TRUE
    OBVIOUS
  <2>2. IsFiniteSet(s) /\ \A y \in s : f[y] \in Int
    BY FS_Subset
  <2>3. SumOver(f, s) = f[x] + SumOver(f, s \ {x})
    BY <2>2, SumSplit
  <2>4. SumOver(f, s \ {x}) = 0 /\ f[x] = 0
    OBVIOUS
  <2> QED BY <2>3, <2>4
<1>3. \A s \in SUBSET S : s \in T
  <2> HIDE DEF T
  <2> QED BY <1>1, <1>2, CardinalityInduction
<1> QED BY <1>3

\* All but one of the values are zero.
LEMMA FunctionSumOnlyOne ==
    ASSUME NEW S, IsFiniteSet(S), NEW f \in [S -> Int], NEW x \in S, \A y \in S \ {x} : f[y] = 0
    PROVE  SumFunction(f) = f[x]
<1>1. SumOver(f, S) = f[x] + SumOver(f, S \ {x})
  <2>1. \A y \in S : f[y] \in Int
    OBVIOUS
  <2> QED BY <2>1, SumSplit
<1>2. SumOver(f, S \ {x}) = 0
  <2>1. IsFiniteSet(S \ {x})
    BY FS_Subset
  <2> QED BY <2>1, SumZero
<1>3. SumFunction(f) = SumOver(f, S)
  BY FunctionSum
<1> QED BY <1>1, <1>2, <1>3

\* The sum of a difference.
LEMMA SumDifference ==
    ASSUME NEW S, IsFiniteSet(S), NEW f, NEW g, NEW h,
           \A x \in S : g[x] \in Int /\ h[x] \in Int /\ f[x] = g[x] - h[x]
    PROVE  SumOver(f, S) = SumOver(g, S) - SumOver(h, S)
<1> DEFINE T == {s \in SUBSET S : SumOver(f, s) = SumOver(g, s) - SumOver(h, s)}
<1>1. {} \in T
  BY SumEmpty
<1>2. \A s \in SUBSET S : (\A x \in s : s \ {x} \in T) => s \in T
  <2> SUFFICES ASSUME NEW s \in SUBSET S, \A x \in s : s \ {x} \in T, s # {}
               PROVE  s \in T
    BY <1>1
  <2>1. PICK x \in s : TRUE
    OBVIOUS
  <2>2. /\ IsFiniteSet(s) /\ IsFiniteSet(s \ {x})
        /\ \A y \in s : f[y] \in Int /\ g[y] \in Int /\ h[y] \in Int
    BY FS_Subset
  <2>3. /\ SumOver(f, s) = f[x] + SumOver(f, s \ {x})
        /\ SumOver(g, s) = g[x] + SumOver(g, s \ {x})
        /\ SumOver(h, s) = h[x] + SumOver(h, s \ {x})
    BY <2>1, <2>2, SumSplit
  <2>4. SumOver(g, s \ {x}) \in Int /\ SumOver(h, s \ {x}) \in Int
    BY <2>2, SumType
  <2>5. SumOver(f, s \ {x}) = SumOver(g, s \ {x}) - SumOver(h, s \ {x})
    BY <2>1
  <2>6. f[x] = g[x] - h[x] /\ g[x] \in Int /\ h[x] \in Int
    BY <2>1
  <2> QED BY <2>3, <2>4, <2>5, <2>6
<1>3. \A s \in SUBSET S : s \in T
  <2> HIDE DEF T
  <2> QED BY <1>1, <1>2, CardinalityInduction
<1> QED BY <1>3

\* The sum over a part of a set is what the values outside of it leave.
LEMMA SumPart ==
    ASSUME NEW S, IsFiniteSet(S), NEW A \in SUBSET S, NEW f, \A x \in S : f[x] \in Int
    PROVE  SumOver(f, S) = SumOver(f, A) + SumOver(f, S \ A)
<1> DEFINE T == {s \in SUBSET S : SumOver(f, s) = SumOver(f, s \cap A) + SumOver(f, s \ A)}
<1>1. {} \in T
  <2>1. {} \cap A = {} /\ {} \ A = {}
    OBVIOUS
  <2>2. SumOver(f, {}) = 0
    BY SumEmpty
  <2> QED BY <2>1, <2>2
<1>2. \A s \in SUBSET S : (\A x \in s : s \ {x} \in T) => s \in T
  <2> SUFFICES ASSUME NEW s \in SUBSET S, \A x \in s : s \ {x} \in T, s # {}
               PROVE  s \in T
    BY <1>1
  <2>1. PICK x \in s : TRUE
    OBVIOUS
  <2>2. /\ IsFiniteSet(s) /\ IsFiniteSet(s \cap A) /\ IsFiniteSet(s \ A)
        /\ \A y \in s : f[y] \in Int
    BY FS_Subset
  <2>3. SumOver(f, s) = f[x] + SumOver(f, s \ {x})
    BY <2>1, <2>2, SumSplit
  <2>4. SumOver(f, s \ {x}) = SumOver(f, (s \ {x}) \cap A) + SumOver(f, (s \ {x}) \ A)
    BY <2>1
  <2>5. SumOver(f, s \cap A) \in Int /\ SumOver(f, s \ A) \in Int /\ f[x] \in Int
    BY <2>1, <2>2, SumType
  <2>6. CASE x \in A
    <3>1. (s \ {x}) \ A = s \ A /\ (s \ {x}) \cap A = (s \cap A) \ {x} /\ x \in s \cap A
      BY <2>1, <2>6
    <3>2. SumOver(f, s \cap A) = f[x] + SumOver(f, (s \cap A) \ {x})
      BY <2>2, <3>1, SumSplit
    <3>3. SumOver(f, (s \cap A) \ {x}) \in Int
      <4>1. IsFiniteSet((s \cap A) \ {x})
        BY <2>2, FS_Subset
      <4> QED BY <2>2, <4>1, SumType
    <3>4. SumOver(f, s \ {x}) = SumOver(f, (s \cap A) \ {x}) + SumOver(f, s \ A)
      BY <2>4, <3>1, Zenon
    <3>5. SumOver(f, s) = SumOver(f, s \cap A) + SumOver(f, s \ A)
      BY <2>3, <2>5, <3>2, <3>3, <3>4
    <3> QED BY <3>5
  <2>7. CASE x \notin A
    <3>1. (s \ {x}) \cap A = s \cap A /\ (s \ {x}) \ A = (s \ A) \ {x} /\ x \in s \ A
      BY <2>1, <2>7
    <3>2. SumOver(f, s \ A) = f[x] + SumOver(f, (s \ A) \ {x})
      BY <2>2, <3>1, SumSplit
    <3>3. SumOver(f, (s \ A) \ {x}) \in Int
      <4>1. IsFiniteSet((s \ A) \ {x})
        BY <2>2, FS_Subset
      <4> QED BY <2>2, <4>1, SumType
    <3>4. SumOver(f, s \ {x}) = SumOver(f, s \cap A) + SumOver(f, (s \ A) \ {x})
      BY <2>4, <3>1, Zenon
    <3>5. SumOver(f, s) = SumOver(f, s \cap A) + SumOver(f, s \ A)
      BY <2>3, <2>5, <3>2, <3>3, <3>4
    <3> QED BY <3>5
  <2> QED BY <2>6, <2>7
<1>3. \A s \in SUBSET S : s \in T
  <2> HIDE DEF T
  <2> QED BY <1>1, <1>2, CardinalityInduction
<1>4. S \cap A = A /\ S \in SUBSET S
  OBVIOUS
<1> QED BY <1>3, <1>4

\* Zeros need not be summed.
LEMMA SumOfRest ==
    ASSUME NEW S, IsFiniteSet(S), NEW A \in SUBSET S, NEW f, \A x \in S : f[x] \in Int,
           \A x \in S \ A : f[x] = 0
    PROVE  SumOver(f, A) = SumOver(f, S)
<1>1. SumOver(f, S) = SumOver(f, A) + SumOver(f, S \ A)
  BY SumPart
<1>2. SumOver(f, S \ A) = 0
  <2>1. IsFiniteSet(S \ A)
    BY FS_Subset
  <2> QED BY <2>1, SumZero
<1>3. SumOver(f, A) \in Int
  <2>1. IsFiniteSet(A) /\ \A x \in A : f[x] \in Int
    BY FS_Subset
  <2> QED BY <2>1, SumType
<1> QED BY <1>1, <1>2, <1>3

=============================================================================
