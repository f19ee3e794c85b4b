----------------------------- MODULE SumTheorems -----------------------------
(***************************************************************************)
(* What the proofs need to know of SumFunction: a sum of naturals is a     *)
(* natural, a sum changes by what one of its terms changes by, and it      *)
(* grows by the term that is added.                                        *)
(*                                                                         *)
(* SumFunction is a recursive function on the subsets of the domain that   *)
(* takes out an arbitrary element at a time.  The facts are proved by      *)
(* induction on subsets of a finite set, in the form: among the subsets    *)
(* that violate a claim, a smallest one.                                   *)
(***************************************************************************)
EXTENDS Integers, Sequences, FiniteSets, Functions, FiniteSetTheorems,
        WellFoundedInduction, TLAPS

\* The induction: a non-empty set of subsets of a finite set has a member with
\* no other member inside.
LEMMA SmallestSubset ==
  ASSUME NEW D, IsFiniteSet(D), NEW Bad, Bad \subseteq SUBSET D, Bad # {}
  PROVE  \E T \in Bad : \A U \in Bad : U \subseteq T => U = T
<1>1. IsWellFoundedOn(StrictSubsetOrdering(D), FiniteSubsetsOf(D))
  BY FS_StrictSubsetOrderingWellFounded
<1>2. FiniteSubsetsOf(D) = SUBSET D
  BY FS_FiniteSubsetsOfFinite
<1>3. IsWellFoundedOn(StrictSubsetOrdering(D), SUBSET D)
  BY <1>1, <1>2
<1>4. PICK T \in Bad : \A U \in Bad : ~ (<<U, T>> \in StrictSubsetOrdering(D))
  BY <1>3, WFMin
<1>5. ASSUME NEW U \in Bad, U \subseteq T, U # T PROVE FALSE
  <2>1. U \in SUBSET D /\ T \in SUBSET D OBVIOUS
  <2>2. <<U, T>> \in StrictSubsetOrdering(D)
    BY <2>1, <1>5 DEF StrictSubsetOrdering
  <2> QED BY <2>2, <1>4, <1>5
<1> QED BY <1>5

-----------------------------------------------------------------------------
(* The recursive function behind the sum *)

Pick(s) == CHOOSE x \in s : TRUE

IsPartialSum(f, R, iter) ==
    iter = [s \in R |-> IF s = {} THEN 0
                        ELSE f[Pick(s)] + iter[s \ {Pick(s)}]]

PartialSums(f, D) == CHOOSE iter : IsPartialSum(f, SUBSET D, iter)

\* An element is taken out of a set that has one.
LEMMA PickIn == \A s : s # {} => Pick(s) \in s
  BY DEF Pick

\* A sum is the partial sum over the whole domain.
LEMMA SumIsPartialSum ==
  ASSUME NEW f
  PROVE  SumFunction(f) = PartialSums(f, DOMAIN f)[DOMAIN f]
  BY DEF SumFunction, SumFunctionOnSet, FoldFunctionOnSet, MapThenFoldSet,
         PartialSums, IsPartialSum, Pick

\* The subsets with at most n elements.
UpTo(D, n) == {s \in SUBSET D : Cardinality(s) <= n}

\* Taking an element out of a subset leaves one with one element less.
LEMMA TakeOut ==
  ASSUME NEW D, IsFiniteSet(D), NEW s \in SUBSET D, s # {}
  PROVE  /\ Pick(s) \in s
         /\ s \ {Pick(s)} \in SUBSET D
         /\ Cardinality(s) \in Nat
         /\ Cardinality(s \ {Pick(s)}) = Cardinality(s) - 1
<1>1. Pick(s) \in s BY PickIn
<1>2. IsFiniteSet(s) BY FS_Subset
<1> QED BY <1>1, <1>2, FS_RemoveElement, FS_CardinalityType

\* One more level of the recursion.
LEMMA NextLevel ==
  ASSUME NEW f, NEW D, IsFiniteSet(D), NEW n \in Nat, NEW g,
         IsPartialSum(f, UpTo(D, n), g)
  PROVE  \E h : IsPartialSum(f, UpTo(D, n + 1), h)
<1> DEFINE h == [s \in UpTo(D, n + 1) |->
                   IF s = {} THEN 0 ELSE f[Pick(s)] + g[s \ {Pick(s)}]]
<1>1. ASSUME NEW s \in UpTo(D, n + 1), s # {}
      PROVE  h[s \ {Pick(s)}] = g[s \ {Pick(s)}]
  <2> DEFINE u == s \ {Pick(s)}
  <2>1. s \in SUBSET D /\ Cardinality(s) <= n + 1 BY <1>1 DEF UpTo
  <2>2. /\ u \in SUBSET D
        /\ Cardinality(s) \in Nat
        /\ Cardinality(u) = Cardinality(s) - 1
    BY <2>1, <1>1, TakeOut
  <2>3. u \in UpTo(D, n) /\ u \in UpTo(D, n + 1)
    BY <2>1, <2>2 DEF UpTo
  <2>4. g[u] = IF u = {} THEN 0 ELSE f[Pick(u)] + g[u \ {Pick(u)}]
    BY <2>3 DEF IsPartialSum
  <2>5. h[u] = IF u = {} THEN 0 ELSE f[Pick(u)] + g[u \ {Pick(u)}]
    BY <2>3
  <2> QED BY <2>4, <2>5
<1>2. h = [s \in UpTo(D, n + 1) |-> IF s = {} THEN 0
                                    ELSE f[Pick(s)] + h[s \ {Pick(s)}]]
  BY <1>1
<1> QED BY <1>2 DEF IsPartialSum

\* No set of numbers lacks a smallest one.
LEMMA SmallestNumber ==
  ASSUME NEW Bad, Bad \subseteq Nat, Bad # {}
  PROVE  \E n \in Bad : \A m \in Bad : n <= m
<1> DEFINE Less == {p \in Nat \X Nat : p[1] < p[2]}
<1>1. IsWellFoundedOn(Less, Nat)
  BY NatLessThanWellFounded DEF OpToRel
<1> HIDE DEF Less
<1>2. PICK n \in Bad : \A m \in Bad : ~ (<<m, n>> \in Less)
  BY <1>1, WFMin
<1>3. ASSUME NEW m \in Bad PROVE n <= m
  <2>1. m \in Nat /\ n \in Nat OBVIOUS
  <2>2. m < n => <<m, n>> \in Less BY <2>1 DEF Less
  <2>3. ~ (m < n) BY <2>2, <1>2
  <2> QED BY <2>1, <2>3
<1> QED BY <1>3

\* There are partial sums up to every number of elements.
LEMMA LevelsExist ==
  ASSUME NEW f, NEW D, IsFiniteSet(D), NEW n \in Nat
  PROVE  \E g : IsPartialSum(f, UpTo(D, n), g)
<1> DEFINE Good(m) == \E g : IsPartialSum(f, UpTo(D, m), g)
           Bad == {m \in Nat : ~ Good(m)}
<1> SUFFICES ASSUME Bad # {} PROVE FALSE OBVIOUS
<1>1. PICK m \in Bad : \A k \in Bad : m <= k
  <2>1. Bad \subseteq Nat OBVIOUS
  <2> HIDE DEF Bad
  <2> QED BY <2>1, SmallestNumber
<1>2. CASE m = 0
  <2> DEFINE g == [s \in UpTo(D, 0) |-> 0]
  <2>1. ASSUME NEW s \in UpTo(D, 0) PROVE s = {}
    <3>1. IsFiniteSet(s) /\ s \in SUBSET D /\ Cardinality(s) <= 0
      BY FS_Subset DEF UpTo
    <3>2. Cardinality(s) = 0 BY <3>1, FS_CardinalityType
    <3> QED BY <3>1, <3>2, FS_EmptySet
  <2>2. g = [s \in UpTo(D, 0) |-> IF s = {} THEN 0
                                  ELSE f[Pick(s)] + g[s \ {Pick(s)}]]
    BY <2>1
  <2> QED BY <1>2, <2>2 DEF IsPartialSum
<1>3. CASE m # 0
  <2>1. m - 1 \in Nat /\ m = (m - 1) + 1 /\ ~ (m <= m - 1) BY <1>3
  <2>2. Good(m - 1) BY <2>1, <1>1
  <2>3. Good((m - 1) + 1) BY <2>1, <2>2, NextLevel
  <2>4. Good(m) BY <2>1, <2>3
  <2> QED BY <2>4
<1> QED BY <1>2, <1>3

Unfolds(f, D, P) ==
    \A s \in SUBSET D :
        P[s] = IF s = {} THEN 0 ELSE f[Pick(s)] + P[s \ {Pick(s)}]

\* The function that SumFunction is defined by exists.
LEMMA PartialSumsDef ==
  ASSUME NEW f, NEW D, IsFiniteSet(D)
  PROVE  Unfolds(f, D, PartialSums(f, D))
<1>1. Cardinality(D) \in Nat BY FS_CardinalityType
<1>2. \E g : IsPartialSum(f, UpTo(D, Cardinality(D)), g) BY <1>1, LevelsExist
<1>3. \A s \in SUBSET D : Cardinality(s) <= Cardinality(D) BY FS_Subset
<1>4. UpTo(D, Cardinality(D)) = SUBSET D BY <1>3 DEF UpTo
<1>5. \E g : IsPartialSum(f, SUBSET D, g) BY <1>2, <1>4
<1>6. IsPartialSum(f, SUBSET D, PartialSums(f, D)) BY <1>5 DEF PartialSums
<1> DEFINE P == PartialSums(f, D)
<1>7. P = [s \in SUBSET D |-> IF s = {} THEN 0 ELSE f[Pick(s)] + P[s \ {Pick(s)}]]
  BY <1>6 DEF IsPartialSum
<1> HIDE DEF P
<1>8. \A s \in SUBSET D : P[s] = IF s = {} THEN 0 ELSE f[Pick(s)] + P[s \ {Pick(s)}]
  BY <1>7
<1> QED BY <1>8 DEF P, Unfolds

\* Partial sums of integers are integers.
LEMMA PartialSumsType ==
  ASSUME NEW D, IsFiniteSet(D), NEW f \in [D -> Int]
  PROVE  \A s \in SUBSET D : PartialSums(f, D)[s] \in Int
<1> DEFINE P == PartialSums(f, D)
           Bad == {s \in SUBSET D : P[s] \notin Int}
<1>0. Unfolds(f, D, P) BY PartialSumsDef
<1> SUFFICES ASSUME Bad # {} PROVE FALSE OBVIOUS
<1>1. PICK s \in Bad : \A u \in Bad : u \subseteq s => u = s
  <2>1. Bad \subseteq SUBSET D OBVIOUS
  <2> HIDE DEF Bad
  <2> QED BY <2>1, SmallestSubset
<1>2. P[s] = IF s = {} THEN 0 ELSE f[Pick(s)] + P[s \ {Pick(s)}]
  BY <1>0 DEF Unfolds
<1> HIDE DEF P
<1>3. s # {} BY <1>2
<1>4. Pick(s) \in s BY <1>3, PickIn
<1>5. P[s \ {Pick(s)}] \in Int
  <2>1. s \ {Pick(s)} \in SUBSET D /\ s \ {Pick(s)} # s BY <1>4
  <2> QED BY <2>1, <1>1
<1>6. f[Pick(s)] \in Int BY <1>4
<1> QED BY <1>2, <1>3, <1>5, <1>6

\* Whichever element is taken out first: the order does not matter.
LEMMA TakeAny ==
  ASSUME NEW D, IsFiniteSet(D), NEW f \in [D -> Int]
  PROVE  \A s \in SUBSET D : \A x \in s :
           PartialSums(f, D)[s] = f[x] + PartialSums(f, D)[s \ {x}]
<1> DEFINE P == PartialSums(f, D)
           Holds(s) == \A x \in s : P[s] = f[x] + P[s \ {x}]
           Bad == {s \in SUBSET D : ~ Holds(s)}
<1> SUFFICES ASSUME Bad # {} PROVE FALSE OBVIOUS
<1>1. PICK s \in Bad : \A u \in Bad : u \subseteq s => u = s
  <2>1. Bad \subseteq SUBSET D OBVIOUS
  <2> HIDE DEF Bad
  <2> QED BY <2>1, SmallestSubset
<1>2. \A u \in SUBSET D : P[u] = IF u = {} THEN 0 ELSE f[Pick(u)] + P[u \ {Pick(u)}]
  <2>1. Unfolds(f, D, P) BY PartialSumsDef
  <2> QED BY <2>1 DEF Unfolds
<1>3. \A u \in SUBSET D : P[u] \in Int BY PartialSumsType
<1> HIDE DEF P
<1>4. PICK x \in s : P[s] # f[x] + P[s \ {x}] OBVIOUS
<1> DEFINE c == Pick(s)
<1>5. c \in s /\ P[s] = f[c] + P[s \ {c}] BY <1>2, PickIn
<1> HIDE DEF c
<1>6. c # x BY <1>4, <1>5
<1>7. ASSUME NEW u \in SUBSET D, u \subseteq s, u # s PROVE Holds(u)
  BY <1>1, <1>7
<1>8. P[s \ {c}] = f[x] + P[(s \ {c}) \ {x}]
  <2>1. s \ {c} \in SUBSET D /\ s \ {c} # s /\ x \in s \ {c} BY <1>5, <1>6
  <2> QED BY <2>1, <1>7
<1>9. P[s \ {x}] = f[c] + P[(s \ {x}) \ {c}]
  <2>1. s \ {x} \in SUBSET D /\ s \ {x} # s /\ c \in s \ {x} BY <1>5, <1>6
  <2> QED BY <2>1, <1>7
<1>10. (s \ {c}) \ {x} = (s \ {x}) \ {c} OBVIOUS
<1>11. /\ f[c] \in Int /\ f[x] \in Int
       /\ P[(s \ {x}) \ {c}] \in Int
  BY <1>3, <1>5
<1> DEFINE rest == P[(s \ {x}) \ {c}]
<1>12. P[s \ {c}] = f[x] + rest BY <1>8, <1>10
<1>13. P[s \ {x}] = f[c] + rest /\ rest \in Int BY <1>9, <1>11
<1> HIDE DEF rest, Bad
<1>14. P[s] = f[c] + (f[x] + rest) BY <1>5, <1>12
<1>15. P[s] # f[x] + (f[c] + rest) BY <1>4, <1>13
<1> QED BY <1>11, <1>13, <1>14, <1>15

\* The sum over s depends on the values on s only.
LEMMA SameTerms ==
  ASSUME NEW D, IsFiniteSet(D), NEW f, NEW E, IsFiniteSet(E), NEW g,
         NEW S \in SUBSET (D \cap E), \A x \in S : f[x] = g[x]
  PROVE  PartialSums(f, D)[S] = PartialSums(g, E)[S]
<1> DEFINE P == PartialSums(f, D)
           Q == PartialSums(g, E)
           Bad == {s \in SUBSET S : P[s] # Q[s]}
<1> SUFFICES ASSUME Bad # {} PROVE FALSE OBVIOUS
<1>1. IsFiniteSet(S) BY FS_Subset
<1>2. PICK s \in Bad : \A u \in Bad : u \subseteq s => u = s
  <2>1. Bad \subseteq SUBSET S OBVIOUS
  <2> HIDE DEF Bad
  <2> QED BY <1>1, <2>1, SmallestSubset
<1>3. P[s] = IF s = {} THEN 0 ELSE f[Pick(s)] + P[s \ {Pick(s)}]
  <2>1. Unfolds(f, D, P) BY PartialSumsDef
  <2> QED BY <2>1 DEF Unfolds
<1>4. Q[s] = IF s = {} THEN 0 ELSE g[Pick(s)] + Q[s \ {Pick(s)}]
  <2>1. Unfolds(g, E, Q) BY PartialSumsDef
  <2> QED BY <2>1 DEF Unfolds
<1> HIDE DEF P, Q
<1>5. s # {} BY <1>3, <1>4
<1>6. Pick(s) \in s /\ f[Pick(s)] = g[Pick(s)] BY <1>5, PickIn
<1>7. P[s \ {Pick(s)}] = Q[s \ {Pick(s)}]
  <2>1. s \ {Pick(s)} \in SUBSET S /\ s \ {Pick(s)} # s BY <1>6
  <2> QED BY <2>1, <1>2
<1> QED BY <1>3, <1>4, <1>6, <1>7

-----------------------------------------------------------------------------
(* Sums *)

\* The sum of no terms.
LEMMA SumEmpty ==
  ASSUME NEW f, DOMAIN f = {}
  PROVE  SumFunction(f) = 0
<1>1. IsFiniteSet({}) BY FS_EmptySet
<1>2. Unfolds(f, {}, PartialSums(f, {})) BY <1>1, PartialSumsDef
<1>3. PartialSums(f, {})[{}] = 0 BY <1>2 DEF Unfolds
<1> QED BY <1>3, SumIsPartialSum

\* A sum of integers is an integer.
LEMMA SumInt ==
  ASSUME NEW D, IsFiniteSet(D), NEW f \in [D -> Int]
  PROVE  SumFunction(f) \in Int
<1>1. DOMAIN f = D OBVIOUS
<1>2. PartialSums(f, D)[D] \in Int BY PartialSumsType
<1> QED BY <1>1, <1>2, SumIsPartialSum

\* g is f with the term x added.
AddsTerm(D, f, x, g) ==
    /\ IsFiniteSet(D) /\ x \notin D
    /\ f \in [D -> Int] /\ g \in [D \cup {x} -> Int]
    /\ \A y \in D : g[y] = f[y]

\* Another term x is added to a sum.
LEMMA SumAdd ==
  ASSUME NEW D, NEW f, NEW x, NEW g, AddsTerm(D, f, x, g)
  PROVE  SumFunction(g) = SumFunction(f) + g[x]
<1> USE DEF AddsTerm
<1> DEFINE E == D \cup {x}
<1>1. IsFiniteSet(E) BY FS_AddElement
<1>2. DOMAIN f = D /\ DOMAIN g = E OBVIOUS
<1>3. E \in SUBSET E /\ x \in E /\ E \ {x} = D OBVIOUS
<1>4. PartialSums(g, E)[E] = g[x] + PartialSums(g, E)[E \ {x}]
  BY <1>1, <1>3, TakeAny
<1>5. D \in SUBSET (E \cap D) OBVIOUS
<1>6. PartialSums(g, E)[D] = PartialSums(f, D)[D]
  BY <1>1, <1>5, SameTerms
<1>7. SumFunction(g) = g[x] + SumFunction(f)
  BY <1>2, <1>3, <1>4, <1>6, SumIsPartialSum
<1>8. SumFunction(f) \in Int /\ g[x] \in Int BY SumInt
<1> QED BY <1>7, <1>8

\* g is f but for the term x.
ChangesTerm(D, f, x, g) ==
    /\ IsFiniteSet(D) /\ x \in D
    /\ f \in [D -> Int] /\ g \in [D -> Int]
    /\ \A y \in D : y # x => g[y] = f[y]

\* A sum changes by what its term x changes by.
LEMMA SumChange ==
  ASSUME NEW D, NEW f, NEW x, NEW g, ChangesTerm(D, f, x, g)
  PROVE  SumFunction(g) = SumFunction(f) + (g[x] - f[x])
<1> USE DEF ChangesTerm
<1> DEFINE E == D \ {x}
           rest == PartialSums(f, D)[E]
<1>1. DOMAIN f = D /\ DOMAIN g = D OBVIOUS
<1>2. SumFunction(f) = f[x] + rest
  <2>1. \A s \in SUBSET D : \A y \in s :
          PartialSums(f, D)[s] = f[y] + PartialSums(f, D)[s \ {y}]
    BY TakeAny
  <2>2. PartialSums(f, D)[D] = f[x] + PartialSums(f, D)[D \ {x}] BY <2>1
  <2> QED BY <1>1, <2>2, SumIsPartialSum
<1>3. SumFunction(g) = g[x] + PartialSums(g, D)[E]
  <2>1. \A s \in SUBSET D : \A y \in s :
          PartialSums(g, D)[s] = g[y] + PartialSums(g, D)[s \ {y}]
    BY TakeAny
  <2>2. PartialSums(g, D)[D] = g[x] + PartialSums(g, D)[D \ {x}] BY <2>1
  <2> QED BY <1>1, <2>2, SumIsPartialSum
<1>4. E \in SUBSET (D \cap D) /\ \A y \in E : g[y] = f[y] OBVIOUS
<1>5. PartialSums(g, D)[E] = rest BY <1>4, SameTerms
<1>6. rest \in Int BY PartialSumsType
<1>7. f[x] \in Int /\ g[x] \in Int OBVIOUS
<1> HIDE DEF rest
<1> QED BY <1>2, <1>3, <1>5, <1>6, <1>7

\* A sum of natural numbers is a natural number.
LEMMA SumNat ==
  ASSUME NEW D, IsFiniteSet(D), NEW f \in [D -> Nat]
  PROVE  SumFunction(f) \in Nat
<1> DEFINE P == PartialSums(f, D)
           Bad == {s \in SUBSET D : P[s] \notin Nat}
<1>0. Unfolds(f, D, P) BY PartialSumsDef
<1>1. SUFFICES ASSUME Bad # {} PROVE FALSE
  <2>1. P[D] \in Nat OBVIOUS
  <2>2. DOMAIN f = D OBVIOUS
  <2> QED BY <2>1, <2>2, SumIsPartialSum
<1>2. PICK s \in Bad : \A u \in Bad : u \subseteq s => u = s
  <2>1. Bad \subseteq SUBSET D OBVIOUS
  <2> HIDE DEF Bad
  <2> QED BY <1>1, <2>1, SmallestSubset
<1>3. P[s] = IF s = {} THEN 0 ELSE f[Pick(s)] + P[s \ {Pick(s)}]
  BY <1>0 DEF Unfolds
<1> HIDE DEF P
<1>4. s # {} BY <1>3
<1>5. Pick(s) \in s BY <1>4, PickIn
<1>6. P[s \ {Pick(s)}] \in Nat
  <2>1. s \ {Pick(s)} \in SUBSET D /\ s \ {Pick(s)} # s BY <1>5
  <2> QED BY <2>1, <1>2
<1>7. f[Pick(s)] \in Nat BY <1>5
<1> QED BY <1>3, <1>4, <1>6, <1>7

\* A sum of zeros.
LEMMA SumZero ==
  ASSUME NEW D, IsFiniteSet(D), NEW f \in [D -> Int], \A x \in D : f[x] = 0
  PROVE  SumFunction(f) = 0
<1> DEFINE P == PartialSums(f, D)
           Bad == {s \in SUBSET D : P[s] # 0}
<1>0. Unfolds(f, D, P) BY PartialSumsDef
<1>1. SUFFICES ASSUME Bad # {} PROVE FALSE
  <2>1. P[D] = 0 OBVIOUS
  <2>2. DOMAIN f = D OBVIOUS
  <2> QED BY <2>1, <2>2, SumIsPartialSum
<1>2. PICK s \in Bad : \A u \in Bad : u \subseteq s => u = s
  <2>1. Bad \subseteq SUBSET D OBVIOUS
  <2> HIDE DEF Bad
  <2> QED BY <1>1, <2>1, SmallestSubset
<1>3. P[s] = IF s = {} THEN 0 ELSE f[Pick(s)] + P[s \ {Pick(s)}]
  BY <1>0 DEF Unfolds
<1> HIDE DEF P
<1>4. s # {} BY <1>3
<1>5. Pick(s) \in s /\ f[Pick(s)] = 0 BY <1>4, PickIn
<1>6. P[s \ {Pick(s)}] = 0
  <2>1. s \ {Pick(s)} \in SUBSET D /\ s \ {Pick(s)} # s BY <1>5
  <2> QED BY <2>1, <1>2
<1> QED BY <1>3, <1>4, <1>5, <1>6

\* A sum over the places of a log that grows by one entry.
LEMMA SumAppend ==
  ASSUME NEW n \in Nat, NEW f \in [1..n -> Int], NEW g \in [1..(n + 1) -> Int],
         \A i \in 1..n : g[i] = f[i]
  PROVE  SumFunction(g) = SumFunction(f) + g[n + 1]
<1> DEFINE D == 1..n
           E == 1..(n + 1)
           x == n + 1
<1>1. IsFiniteSet(D) BY FS_Interval
<1>2. E = D \cup {x} /\ x \notin D OBVIOUS
<1>3. f \in [D -> Int] /\ g \in [E -> Int] /\ \A i \in D : g[i] = f[i] OBVIOUS
<1> HIDE DEF D, E, x
<1>4. AddsTerm(D, f, x, g) BY <1>1, <1>2, <1>3 DEF AddsTerm
<1>5. SumFunction(g) = SumFunction(f) + g[x] BY <1>4, SumAdd
<1> QED BY <1>5 DEF x

-----------------------------------------------------------------------------
(* Sums over logs, in which every entry e has the weight w[e] *)

Weigh(log, w) == [i \in DOMAIN log |-> w[log[i]]]

\* The weights of a log are a function on its finitely many places.
LEMMA WeighType ==
  ASSUME NEW S, NEW T, NEW w \in [S -> T], NEW log \in Seq(S)
  PROVE  /\ Weigh(log, w) \in [1..Len(log) -> T]
         /\ Len(log) \in Nat
         /\ IsFiniteSet(1..Len(log))
<1>1. Len(log) \in Nat /\ DOMAIN log = 1..Len(log) /\ \A i \in 1..Len(log) : log[i] \in S
  OBVIOUS
<1>2. Weigh(log, w) \in [1..Len(log) -> T] BY <1>1 DEF Weigh
<1>3. IsFiniteSet(1..Len(log)) BY <1>1, FS_Interval
<1> QED BY <1>1, <1>2, <1>3

\* A log that was never written to weighs nothing.
LEMMA WeightOfNothing == ASSUME NEW w PROVE SumFunction(Weigh(<<>>, w)) = 0
<1>1. DOMAIN Weigh(<<>>, w) = {} BY DEF Weigh
<1> QED BY <1>1, SumEmpty

\* A log weighs a natural number.
LEMMA WeightIsNat ==
  ASSUME NEW S, NEW w \in [S -> Nat], NEW log \in Seq(S)
  PROVE  SumFunction(Weigh(log, w)) \in Nat
<1>1. Weigh(log, w) \in [1..Len(log) -> Nat] /\ IsFiniteSet(1..Len(log)) BY WeighType
<1> QED BY <1>1, SumNat

\* An entry adds its weight to the log.
LEMMA WeightOfAppend ==
  ASSUME NEW S, NEW w \in [S -> Nat], NEW log \in Seq(S), NEW e \in S
  PROVE  SumFunction(Weigh(Append(log, e), w)) = SumFunction(Weigh(log, w)) + w[e]
<1> DEFINE n == Len(log)
           f == Weigh(log, w)
           g == Weigh(Append(log, e), w)
<1>1. Append(log, e) \in Seq(S) /\ Len(Append(log, e)) = n + 1 OBVIOUS
<1>2. n \in Nat /\ f \in [1..n -> Nat] BY WeighType
<1>3. g \in [1..(n + 1) -> Nat]
  <2>1. g \in [1..Len(Append(log, e)) -> Nat] BY <1>1, WeighType
  <2> QED BY <1>1, <2>1
<1>4. \A i \in 1..n : g[i] = f[i] BY <1>1 DEF Weigh
<1>5. g[n + 1] = w[e]
  <2>1. n + 1 \in DOMAIN Append(log, e) /\ Append(log, e)[n + 1] = e OBVIOUS
  <2> QED BY <2>1 DEF Weigh
<1>6. f \in [1..n -> Int] /\ g \in [1..(n + 1) -> Int] BY <1>2, <1>3
<1> HIDE DEF n, f, g
<1>7. SumFunction(g) = SumFunction(f) + g[n + 1] BY <1>2, <1>4, <1>6, SumAppend
<1> QED BY <1>5, <1>7 DEF f, g

\* The same for a family of logs: an entry e of the log of b weighs W[b][e].
Weights(logs, W) == [b \in DOMAIN logs |-> SumFunction(Weigh(logs[b], W[b]))]

FamilyWeight(logs, W) == SumFunction(Weights(logs, W))

\* Naturals are integers.
LEMMA NatFunction == \A B : \A f \in [B -> Nat] : f \in [B -> Int]
  OBVIOUS

\* Every log of a family weighs a natural number.
LEMMA FamilyTerms ==
  ASSUME NEW B, NEW S, NEW W \in [B -> [S -> Nat]], NEW logs \in [B -> Seq(S)]
  PROVE  Weights(logs, W) \in [B -> Nat]
<1>1. ASSUME NEW b \in B PROVE SumFunction(Weigh(logs[b], W[b])) \in Nat
  <2>1. W[b] \in [S -> Nat] /\ logs[b] \in Seq(S) OBVIOUS
  <2> QED BY <2>1, WeightIsNat
<1> QED BY <1>1 DEF Weights

\* So does the family.
LEMMA FamilyIsNat ==
  ASSUME NEW B, IsFiniteSet(B), NEW S, NEW W \in [B -> [S -> Nat]],
         NEW logs \in [B -> Seq(S)]
  PROVE  FamilyWeight(logs, W) \in Nat
<1>1. Weights(logs, W) \in [B -> Nat] BY FamilyTerms
<1> QED BY <1>1, SumNat DEF FamilyWeight

\* Logs that were never written to weigh nothing.
LEMMA FamilyOfNothing ==
  ASSUME NEW B, IsFiniteSet(B), NEW W
  PROVE  FamilyWeight([b \in B |-> <<>>], W) = 0
<1> DEFINE f == Weights([b \in B |-> <<>>], W)
<1>1. DOMAIN f = B /\ \A b \in B : f[b] = 0 BY WeightOfNothing DEF Weights
<1>2. f \in [B -> Int] BY <1>1 DEF Weights
<1> HIDE DEF f
<1>3. SumFunction(f) = 0 BY <1>1, <1>2, SumZero
<1> QED BY <1>3 DEF f, FamilyWeight

\* The log of c gets the entry e; the other logs stay.
AddsEntry(B, S, W, logs, c, e, more) ==
  /\ IsFiniteSet(B)
  /\ W \in [B -> [S -> Nat]]
  /\ logs \in [B -> Seq(S)]
  /\ c \in B
  /\ e \in S
  /\ more = [logs EXCEPT ![c] = Append(logs[c], e)]

\* An entry in one of the logs adds its weight.
LEMMA FamilyAppend ==
  ASSUME NEW B, NEW S, NEW W, NEW logs, NEW c, NEW e, NEW more,
         AddsEntry(B, S, W, logs, c, e, more)
  PROVE  FamilyWeight(more, W) = FamilyWeight(logs, W) + W[c][e]
<1> USE DEF AddsEntry
<1> DEFINE f == Weights(logs, W)
           g == Weights(more, W)
<1>1. logs[c] \in Seq(S) /\ Append(logs[c], e) \in Seq(S) /\ W[c] \in [S -> Nat]
  OBVIOUS
<1>2. more \in [B -> Seq(S)] BY <1>1
<1>3. f \in [B -> Nat] BY FamilyTerms
<1>4. g \in [B -> Nat] BY <1>2, FamilyTerms
<1>5. \A b \in B : b # c => more[b] = logs[b] OBVIOUS
<1>6. more[c] = Append(logs[c], e) OBVIOUS
<1>7. \A b \in B : b # c => g[b] = f[b] BY <1>2, <1>5 DEF Weights
<1>8. g[c] = f[c] + W[c][e]
  <2>1. g[c] = SumFunction(Weigh(Append(logs[c], e), W[c])) BY <1>2, <1>6 DEF Weights
  <2>2. f[c] = SumFunction(Weigh(logs[c], W[c])) BY DEF Weights
  <2>3. SumFunction(Weigh(Append(logs[c], e), W[c]))
          = SumFunction(Weigh(logs[c], W[c])) + W[c][e]
    <3> DEFINE log == logs[c]
               w == W[c]
    <3>1. log \in Seq(S) /\ w \in [S -> Nat] OBVIOUS
    <3> HIDE DEF log, w
    <3>2. SumFunction(Weigh(Append(log, e), w)) = SumFunction(Weigh(log, w)) + w[e]
      BY <3>1, WeightOfAppend
    <3> QED BY <3>2 DEF log, w
  <2> QED BY <2>1, <2>2, <2>3
<1>9. W[c][e] \in Nat OBVIOUS
<1> HIDE DEF f, g
<1>10. f \in [B -> Int] /\ g \in [B -> Int]
  BY <1>3, <1>4, NatFunction
<1>11. ChangesTerm(B, f, c, g) BY <1>7, <1>10, Zenon DEF ChangesTerm
<1>12. SumFunction(g) = SumFunction(f) + (g[c] - f[c]) BY <1>11, SumChange
<1>13. f[c] \in Nat BY <1>3
<1>14. g[c] - f[c] = W[c][e]
  <2> DEFINE d == W[c][e]
  <2>1. d \in Nat /\ g[c] = f[c] + d BY <1>8, <1>9
  <2> HIDE DEF d
  <2> QED BY <2>1, <1>13 DEF d
<1> QED BY <1>12, <1>14 DEF FamilyWeight, f, g

=============================================================================
