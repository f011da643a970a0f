---------------------------- MODULE InductionProofs ----------------------------
(***************************************************************************)
(* Induction over numbers, finite sets and folds in a form the provers can *)
(* use: what is to hold of every number is given as the set of numbers it  *)
(* holds of.  On it rest the laws of sums over finite sets, which the      *)
(* weights of votes are tallied by.                                        *)
(***************************************************************************)
EXTENDS Integers, FiniteSetsExt, FiniteSetTheorems, WellFoundedInduction, TLAPS

(* A nonempty set of natural numbers has a least element. *)
LEMMA LeastNatural ==
    ASSUME NEW T, T \subseteq Nat, T # {}
    PROVE  \E n \in T : \A m \in T : n <= m
<1>1. PICK n \in T : \A m \in T : ~ (<<m, n>> \in OpToRel(<, Nat))
  BY Zenon, NatLessThanWellFounded, WFMin
<1>2. \A m \in T : ~ (m < n)
  BY Zenon, <1>1 DEF OpToRel
<1>3. QED BY <1>2

(* Induction: a set that holds 0, and with a number its successor, holds   *)
(* every natural number.                                                   *)
LEMMA NaturalInduction ==
    ASSUME NEW P, 0 \in P, \A n \in Nat : n \in P => n + 1 \in P
    PROVE  Nat \subseteq P
<1>1. SUFFICES ASSUME Nat \ P # {} PROVE FALSE
  OBVIOUS
<1>2. PICK n \in Nat \ P : \A m \in Nat \ P : n <= m
  BY Zenon, <1>1, LeastNatural
<1>3. n # 0 /\ n - 1 \in Nat /\ n - 1 \in P
  BY <1>2
<1>4. QED BY <1>2, <1>3

-----------------------------------------------------------------------------
(* Folds over finite sets *)

(* A part of a finite set has a size, and only the empty part has size 0. *)
LEMMA SubsetSize ==
    ASSUME NEW S, IsFiniteSet(S), NEW s \in SUBSET S
    PROVE  IsFiniteSet(s) /\ Cardinality(s) \in Nat /\ (Cardinality(s) = 0 <=> s = {})
BY FS_Subset, FS_CardinalityType, FS_EmptySet

(* Taking an element away makes a finite set smaller by one. *)
LEMMA SmallerBy1 ==
    ASSUME NEW S, IsFiniteSet(S), NEW s \in SUBSET S, NEW x \in s
    PROVE  /\ IsFiniteSet(s) /\ Cardinality(s) \in Nat \ {0}
           /\ s \ {x} \in SUBSET S
           /\ Cardinality(s \ {x}) = Cardinality(s) - 1
<1>1. IsFiniteSet(s) BY FS_Subset
<1>2. Cardinality(s) \in Nat /\ Cardinality(s \ {x}) = Cardinality(s) - 1 /\ IsFiniteSet(s \ {x})
  BY <1>1, FS_CardinalityType, FS_RemoveElement
<1>3. Cardinality(s \ {x}) \in Nat BY <1>2, FS_CardinalityType
<1>4. QED BY <1>1, <1>2, <1>3

(* g[s] is the fold of step over s, whose elements ch takes one by one, for *)
(* every subset s of S.                                                     *)
IsFold(S, ch, step, base, g) ==
    g = [s \in SUBSET S |-> IF s = {} THEN base ELSE step[<<ch[s], g[s \ {ch[s]}]>>]]

(* The recursive function behind a fold exists. *)
LEMMA FoldExists ==
    ASSUME NEW S, IsFiniteSet(S), NEW V, NEW base \in V, NEW step \in [S \X V -> V],
           NEW ch, \A s \in SUBSET S : s # {} => ch[s] \in s
    PROVE  \E g \in [SUBSET S -> V] : IsFold(S, ch, step, base, g)
<1> DEFINE Rhs(g, s) == IF s = {} THEN base ELSE step[<<ch[s], g[s \ {ch[s]}]>>]
           P == {n \in Nat : \E g \in [SUBSET S -> V] :
                    \A s \in SUBSET S : Cardinality(s) <= n => g[s] = Rhs(g, s)}
<1>0. \A g \in [SUBSET S -> V], s \in SUBSET S : Rhs(g, s) \in V
  <2>1. SUFFICES ASSUME NEW g \in [SUBSET S -> V], NEW s \in SUBSET S, s # {}
                 PROVE  step[<<ch[s], g[s \ {ch[s]}]>>] \in V
    OBVIOUS
  <2>2. <<ch[s], g[s \ {ch[s]}]>> \in S \X V
    BY <2>1, s \ {ch[s]} \in SUBSET S
  <2> QED BY <2>2
<1>1. 0 \in P
  <2>1. \A s \in SUBSET S : Cardinality(s) <= 0 => s = {}
    BY SubsetSize
  <2> DEFINE z == [s \in SUBSET S |-> base]
  <2>2. z \in [SUBSET S -> V] OBVIOUS
  <2>3. \A s \in SUBSET S : Cardinality(s) <= 0 => z[s] = Rhs(z, s)
    BY <2>1
  <2> HIDE DEF z
  <2>4. QED BY Zenon, <2>2, <2>3
<1>2. ASSUME NEW n \in Nat, n \in P PROVE n + 1 \in P
  <2>1. PICK g \in [SUBSET S -> V] : \A s \in SUBSET S : Cardinality(s) <= n => g[s] = Rhs(g, s)
    BY Zenon, <1>2
  <2> DEFINE h == [s \in SUBSET S |-> IF Cardinality(s) <= n THEN g[s] ELSE Rhs(g, s)]
  <2>2. h \in [SUBSET S -> V]
    <3> HIDE DEF Rhs
    <3>1. QED BY Zenon, <1>0
  <2>3. ASSUME NEW s \in SUBSET S, Cardinality(s) <= n + 1 PROVE h[s] = Rhs(h, s)
    <3>1. h[s] = Rhs(g, s) BY <2>1
    <3>2. CASE s = {} BY <3>1, <3>2
    <3>3. CASE s # {}
      <4> DEFINE t == s \ {ch[s]}
      <4>1. /\ Cardinality(s) \in Nat /\ t \in SUBSET S
            /\ Cardinality(t) = Cardinality(s) - 1
        BY <3>3, SmallerBy1
      <4>2. Cardinality(t) <= n BY <4>1, <2>3
      <4>3. h[t] = g[t] BY <4>1, <4>2
      <4> HIDE DEF h
      <4>4. QED BY <3>1, <3>3, <4>3
    <3>4. QED BY <3>2, <3>3
  <2>4. \E k \in [SUBSET S -> V] :
            \A s \in SUBSET S : Cardinality(s) <= n + 1 => k[s] = Rhs(k, s)
    <3> HIDE DEF h, Rhs
    <3>1. QED BY <2>2, <2>3
  <2> HIDE DEF h, Rhs
  <2>5. QED BY <2>4
<1>3. Cardinality(S) \in P
  <2> HIDE DEF P
  <2>1. Nat \subseteq P BY <1>1, <1>2, NaturalInduction
  <2>2. QED BY <2>1, FS_CardinalityType
<1>4. PICK g \in [SUBSET S -> V] :
          \A s \in SUBSET S : Cardinality(s) <= Cardinality(S) => g[s] = Rhs(g, s)
  BY Zenon, <1>3
<1>5. \A s \in SUBSET S : Cardinality(s) <= Cardinality(S)
  BY FS_Subset
<1>6. \A s \in SUBSET S : g[s] = Rhs(g, s)
  BY <1>4, <1>5
<1>7. g = [s \in SUBSET S |-> Rhs(g, s)]
  BY <1>6
<1>8. QED BY Zenon, <1>7 DEF IsFold

(* The first n positions of a sequence are finitely many. *)
LEMMA FirstFinite == ASSUME NEW n \in Nat PROVE IsFiniteSet(1..n)
BY FS_Interval

(* A nonempty set of positions has a greatest one. *)
LEMMA MaxPosition ==
    ASSUME NEW n \in Nat, NEW s \in SUBSET (1..n), s # {}
    PROVE  Max(s) \in s /\ \A x \in s : x <= Max(s)
<1> DEFINE T == {n - x : x \in s}
<1>1. T \subseteq Nat /\ T # {} OBVIOUS
<1>2. PICK k \in T : \A m \in T : k <= m
  <2> HIDE DEF T
  <2> QED BY Zenon, <1>1, LeastNatural
<1>3. PICK y \in s : k = n - y BY <1>2
<1>4. \A x \in s : y >= x
  <2>1. TAKE x \in s
  <2>2. n - x \in T OBVIOUS
  <2>3. n - y <= n - x BY Zenon, <1>2, <1>3, <2>2
  <2> QED BY <2>3
<1>5. \E z \in s : \A x \in s : z >= x BY <1>4
<1> QED BY <1>5 DEF Max

-----------------------------------------------------------------------------
(* Sums over finite sets *)

SumOf(f, S) == MapThenSumSet(LAMBDA v : f[v], S)

Pick(s) == CHOOSE x \in s : TRUE

(* g[s] is the sum of f over s, for every subset s of S. *)
IsSum(f, S, g) ==
    g = [s \in SUBSET S |-> IF s = {} THEN 0 ELSE f[Pick(s)] + g[s \ {Pick(s)}]]

(* The sum of the community modules unfolds like a recursive sum. *)
LEMMA SumUnfolds ==
    ASSUME NEW f, NEW S
    PROVE  SumOf(f, S) = (CHOOSE g : IsSum(f, S, g))[S]
BY DEF SumOf, MapThenSumSet, MapThenFoldSet, IsSum, Pick

(* The recursive function behind the sum exists. *)
LEMMA SumExists ==
    ASSUME NEW S, IsFiniteSet(S), NEW f \in [S -> Nat]
    PROVE  \E g \in [SUBSET S -> Nat] : IsSum(f, S, g)
<1> DEFINE ch   == [s \in SUBSET S |-> Pick(s)]
           step == [p \in S \X Nat |-> f[p[1]] + p[2]]
<1>1. \A s \in SUBSET S : s # {} => ch[s] \in s
  BY DEF Pick
<1>2. step \in [S \X Nat -> Nat]
  OBVIOUS
<1>3. PICK g \in [SUBSET S -> Nat] : IsFold(S, ch, step, 0, g)
  <2> HIDE DEF ch, step
  <2>1. QED BY Zenon, <1>1, <1>2, FoldExists
<1>4. \A s \in SUBSET S : g[s] = IF s = {} THEN 0 ELSE f[Pick(s)] + g[s \ {Pick(s)}]
  <2>1. ASSUME NEW s \in SUBSET S, s # {} PROVE g[s] = f[Pick(s)] + g[s \ {Pick(s)}]
    <3>1. g[s] = step[<<ch[s], g[s \ {ch[s]}]>>]
      BY Zenon, <1>3, <2>1 DEF IsFold
    <3>2. Pick(s) \in S /\ s \ {Pick(s)} \in SUBSET S /\ ch[s] = Pick(s)
      BY Zenon, <1>1, <2>1
    <3>3. QED BY <3>1, <3>2
  <2>2. g[{}] = 0 BY <1>3 DEF IsFold
  <2>3. QED BY Zenon, <2>1, <2>2
<1>5. QED BY <1>4 DEF IsSum

(* A function that sums over the subsets of S can add the elements of a    *)
(* set in any order.                                                       *)
LEMMA SumAnyOrder ==
    ASSUME NEW S, IsFiniteSet(S), NEW f \in [S -> Nat],
           NEW g \in [SUBSET S -> Nat], IsSum(f, S, g)
    PROVE  /\ g[{}] = 0
           /\ \A s \in SUBSET S : \A x \in s : g[s] = f[x] + g[s \ {x}]
<1> DEFINE P == {n \in Nat : \A s \in SUBSET S : Cardinality(s) = n =>
                                \A x \in s : g[s] = f[x] + g[s \ {x}]}
<1>1. \A s \in SUBSET S : g[s] = IF s = {} THEN 0 ELSE f[Pick(s)] + g[s \ {Pick(s)}]
  BY Zenon DEF IsSum
<1>2. \A s \in SUBSET S : s # {} => Pick(s) \in s
  BY DEF Pick
<1>3. 0 \in P
  <2>1. \A s \in SUBSET S : Cardinality(s) = 0 => s = {}
    BY SubsetSize
  <2>2. QED BY <2>1
<1>4. ASSUME NEW n \in Nat, n \in P PROVE n + 1 \in P
  <2>1. SUFFICES ASSUME NEW s \in SUBSET S, Cardinality(s) = n + 1, NEW x \in s
                 PROVE  g[s] = f[x] + g[s \ {x}]
    OBVIOUS
  <2> DEFINE y == Pick(s)
  <2>2. y \in s BY <1>2
  <2>3. g[s] = f[y] + g[s \ {y}] BY <1>1, <2>2
  <2>4. CASE x = y BY <2>3, <2>4
  <2>5. CASE x # y
    <3> HIDE DEF y
    <3> DEFINE rest == s \ {x, y}
    <3>1. Cardinality(s \ {x}) = n /\ s \ {x} \in SUBSET S /\ y \in s \ {x}
      BY <2>1, <2>2, <2>5, SmallerBy1
    <3>2. Cardinality(s \ {y}) = n /\ s \ {y} \in SUBSET S /\ x \in s \ {y}
      BY <2>1, <2>2, <2>5, SmallerBy1
    <3>3. (s \ {y}) \ {x} = rest /\ (s \ {x}) \ {y} = rest
      OBVIOUS
    <3>4. g[s \ {y}] = f[x] + g[rest] BY <1>4, <3>2, <3>3
    <3>5. g[s \ {x}] = f[y] + g[rest] BY <1>4, <3>1, <3>3
    <3>6. f[x] \in Nat /\ f[y] \in Nat /\ g[rest] \in Nat
      BY <2>2
    <3> HIDE DEF rest
    <3>7. QED BY <2>3, <3>4, <3>5, <3>6
  <2>6. QED BY <2>4, <2>5
<1>5. ASSUME NEW s \in SUBSET S, NEW x \in s PROVE g[s] = f[x] + g[s \ {x}]
  <2>1. Nat \subseteq P
    <3> HIDE DEF P
    <3>1. QED BY <1>3, <1>4, NaturalInduction
  <2>2. Cardinality(s) \in P BY Zenon, <2>1, SmallerBy1
  <2>3. QED BY <2>2
<1>6. QED BY Zenon, <1>1, <1>5

(* Functions that sum over the subsets of S and of a part of S agree there. *)
LEMMA SumsAgree ==
    ASSUME NEW S, IsFiniteSet(S), NEW f, NEW g, IsSum(f, S, g),
           NEW T \in SUBSET S, NEW h, IsSum(f, T, h)
    PROVE  h[T] = g[T]
<1>1. IsFiniteSet(T) BY FS_Subset
<1> DEFINE P == {n \in Nat : \A s \in SUBSET T : Cardinality(s) = n => h[s] = g[s]}
<1>2. \A s \in SUBSET T : h[s] = IF s = {} THEN 0 ELSE f[Pick(s)] + h[s \ {Pick(s)}]
  BY Zenon DEF IsSum
<1>3. \A s \in SUBSET T : g[s] = IF s = {} THEN 0 ELSE f[Pick(s)] + g[s \ {Pick(s)}]
  BY Zenon DEF IsSum
<1>4. 0 \in P
  <2>1. \A s \in SUBSET T : Cardinality(s) = 0 => s = {}
    BY <1>1, SubsetSize
  <2>2. \A s \in SUBSET T : Cardinality(s) = 0 => h[s] = g[s]
    BY <1>2, <1>3, <2>1
  <2>3. QED BY <2>2
<1>5. ASSUME NEW n \in Nat, n \in P PROVE n + 1 \in P
  <2>1. SUFFICES ASSUME NEW s \in SUBSET T, Cardinality(s) = n + 1 PROVE h[s] = g[s]
    OBVIOUS
  <2>2. s # {} BY <1>1, <2>1, SubsetSize
  <2>3. Pick(s) \in s BY <2>2 DEF Pick
  <2>4. s \ {Pick(s)} \in SUBSET T /\ Cardinality(s \ {Pick(s)}) = n
    <3> DEFINE x == Pick(s)
    <3> HIDE DEF x
    <3>1. x \in s BY <2>3 DEF x
    <3>2. s \ {x} \in SUBSET T /\ Cardinality(s \ {x}) = Cardinality(s) - 1
      BY <1>1, <3>1, SmallerBy1
    <3>3. QED BY <2>1, <3>2 DEF x
  <2>5. h[s \ {Pick(s)}] = g[s \ {Pick(s)}] BY <1>5, <2>4
  <2>6. QED BY <1>2, <1>3, <2>2, <2>5
<1>6. Nat \subseteq P
  <2> HIDE DEF P
  <2>1. QED BY <1>4, <1>5, NaturalInduction
<1>7. Cardinality(T) \in P BY <1>1, <1>6, FS_CardinalityType
<1>8. QED BY <1>7

(* The sum over a subset does not depend on the set it is a subset of. *)
LEMMA SumOfSubset ==
    ASSUME NEW S, IsFiniteSet(S), NEW f \in [S -> Nat],
           NEW g \in [SUBSET S -> Nat], IsSum(f, S, g), NEW T \in SUBSET S
    PROVE  SumOf(f, T) = g[T]
<1>1. IsFiniteSet(T) BY FS_Subset
<1> DEFINE fT == [x \in T |-> f[x]]
<1>2. fT \in [T -> Nat] OBVIOUS
<1>3. PICK k \in [SUBSET T -> Nat] : IsSum(fT, T, k) BY Zenon, <1>1, <1>2, SumExists
<1>4. \A s \in SUBSET T : s # {} => Pick(s) \in s /\ fT[Pick(s)] = f[Pick(s)]
  BY DEF Pick
<1>5. IsSum(f, T, k)
  <2>1. \A s \in SUBSET T : k[s] = IF s = {} THEN 0 ELSE f[Pick(s)] + k[s \ {Pick(s)}]
    BY Zenon, <1>3, <1>4 DEF IsSum
  <2>2. QED BY <2>1 DEF IsSum
<1>6. IsSum(f, T, CHOOSE h : IsSum(f, T, h)) BY <1>5
<1>7. QED BY <1>6, SumsAgree, SumUnfolds

(* Whatever sums over the subsets of T gives the sum over T. *)
LEMMA AnySum ==
    ASSUME NEW S, IsFiniteSet(S), NEW f \in [S -> Nat],
           NEW T \in SUBSET S, NEW h, IsSum(f, T, h)
    PROVE  h[T] = SumOf(f, T)
<1>1. PICK g \in [SUBSET S -> Nat] : IsSum(f, S, g) BY Zenon, SumExists
<1>2. h[T] = g[T] BY <1>1, SumsAgree
<1>3. SumOf(f, T) = g[T] BY <1>1, SumOfSubset
<1>4. QED BY <1>2, <1>3

-----------------------------------------------------------------------------
(* The laws of sums *)

(* The sum over a finite set is a natural number, 0 over the empty set,    *)
(* and grows by f[x] when x joins.                                         *)
LEMMA SumLaws ==
    ASSUME NEW S, IsFiniteSet(S), NEW f \in [S -> Nat]
    PROVE  /\ \A T \in SUBSET S : SumOf(f, T) \in Nat
           /\ SumOf(f, {}) = 0
           /\ \A T \in SUBSET S : \A x \in T : SumOf(f, T) = f[x] + SumOf(f, T \ {x})
<1>1. PICK g \in [SUBSET S -> Nat] : IsSum(f, S, g) BY SumExists
<1>2. \A T \in SUBSET S : SumOf(f, T) = g[T] BY <1>1, SumOfSubset
<1>3. \A T \in SUBSET S : \A x \in T : T \ {x} \in SUBSET S OBVIOUS
<1>4. g[{}] = 0 /\ \A s \in SUBSET S : \A x \in s : g[s] = f[x] + g[s \ {x}]
  BY <1>1, SumAnyOrder
<1>5. QED BY <1>2, <1>3, <1>4

(* The sum over a disjoint union is the sum of the sums. *)
LEMMA SumOfUnion ==
    ASSUME NEW S, IsFiniteSet(S), NEW f \in [S -> Nat],
           NEW A \in SUBSET S, NEW B \in SUBSET S, A \cap B = {}
    PROVE  SumOf(f, A \cup B) = SumOf(f, A) + SumOf(f, B)
<1> DEFINE P == {n \in Nat : \A D \in SUBSET B : Cardinality(D) = n =>
                                SumOf(f, A \cup D) = SumOf(f, A) + SumOf(f, D)}
<1>1. IsFiniteSet(B) BY FS_Subset
<1>2. 0 \in P
  <2>1. \A D \in SUBSET B : Cardinality(D) = 0 => D = {} BY <1>1, SubsetSize
  <2>2. SumOf(f, A \cup {}) = SumOf(f, A) + SumOf(f, {})
    <3>1. A \cup {} = A OBVIOUS
    <3>2. QED BY <3>1, SumLaws
  <2>3. QED BY Zenon, <2>1, <2>2
<1>3. ASSUME NEW n \in Nat, n \in P PROVE n + 1 \in P
  <2>1. SUFFICES ASSUME NEW D \in SUBSET B, Cardinality(D) = n + 1
                 PROVE  SumOf(f, A \cup D) = SumOf(f, A) + SumOf(f, D)
    OBVIOUS
  <2>2. D # {} BY <1>1, <2>1, SubsetSize
  <2>3. PICK x \in D : TRUE BY <2>2
  <2> DEFINE rest == D \ {x}
  <2>4. Cardinality(rest) = n /\ rest \in SUBSET B BY <1>1, <2>1, SmallerBy1
  <2>5. SumOf(f, A \cup rest) = SumOf(f, A) + SumOf(f, rest) BY <1>3, <2>4
  <2>6. /\ A \cup D \in SUBSET S /\ x \in A \cup D /\ (A \cup D) \ {x} = A \cup rest
        /\ D \in SUBSET S /\ rest \in SUBSET S
    OBVIOUS
  <2>7. SumOf(f, A \cup D) = f[x] + SumOf(f, A \cup rest) BY <2>6, SumLaws
  <2>8. SumOf(f, D) = f[x] + SumOf(f, rest) BY <2>6, SumLaws
  <2>9. f[x] \in Nat /\ SumOf(f, A) \in Nat /\ SumOf(f, rest) \in Nat BY <2>6, SumLaws
  <2> HIDE DEF rest
  <2>10. QED BY <2>5, <2>7, <2>8, <2>9
<1>4. Nat \subseteq P
  <2> HIDE DEF P
  <2>1. QED BY <1>2, <1>3, NaturalInduction
<1>5. Cardinality(B) \in P BY <1>1, <1>4, FS_CardinalityType
<1>6. QED BY <1>5

(* A larger set has a sum at least as large. *)
LEMMA SumMonotone ==
    ASSUME NEW S, IsFiniteSet(S), NEW f \in [S -> Nat],
           NEW B \in SUBSET S, NEW A \in SUBSET B
    PROVE  SumOf(f, A) <= SumOf(f, B)
<1>1. A \in SUBSET S /\ B \ A \in SUBSET S /\ A \cap (B \ A) = {} /\ A \cup (B \ A) = B
  OBVIOUS
<1>2. SumOf(f, B) = SumOf(f, A) + SumOf(f, B \ A) BY <1>1, SumOfUnion
<1>3. QED BY <1>1, <1>2, SumLaws

(* A sum depends on the values that are added only. *)
LEMMA SumSame ==
    ASSUME NEW S, IsFiniteSet(S), NEW f \in [S -> Nat], NEW h \in [S -> Nat],
           NEW T \in SUBSET S, \A x \in T : f[x] = h[x]
    PROVE  SumOf(f, T) = SumOf(h, T)
<1> DEFINE fT == [x \in T |-> f[x]]
<1>1. fT \in [T -> Nat] /\ IsFiniteSet(T) BY FS_Subset
<1>2. PICK k \in [SUBSET T -> Nat] : IsSum(fT, T, k) BY Zenon, <1>1, SumExists
<1>3. \A s \in SUBSET T : s # {} => fT[Pick(s)] = f[Pick(s)] /\ fT[Pick(s)] = h[Pick(s)]
  BY DEF Pick
<1> HIDE DEF fT
<1>4. \A s \in SUBSET T : k[s] = IF s = {} THEN 0 ELSE fT[Pick(s)] + k[s \ {Pick(s)}]
  BY Zenon, <1>2 DEF IsSum
<1>5. /\ \A s \in SUBSET T : k[s] = IF s = {} THEN 0 ELSE f[Pick(s)] + k[s \ {Pick(s)}]
      /\ \A s \in SUBSET T : k[s] = IF s = {} THEN 0 ELSE h[Pick(s)] + k[s \ {Pick(s)}]
  BY Zenon, <1>3, <1>4
<1>6. IsSum(f, T, k) /\ IsSum(h, T, k) BY Zenon, <1>5 DEF IsSum
<1>7. k[T] = SumOf(f, T) BY <1>6, AnySum
<1>8. k[T] = SumOf(h, T) BY <1>6, AnySum
<1> QED BY <1>7, <1>8

(* Changing one value changes the sum by as much. *)
LEMMA SumChange ==
    ASSUME NEW S, IsFiniteSet(S), NEW f \in [S -> Nat], NEW h \in [S -> Nat],
           NEW x \in S, \A y \in S \ {x} : f[y] = h[y]
    PROVE  SumOf(h, S) + f[x] = SumOf(f, S) + h[x]
<1>1. S \in SUBSET S /\ S \ {x} \in SUBSET S OBVIOUS
<1>2. SumOf(f, S) = f[x] + SumOf(f, S \ {x}) /\ SumOf(f, S \ {x}) \in Nat BY <1>1, SumLaws
<1>3. SumOf(h, S) = h[x] + SumOf(h, S \ {x}) /\ SumOf(h, S \ {x}) \in Nat BY <1>1, SumLaws
<1>4. SumOf(f, S \ {x}) = SumOf(h, S \ {x}) BY <1>1, SumSame
<1>5. f[x] \in Nat /\ h[x] \in Nat OBVIOUS
<1> QED BY <1>2, <1>3, <1>4, <1>5

(* Two sets whose sums exceed the sum of everything by more than the sum   *)
(* of X meet outside X.                                                    *)
LEMMA SumsOverlap ==
    ASSUME NEW S, IsFiniteSet(S), NEW f \in [S -> Nat],
           NEW A \in SUBSET S, NEW B \in SUBSET S, NEW X \in SUBSET S,
           SumOf(f, S) + SumOf(f, X) < SumOf(f, A) + SumOf(f, B)
    PROVE  \E x \in S \ X : x \in A /\ x \in B
<1>1. SUFFICES ASSUME A \cap B \subseteq X PROVE FALSE
  OBVIOUS
<1>2. SumOf(f, A \cup B) = SumOf(f, A) + SumOf(f, B \ A)
  <2>1. B \ A \in SUBSET S /\ A \cap (B \ A) = {} /\ A \cup (B \ A) = A \cup B OBVIOUS
  <2>2. QED BY <2>1, SumOfUnion
<1>3. SumOf(f, B) = SumOf(f, A \cap B) + SumOf(f, B \ A)
  <2>1. /\ A \cap B \in SUBSET S /\ B \ A \in SUBSET S
        /\ (A \cap B) \cap (B \ A) = {} /\ (A \cap B) \cup (B \ A) = B
    OBVIOUS
  <2>2. QED BY <2>1, SumOfUnion
<1>4. SumOf(f, A \cap B) <= SumOf(f, X) BY <1>1, SumMonotone
<1>5. SumOf(f, A \cup B) <= SumOf(f, S)
  <2>1. A \cup B \in SUBSET S OBVIOUS
  <2>2. QED BY <2>1, SumMonotone
<1>6. /\ SumOf(f, A) \in Nat /\ SumOf(f, B) \in Nat /\ SumOf(f, B \ A) \in Nat
      /\ SumOf(f, A \cap B) \in Nat /\ SumOf(f, X) \in Nat /\ SumOf(f, S) \in Nat
      /\ SumOf(f, A \cup B) \in Nat
  <2>1. /\ B \ A \in SUBSET S /\ A \cap B \in SUBSET S /\ S \in SUBSET S
        /\ A \cup B \in SUBSET S
    OBVIOUS
  <2>2. QED BY <2>1, SumLaws
<1>7. QED BY <1>2, <1>3, <1>4, <1>5, <1>6
================================================================================
