----------------------------- MODULE DataLemmas -----------------------------
(***************************************************************************)
(* Induction over numbers and finite sets, stated for sets in the place of *)
(* predicates, and what follows from it: recursion along a list, sums,     *)
(* greatest elements, sorted lists and lists of lists put end to end.      *)
(***************************************************************************)
EXTENDS Orders, Sequences, SequencesExt, Functions, FiniteSetTheorems, WellFoundedInduction, TLAPS

-----------------------------------------------------------------------------
\* Induction.

(***************************************************************************)
(* A set of natural numbers that is not empty has a least one.             *)
(***************************************************************************)
LEMMA LeastOf ==
    ASSUME NEW S \in SUBSET Nat, S # {}
    PROVE  \E m \in S : \A k \in S : m <= k
<1> DEFINE R == {p \in Nat \X Nat : p[1] < p[2]}
<1>1. IsWellFoundedOn(R, Nat)
  BY NatLessThanWellFounded DEF OpToRel
<1>2. \A i, j \in Nat : <<i, j>> \in R <=> i < j
  OBVIOUS
<1> HIDE DEF R
<1>3. \E x \in S : \A y \in S : <<y, x>> \notin R
  BY <1>1, WFMin
<1>4. PICK x \in S : \A y \in S : <<y, x>> \notin R
  BY <1>3
<1>5. ASSUME NEW y \in S PROVE x <= y
  <2>1. x \in Nat /\ y \in Nat
    OBVIOUS
  <2>2. ~(y < x)
    BY <1>2, <1>4, <2>1
  <2>3. QED BY <2>1, <2>2
<1>6. QED BY <1>5

(***************************************************************************)
(* Induction: a set that has 0, and n + 1 with n, has every number.        *)
(***************************************************************************)
LEMMA Induction ==
    ASSUME NEW S, 0 \in S, \A n \in Nat : n \in S => n + 1 \in S
    PROVE  \A n \in Nat : n \in S
<1> SUFFICES ASSUME NEW n \in Nat, n \notin S PROVE FALSE
  OBVIOUS
<1> DEFINE bad == Nat \ S
<1>1. PICK m \in bad : \A k \in bad : m <= k
  <2>1. bad \in SUBSET Nat /\ bad # {}
    OBVIOUS
  <2> HIDE DEF bad
  <2>2. QED BY <2>1, LeastOf
<1>2. m \in Nat /\ m # 0
  BY <1>1
<1>3. m - 1 \in Nat /\ m - 1 \in S
  BY <1>1, <1>2
<1>4. (m - 1) + 1 \in S
  BY <1>3
<1>5. QED BY <1>1, <1>2, <1>4

(***************************************************************************)
(* Induction over the subsets of a finite set from all smaller ones.       *)
(***************************************************************************)
LEMMA StrictSubsets ==
    ASSUME NEW S, IsFiniteSet(S)
    PROVE  IsWellFoundedOn(StrictSubsetOrdering(S), SUBSET S)
  BY FS_StrictSubsetOrderingWellFounded, FS_FiniteSubsetsOfFinite

LEMMA SubsetInduction ==
    ASSUME NEW S, IsFiniteSet(S), NEW C,
           \A T \in SUBSET S : (\A U \in SUBSET T : U # T => U \in C) => T \in C
    PROVE  \A T \in SUBSET S : T \in C
<1> DEFINE R == StrictSubsetOrdering(S)
           bad == (SUBSET S) \ C
<1> SUFFICES ASSUME bad # {} PROVE FALSE
  OBVIOUS
<1>1. IsWellFoundedOn(R, SUBSET S)
  BY StrictSubsets
<1>2. \E T \in bad : \A U \in bad : <<U, T>> \notin R
  <2>1. bad \subseteq SUBSET S
    OBVIOUS
  <2> HIDE DEF bad, R
  <2>2. QED BY <1>1, <2>1, WFMin
<1>3. PICK T \in bad : \A U \in bad : <<U, T>> \notin R
  BY <1>2
<1>4. ASSUME NEW U \in SUBSET T, U # T PROVE U \in C
  <2>1. U \in SUBSET S /\ <<U, T>> \in R
    BY <1>3, <1>4 DEF StrictSubsetOrdering
  <2>2. QED BY <1>3, <2>1
<1>5. QED BY <1>3, <1>4

(***************************************************************************)
(* Recursion along a list: what each entry is given by the one before it   *)
(* exists.                                                                 *)
(***************************************************************************)
Recursive(n, V, base, step) ==
    \E f \in [0..n -> V] : f[0] = base /\ \A i \in 1..n : f[i] = step[<<i, f[i - 1]>>]

LEMMA Recursion ==
    ASSUME NEW n \in Nat, NEW V, NEW base \in V, NEW step \in [(1..n) \X V -> V]
    PROVE  Recursive(n, V, base, step)
<1> DEFINE Good == {m \in Nat : m <= n => \E f \in [0..m -> V] :
                        f[0] = base /\ \A i \in 1..m : f[i] = step[<<i, f[i - 1]>>]}
<1>1. 0 \in Good
  <2> DEFINE g == [i \in 0..0 |-> base]
  <2>1. g \in [0..0 -> V] /\ g[0] = base
    OBVIOUS
  <2>2. 1..0 = {}
    OBVIOUS
  <2> HIDE DEF g
  <2>3. \E f \in [0..0 -> V] : f[0] = base /\ \A i \in 1..0 : f[i] = step[<<i, f[i - 1]>>]
    BY <2>1, <2>2
  <2>4. QED BY <2>3
<1>2. ASSUME NEW m \in Nat, m \in Good PROVE m + 1 \in Good
  <2> SUFFICES ASSUME m + 1 <= n
               PROVE  \E f \in [0..(m + 1) -> V] : f[0] = base
                        /\ \A i \in 1..(m + 1) : f[i] = step[<<i, f[i - 1]>>]
    OBVIOUS
  <2>1. PICK f \in [0..m -> V] :
          f[0] = base /\ \A i \in 1..m : f[i] = step[<<i, f[i - 1]>>]
    BY <1>2
  <2> DEFINE g == [i \in 0..(m + 1) |-> IF i <= m THEN f[i] ELSE step[<<m + 1, f[m]>>]]
  <2>2. f[m] \in V /\ step[<<m + 1, f[m]>>] \in V
    BY <2>1
  <2>3. g \in [0..(m + 1) -> V]
    BY <2>1, <2>2
  <2>4. g[0] = base
    BY <2>1
  <2>5. ASSUME NEW i \in 1..(m + 1) PROVE g[i] = step[<<i, g[i - 1]>>]
    <3>1. CASE i <= m
      <4>1. i \in 1..m /\ i - 1 \in 0..m /\ i \in 0..(m + 1) /\ i - 1 \in 0..(m + 1)
            /\ i - 1 <= m
        BY <3>1
      <4>2. g[i] = f[i] /\ g[i - 1] = f[i - 1]
        BY <4>1
      <4>3. QED BY <2>1, <4>1, <4>2
    <3>2. CASE i = m + 1
      <4>1. i - 1 = m /\ m \in 0..(m + 1) /\ ~(m + 1 <= m)
        BY <3>2
      <4>2. g[m + 1] = step[<<m + 1, f[m]>>] /\ g[m] = f[m]
        BY <4>1
      <4>3. QED BY <3>2, <4>1, <4>2
    <3>3. QED BY <3>1, <3>2
  <2> HIDE DEF g
  <2>6. QED BY <2>3, <2>4, <2>5
<1> HIDE DEF Good
<1>3. n \in Good
  BY <1>1, <1>2, Induction
<1>4. QED BY <1>3 DEF Good, Recursive
-----------------------------------------------------------------------------
\* Whole parts.

(***************************************************************************)
(* How often b goes into a.                                                *)
(***************************************************************************)
LEMMA DivIs ==
    ASSUME NEW a \in Nat, NEW b \in Nat \ {0}
    PROVE  a \div b \in Nat /\ (a \div b) * b <= a /\ a < (a \div b) * b + b
  OBVIOUS

LEMMA ExactDiv ==
    ASSUME NEW a \in Nat \ {0}, NEW b \in Nat \ {0}, a % b = 0
    PROVE  (a \div b) * b = a /\ a \div b \in Nat \ {0}
  OBVIOUS

(***************************************************************************)
(* The multiples of b are b apart.                                         *)
(***************************************************************************)
LEMMA Multiples ==
    ASSUME NEW i \in Nat, NEW j \in Nat, NEW b \in Nat, i < j
    PROVE  i * b \in Nat /\ j * b \in Nat /\ i * b + b <= j * b
<1>1. PICK d \in Nat : j = i + 1 + d
  <2>1. j - (i + 1) \in Nat /\ j = i + 1 + (j - (i + 1))
    OBVIOUS
  <2>2. QED BY <2>1
<1>2. j * b = i * b + b + d * b
  BY <1>1
<1>3. d * b \in Nat
  BY <1>1
<1>4. QED BY <1>2, <1>3

-----------------------------------------------------------------------------
\* The greatest and the least of a set.

(***************************************************************************)
(* A set of numbers up to n has a greatest one.                            *)
(***************************************************************************)
LEMMA MaxIs ==
    ASSUME NEW n \in Nat, NEW S \in SUBSET (0..n), S # {}
    PROVE  Max(S) \in S /\ \A i \in S : i <= Max(S)
<1> DEFINE below == {k \in Nat : k <= n /\ n - k \in S}
<1>1. PICK x \in S : TRUE
  OBVIOUS
<1>2. n - x \in Nat /\ n - x <= n /\ n - (n - x) = x
  BY <1>1
<1>3. n - x \in below
  BY <1>2
<1>4. PICK m \in below : \A k \in below : m <= k
  <2>1. below \in SUBSET Nat /\ below # {}
    BY <1>3
  <2> HIDE DEF below
  <2>2. QED BY <2>1, LeastOf
<1>5. ASSUME NEW i \in S PROVE i <= n - m
  <2>1. i \in Nat /\ i <= n /\ n - i \in Nat /\ n - i <= n /\ n - (n - i) = i
    OBVIOUS
  <2>2. n - i \in below
    BY <2>1
  <2>3. m <= n - i /\ m \in Nat
    BY <1>4, <2>2
  <2>4. QED BY <2>1, <2>3
<1>6. n - m \in S
  BY <1>4
<1>7. \E z \in S : \A i \in S : z >= i
  <2>1. \A i \in S : n - m >= i
    BY <1>4, <1>5
  <2>2. QED BY <1>6, <2>1
<1>8. Max(S) \in S /\ \A i \in S : Max(S) >= i
  BY <1>7 DEF Max
<1>9. QED BY <1>8

(***************************************************************************)
(* A set of numbers has a least one.                                       *)
(***************************************************************************)
LEMMA MinIs ==
    ASSUME NEW S \in SUBSET Nat, S # {}
    PROVE  Min(S) \in S /\ \A i \in S : Min(S) <= i
<1>1. \E z \in S : \A i \in S : z <= i
  BY LeastOf
<1>2. QED BY <1>1 DEF Min

(***************************************************************************)
(* So has a finite set of them, however large, a greatest.                 *)
(***************************************************************************)
LEMMA GreatestOf ==
    ASSUME NEW S \in SUBSET Nat, IsFiniteSet(S), S # {}
    PROVE  \E m \in S : \A k \in S : k <= m
<1> DEFINE C == {T \in SUBSET S : T # {} => \E m \in T : \A k \in T : k <= m}
<1>1. ASSUME NEW T \in SUBSET S, \A U \in SUBSET T : U # T => U \in C
      PROVE  T \in C
  <2> SUFFICES ASSUME T # {} PROVE \E m \in T : \A k \in T : k <= m
    OBVIOUS
  <2>1. PICK x \in T : TRUE
    OBVIOUS
  <2>2. T \ {x} \in C /\ x \in Nat
    BY <1>1, <2>1
  <2>3. CASE T \ {x} = {}
    <3>1. \A k \in T : k = x
      BY <2>3
    <3>2. QED BY <2>1, <2>2, <3>1
  <2>4. CASE T \ {x} # {}
    <3>1. PICK m \in T \ {x} : \A k \in T \ {x} : k <= m
      BY <2>2, <2>4
    <3>2. m \in Nat /\ m \in T
      OBVIOUS
    <3>3. CASE x <= m
      BY <3>1, <3>2, <3>3
    <3>4. CASE ~(x <= m)
      <4>1. \A k \in T \ {x} : k \in Nat /\ k <= x
        BY <2>2, <3>1, <3>2, <3>4
      <4>2. QED BY <2>1, <2>2, <4>1
    <3>5. QED BY <3>3, <3>4
  <2>5. QED BY <2>3, <2>4
<1> HIDE DEF C
<1>2. S \in C
  <2>1. S \in SUBSET S
    OBVIOUS
  <2>2. \A T \in SUBSET S : (\A U \in SUBSET T : U # T => U \in C) => T \in C
    BY <1>1
  <2>3. \A T \in SUBSET S : T \in C
    BY <2>2, SubsetInduction
  <2>4. QED BY <2>1, <2>3
<1>3. QED BY <1>2 DEF C

(***************************************************************************)
(* A function of a finite set has finitely many values, and finitely many  *)
(* members in them if each is finite.                                      *)
(***************************************************************************)
LEMMA RangeFinite ==
    ASSUME NEW f, IsFiniteSet(DOMAIN f), f = [x \in DOMAIN f |-> f[x]]
    PROVE  IsFiniteSet(Range(f))
<1>1. f \in Surjection(DOMAIN f, Range(f))
  BY DEF Surjection, Range
<1>2. QED BY <1>1, FS_Surjection

LEMMA UnionFinite ==
    ASSUME NEW S, IsFiniteSet(S), NEW f, DOMAIN f = S, f = [x \in S |-> f[x]],
           \A x \in S : IsFiniteSet(f[x])
    PROVE  IsFiniteSet(UNION Range(f))
<1>1. IsFiniteSet(Range(f))
  BY RangeFinite
<1>2. \A T \in Range(f) : IsFiniteSet(T)
  BY DEF Range
<1>3. QED BY <1>1, <1>2, FS_UNION

-----------------------------------------------------------------------------
\* Sums.

(***************************************************************************)
(* total adds up f over each subset of S, an element at a time.            *)
(***************************************************************************)
Chosen(T) == CHOOSE x \in T : TRUE

Adds(f, S, total) ==
    total = [T \in SUBSET S |->
              IF T = {} THEN 0 ELSE f[Chosen(T)] + total[T \ {Chosen(T)}]]

(***************************************************************************)
(* There is such a total, of numbers.                                      *)
(***************************************************************************)
LEMMA AddsExists ==
    ASSUME NEW S, IsFiniteSet(S), NEW f, \A x \in S : f[x] \in Nat
    PROVE  \E total \in [SUBSET S -> Nat] : Adds(f, S, total)
<1> DEFINE N == Cardinality(S)
           V == [SUBSET S -> Nat]
           base == [T \in SUBSET S |-> 0]
           next(h) == [T \in SUBSET S |->
                        IF T = {} THEN 0 ELSE f[Chosen(T)] + h[T \ {Chosen(T)}]]
           step == [q \in (1..N) \X V |-> next(q[2])]
<1>1. N \in Nat
  BY FS_CardinalityType
<1>2. base \in V
  OBVIOUS
<1>3. ASSUME NEW T \in SUBSET S, T # {}
      PROVE  Chosen(T) \in T /\ f[Chosen(T)] \in Nat /\ T \ {Chosen(T)} \in SUBSET S
  BY <1>3 DEF Chosen
<1>4. ASSUME NEW h \in V PROVE next(h) \in V
  <2>1. ASSUME NEW T \in SUBSET S
        PROVE  (IF T = {} THEN 0 ELSE f[Chosen(T)] + h[T \ {Chosen(T)}]) \in Nat
    <3>1. CASE T = {}
      BY <3>1
    <3>2. CASE T # {}
      <4>1. f[Chosen(T)] \in Nat /\ h[T \ {Chosen(T)}] \in Nat
        BY <1>3, <3>2
      <4>2. QED BY <3>2, <4>1
    <3>3. QED BY <3>1, <3>2
  <2>2. QED BY <2>1
<1>5. \A i \in 1..N, h \in V : step[<<i, h>>] = next(h)
  OBVIOUS
<1>6. step \in [(1..N) \X V -> V]
  <2> HIDE DEF next, V
  <2>1. QED BY <1>4
<1>7. PICK g \in [0..N -> V] : g[0] = base /\ \A i \in 1..N : g[i] = step[<<i, g[i - 1]>>]
  <2>1. Recursive(N, V, base, step)
    <3> HIDE DEF N, V, base, step
    <3>1. QED BY <1>1, <1>2, <1>6, Recursion
  <2> HIDE DEF N, V, base, step
  <2>2. QED BY <2>1 DEF Recursive
<1> DEFINE total == [T \in SUBSET S |-> g[Cardinality(T)][T]]
<1>8. ASSUME NEW T \in SUBSET S
      PROVE  IsFiniteSet(T) /\ Cardinality(T) \in 0..N
  <2>1. IsFiniteSet(T) /\ Cardinality(T) <= N
    BY FS_Subset
  <2>2. Cardinality(T) \in Nat
    BY <2>1, FS_CardinalityType
  <2> HIDE DEF N
  <2>3. QED BY <1>1, <2>1, <2>2
<1>9. total \in [SUBSET S -> Nat]
  <2>1. ASSUME NEW T \in SUBSET S PROVE g[Cardinality(T)][T] \in Nat
    <3>1. g[Cardinality(T)] \in V
      BY <1>7, <1>8
    <3>2. QED BY <3>1
  <2>2. QED BY <2>1
<1>10. ASSUME NEW T \in SUBSET S
       PROVE  total[T] = IF T = {} THEN 0 ELSE f[Chosen(T)] + total[T \ {Chosen(T)}]
  <2>1. CASE T = {}
    <3>1. Cardinality(T) = 0
      BY <2>1, FS_EmptySet
    <3>2. total[T] = base[T]
      BY <1>7, <3>1
    <3>3. QED BY <2>1, <3>2
  <2>2. CASE T # {}
    <3> DEFINE x == Chosen(T)
               n == Cardinality(T)
    <3>1. x \in T /\ T \ {x} \in SUBSET S
      BY <1>3, <2>2
    <3>2. n \in 0..N /\ Cardinality(T \ {x}) = n - 1 /\ Cardinality(T \ {x}) \in 0..N
      BY <1>8, <3>1, FS_RemoveElement
    <3> HIDE DEF x, n, N, base, V, step, next
    <3>3. n \in 1..N /\ n - 1 \in 0..N
      BY <1>1, <3>2
    <3>4. g[n - 1] \in V /\ g[n] = step[<<n, g[n - 1]>>]
      BY <1>7, <3>3
    <3>5. g[n] = next(g[n - 1])
      BY <1>5, <3>3, <3>4
    <3>6. g[n][T] = f[x] + g[n - 1][T \ {x}]
      BY <2>2, <3>5 DEF next, x
    <3>7. total[T] = g[n][T] /\ total[T \ {x}] = g[n - 1][T \ {x}]
      BY <3>1, <3>2 DEF n
    <3>8. QED BY <2>2, <3>6, <3>7 DEF x
  <2>3. QED BY <2>1, <2>2
<1>11. Adds(f, S, total)
  <2>1. total = [T \in SUBSET S |-> total[T]]
    OBVIOUS
  <2> HIDE DEF total
  <2>2. QED BY <1>10, <2>1 DEF Adds
<1>12. QED BY <1>9, <1>11

(***************************************************************************)
(* It is the same on a smaller set, and so is the sum of the library.      *)
(***************************************************************************)
LEMMA AddsAgree ==
    ASSUME NEW S, IsFiniteSet(S), NEW f, NEW g, NEW h, NEW A, NEW B,
           S \subseteq A, S \subseteq B, Adds(f, A, g), Adds(f, B, h)
    PROVE  g[S] = h[S]
<1> DEFINE C == {T \in SUBSET S : g[T] = h[T]}
<1>1. ASSUME NEW T \in SUBSET S, \A U \in SUBSET T : U # T => U \in C
      PROVE  T \in C
  <2>1. g[T] = IF T = {} THEN 0 ELSE f[Chosen(T)] + g[T \ {Chosen(T)}]
    BY T \in SUBSET A DEF Adds
  <2>2. h[T] = IF T = {} THEN 0 ELSE f[Chosen(T)] + h[T \ {Chosen(T)}]
    BY T \in SUBSET B DEF Adds
  <2>3. T # {} => g[T \ {Chosen(T)}] = h[T \ {Chosen(T)}]
    <3> SUFFICES ASSUME T # {} PROVE g[T \ {Chosen(T)}] = h[T \ {Chosen(T)}]
      OBVIOUS
    <3>1. Chosen(T) \in T
      BY DEF Chosen
    <3>2. T \ {Chosen(T)} \in SUBSET T /\ T \ {Chosen(T)} # T
      BY <3>1
    <3>3. T \ {Chosen(T)} \in C
      BY <1>1, <3>2
    <3>4. QED BY <3>3
  <2>4. g[T] = h[T]
    BY <2>1, <2>2, <2>3
  <2>5. QED BY <2>4
<1> HIDE DEF C
<1>2. S \in C
  <2>1. S \in SUBSET S
    OBVIOUS
  <2>2. \A T \in SUBSET S : (\A U \in SUBSET T : U # T => U \in C) => T \in C
    BY <1>1
  <2>3. \A T \in SUBSET S : T \in C
    BY <2>2, SubsetInduction
  <2>4. QED BY <2>1, <2>3
<1>3. QED BY <1>2 DEF C

LEMMA SumIs ==
    ASSUME NEW S, IsFiniteSet(S), NEW f, \A x \in S : f[x] \in Nat
    PROVE  \E total \in [SUBSET S -> Nat] :
             Adds(f, S, total) /\ SumFunctionOnSet(f, S) = total[S]
<1> DEFINE iter == CHOOSE total : Adds(f, S, total)
<1>1. PICK total \in [SUBSET S -> Nat] : Adds(f, S, total)
  BY AddsExists
<1>2. Adds(f, S, iter)
  BY <1>1
<1>3. SumFunctionOnSet(f, S) = iter[S]
  BY DEF SumFunctionOnSet, FoldFunctionOnSet, MapThenFoldSet, Adds, Chosen
<1> HIDE DEF iter
<1>4. S \subseteq S
  OBVIOUS
<1>5. iter[S] = total[S]
  BY <1>1, <1>2, <1>4, AddsAgree
<1>6. QED BY <1>1, <1>3, <1>5

(***************************************************************************)
(* A sum is a number; an element can be taken out of it.                   *)
(***************************************************************************)
LEMMA SumType ==
    ASSUME NEW S, IsFiniteSet(S), NEW f, \A x \in S : f[x] \in Nat
    PROVE  SumFunctionOnSet(f, S) \in Nat
<1>1. PICK total \in [SUBSET S -> Nat] : SumFunctionOnSet(f, S) = total[S]
  BY SumIs
<1>2. S \in SUBSET S
  OBVIOUS
<1>3. QED BY <1>1, <1>2

LEMMA SumEmpty ==
    ASSUME NEW f
    PROVE  SumFunctionOnSet(f, {}) = 0
<1>1. IsFiniteSet({}) /\ \A x \in {} : f[x] \in Nat
  BY FS_EmptySet
<1>2. PICK total \in [SUBSET {} -> Nat] : Adds(f, {}, total) /\ SumFunctionOnSet(f, {}) = total[{}]
  BY <1>1, SumIs
<1>3. QED BY <1>2 DEF Adds

LEMMA SumChosen ==
    ASSUME NEW S, IsFiniteSet(S), S # {}, NEW f, \A x \in S : f[x] \in Nat
    PROVE  SumFunctionOnSet(f, S) = f[Chosen(S)] + SumFunctionOnSet(f, S \ {Chosen(S)})
<1> DEFINE x == Chosen(S)
           T == S \ {x}
<1>1. x \in S
  BY DEF Chosen
<1>2. IsFiniteSet(T)
  BY FS_Subset
<1>3. PICK g \in [SUBSET S -> Nat] : Adds(f, S, g) /\ SumFunctionOnSet(f, S) = g[S]
  BY SumIs
<1>4. \A z \in T : f[z] \in Nat
  OBVIOUS
<1>5. PICK h \in [SUBSET T -> Nat] : Adds(f, T, h) /\ SumFunctionOnSet(f, T) = h[T]
  <2> HIDE DEF T
  <2>1. QED BY <1>2, <1>4, SumIs
<1>6. g[S] = f[x] + g[T]
  <2>1. S \in SUBSET S
    OBVIOUS
  <2>2. QED BY <1>3, <2>1 DEF Adds
<1>7. g[T] = h[T]
  <2>1. T \subseteq T /\ T \subseteq S
    OBVIOUS
  <2> HIDE DEF T
  <2>2. QED BY <1>2, <1>3, <1>5, <2>1, AddsAgree
<1>8. QED BY <1>3, <1>5, <1>6, <1>7

LEMMA SumTakeOut ==
    ASSUME NEW S, IsFiniteSet(S), NEW f, \A z \in S : f[z] \in Nat, NEW x \in S
    PROVE  SumFunctionOnSet(f, S) = f[x] + SumFunctionOnSet(f, S \ {x})
<1> DEFINE Sum(T) == SumFunctionOnSet(f, T)
           C == {T \in SUBSET S : \A u \in T : Sum(T) = f[u] + Sum(T \ {u})}
<1>1. ASSUME NEW T \in SUBSET S
      PROVE  IsFiniteSet(T) /\ Sum(T) \in Nat /\ \A z \in T : f[z] \in Nat
  <2>1. IsFiniteSet(T) /\ \A z \in T : f[z] \in Nat
    BY FS_Subset
  <2>2. QED BY <2>1, SumType
<1>2. ASSUME NEW T \in SUBSET S, T # {}
      PROVE  Chosen(T) \in T /\ Sum(T) = f[Chosen(T)] + Sum(T \ {Chosen(T)})
  <2>1. Chosen(T) \in T
    BY <1>2 DEF Chosen
  <2>2. QED BY <1>1, <1>2, <2>1, SumChosen
<1> HIDE DEF Sum
<1>3. ASSUME NEW T \in SUBSET S, \A U \in SUBSET T : U # T => U \in C
      PROVE  T \in C
  <2> SUFFICES ASSUME NEW u \in T PROVE Sum(T) = f[u] + Sum(T \ {u})
    OBVIOUS
  <2> DEFINE y == Chosen(T)
  <2>1. y \in T /\ Sum(T) = f[y] + Sum(T \ {y})
    BY <1>2
  <2> HIDE DEF y
  <2>2. CASE u = y
    BY <2>1, <2>2
  <2>3. CASE u # y
    <3>1. T \ {y} \in C /\ T \ {u} \in C
      BY <1>3, <2>1
    <3>2. u \in T \ {y} /\ y \in T \ {u}
      BY <2>1, <2>3
    <3>3. Sum(T \ {y}) = f[u] + Sum((T \ {y}) \ {u})
      BY <3>1, <3>2
    <3>4. Sum(T \ {u}) = f[y] + Sum((T \ {u}) \ {y})
      BY <3>1, <3>2
    <3>5. (T \ {y}) \ {u} = (T \ {u}) \ {y}
      OBVIOUS
    <3>6. /\ f[u] \in Nat /\ f[y] \in Nat /\ Sum((T \ {u}) \ {y}) \in Nat
      BY <1>1, <2>1
    <3>7. QED BY <2>1, <3>3, <3>4, <3>5, <3>6
  <2>4. QED BY <2>2, <2>3
<1> HIDE DEF C
<1>4. S \in C
  <2>1. S \in SUBSET S
    OBVIOUS
  <2>2. QED BY <1>3, <2>1, SubsetInduction
<1>5. QED BY <1>4 DEF C, Sum

(***************************************************************************)
(* A sum of greater numbers, and of more of them, is greater.              *)
(***************************************************************************)
LEMMA SumGrows ==
    ASSUME NEW S, IsFiniteSet(S), NEW f, NEW g, \A z \in S : g[z] \in Nat
    PROVE  \A T \in SUBSET S :
             (\A z \in T : f[z] \in Nat /\ f[z] < g[z])
             => /\ SumFunctionOnSet(f, T) <= SumFunctionOnSet(g, S)
                /\ T # {} => SumFunctionOnSet(f, T) < SumFunctionOnSet(g, S)
<1> DEFINE F(T) == SumFunctionOnSet(f, T)
           G(T) == SumFunctionOnSet(g, T)
           Less(T) == \A z \in T : f[z] \in Nat /\ f[z] < g[z]
           C == {U \in SUBSET S : \A T \in SUBSET U : Less(T) =>
                    F(T) <= G(U) /\ (T # {} => F(T) < G(U))}
<1>1. ASSUME NEW U \in SUBSET S
      PROVE  IsFiniteSet(U) /\ G(U) \in Nat /\ \A z \in U : g[z] \in Nat
  <2>1. IsFiniteSet(U) /\ \A z \in U : g[z] \in Nat
    BY FS_Subset
  <2>2. QED BY <2>1, SumType
<1>2. ASSUME NEW T \in SUBSET S, Less(T)
      PROVE  IsFiniteSet(T) /\ F(T) \in Nat /\ \A z \in T : f[z] \in Nat
  <2>1. IsFiniteSet(T) /\ \A z \in T : f[z] \in Nat
    BY <1>2, FS_Subset
  <2>2. QED BY <2>1, SumType
<1>3. F({}) = 0
  BY SumEmpty
<1>4. ASSUME NEW U \in SUBSET S, NEW u \in U PROVE G(U) = g[u] + G(U \ {u})
  BY <1>1, SumTakeOut
<1>5. ASSUME NEW T \in SUBSET S, Less(T), NEW u \in T PROVE F(T) = f[u] + F(T \ {u})
  BY <1>2, <1>5, SumTakeOut
<1>6. ASSUME NEW T \in SUBSET S, Less(T), NEW u PROVE Less(T \ {u})
  BY <1>6
<1> HIDE DEF F, G
<1>7. ASSUME NEW U \in SUBSET S, \A W \in SUBSET U : W # U => W \in C
      PROVE  U \in C
  <2> SUFFICES ASSUME NEW T \in SUBSET U, Less(T)
               PROVE  F(T) <= G(U) /\ (T # {} => F(T) < G(U))
    OBVIOUS
  <2>1. CASE T = {}
    BY <1>1, <1>3, <2>1
  <2>2. CASE T # {}
    <3>1. PICK u \in T : TRUE
      BY <2>2
    <3>2. U \ {u} \in C
      BY <1>7, <3>1
    <3>3. Less(T \ {u}) /\ T \ {u} \in SUBSET (U \ {u})
      BY <1>6
    <3>4. F(T \ {u}) <= G(U \ {u})
      BY <3>2, <3>3
    <3>5. F(T) = f[u] + F(T \ {u}) /\ G(U) = g[u] + G(U \ {u})
      BY <1>4, <1>5, <3>1
    <3>6. f[u] \in Nat /\ g[u] \in Nat /\ f[u] < g[u]
      BY <3>1
    <3>7. F(T \ {u}) \in Nat /\ G(U \ {u}) \in Nat
      BY <1>1, <1>2, <3>3
    <3>8. QED BY <3>4, <3>5, <3>6, <3>7
  <2>3. QED BY <2>1, <2>2
<1>8. S \in C
  <2> HIDE DEF C
  <2>1. S \in SUBSET S
    OBVIOUS
  <2>2. QED BY <1>7, <2>1, SubsetInduction
<1>9. QED BY <1>8 DEF F, G

-----------------------------------------------------------------------------
\* Sorted lists.

(***************************************************************************)
(* A strict order of all of ids.                                           *)
(***************************************************************************)
Total(ids, before) ==
    /\ \A i \in ids : <<i, i>> \notin before
    /\ \A i, j, k \in ids : <<i, j>> \in before /\ <<j, k>> \in before => <<i, k>> \in before
    /\ \A i, j \in ids : i # j => <<i, j>> \in before \/ <<j, i>> \in before

(***************************************************************************)
(* Ordered has each of ids once, and each after those before it.           *)
(***************************************************************************)
LEMMA OrderedIs ==
    ASSUME NEW ids, IsFiniteSet(ids), NEW before, Total(ids, before)
    PROVE  LET n == Cardinality(ids)
               o == Ordered(ids, before)
           IN  /\ n \in Nat /\ o \in [1..n -> ids]
               /\ \A k, m \in 1..n : k < m => <<o[k], o[m]>> \in before
               /\ \A i \in ids : \E k \in 1..n : o[k] = i
<1> DEFINE n == Cardinality(ids)
           o == Ordered(ids, before)
           Prior(i) == {j \in ids : <<j, i>> \in before}
           rank(i) == Cardinality(Prior(i))
<1>1. n \in Nat
  BY FS_CardinalityType
<1>2. ASSUME NEW i \in ids
      PROVE  /\ Prior(i) \in SUBSET (ids \ {i}) /\ i \notin Prior(i)
             /\ \A j \in ids : <<i, j>> \in before =>
                    (Prior(i) \cup {i}) \in SUBSET Prior(j)
  BY DEF Total
<1> HIDE DEF Prior
<1>3. ASSUME NEW i \in ids
      PROVE  IsFiniteSet(Prior(i)) /\ rank(i) \in 0..(n - 1)
  <2>1. IsFiniteSet(ids \ {i}) /\ Cardinality(ids \ {i}) = n - 1
    BY FS_RemoveElement
  <2>2. IsFiniteSet(Prior(i)) /\ rank(i) <= n - 1
    BY <1>2, <2>1, FS_Subset
  <2>3. rank(i) \in Nat
    BY <2>2, FS_CardinalityType
  <2> HIDE DEF rank, n
  <2>4. QED BY <1>1, <2>2, <2>3
<1>4. ASSUME NEW i \in ids, NEW j \in ids, <<i, j>> \in before
      PROVE  rank(i) < rank(j)
  <2>1. Cardinality(Prior(i) \cup {i}) = rank(i) + 1
    BY <1>2, <1>3, FS_AddElement
  <2>2. Cardinality(Prior(i) \cup {i}) <= rank(j)
    BY <1>2, <1>3, <1>4, FS_Subset
  <2>3. rank(i) \in Nat /\ rank(j) \in Nat
    BY <1>3, FS_CardinalityType
  <2> HIDE DEF rank
  <2>4. QED BY <2>1, <2>2, <2>3
<1>5. ASSUME NEW i \in ids, NEW j \in ids, i # j
      PROVE  rank(i) # rank(j)
  <2>1. rank(i) \in Nat /\ rank(j) \in Nat
    BY <1>3, FS_CardinalityType
  <2>2. rank(i) < rank(j) \/ rank(j) < rank(i)
    BY <1>4, <1>5 DEF Total
  <2> HIDE DEF rank
  <2>3. QED BY <2>1, <2>2
<1> DEFINE f == [i \in ids |-> rank(i)]
<1>6. \A v \in 0..(n - 1) : \E i \in ids : rank(i) = v
  <2>1. f \in [ids -> 0..(n - 1)]
    BY <1>3
  <2>2. f \in Injection(ids, 0..(n - 1))
    BY <1>5, <2>1 DEF Injection, IsInjective
  <2>3. IsFiniteSet(0..(n - 1)) /\ Cardinality(0..(n - 1)) = n
    BY <1>1, FS_Interval
  <2>4. f \in Surjection(ids, 0..(n - 1))
    BY <2>2, <2>3, FS_Injection
  <2>5. \A v \in 0..(n - 1) : \E i \in ids : f[i] = v
    BY <2>4 DEF Surjection
  <2>6. QED BY <2>5
<1>7. o = [k \in 1..n |-> CHOOSE i \in ids : rank(i) = k - 1]
  BY DEF Ordered, rank, Prior
<1>8. \A i \in ids : rank(i) \in 0..(n - 1)
  BY <1>3
<1> HIDE DEF o, n, rank
<1>9. ASSUME NEW k \in 1..n
      PROVE  o[k] \in ids /\ rank(o[k]) = k - 1
  <2>1. k - 1 \in 0..(n - 1)
    BY <1>1
  <2>2. \E i \in ids : rank(i) = k - 1
    BY <1>6, <2>1
  <2>3. o[k] = CHOOSE i \in ids : rank(i) = k - 1
    BY <1>7
  <2>4. QED BY <2>2, <2>3
<1>10. o \in [1..n -> ids]
  BY <1>7, <1>9
<1>11. ASSUME NEW k \in 1..n, NEW m \in 1..n, k < m
       PROVE  <<o[k], o[m]>> \in before
  <2>1. rank(o[k]) < rank(o[m]) /\ o[k] \in ids /\ o[m] \in ids
    BY <1>1, <1>9, <1>11
  <2>2. rank(o[k]) \in Nat /\ rank(o[m]) \in Nat
    BY <1>1, <1>8, <2>1
  <2>3. o[k] # o[m] /\ <<o[m], o[k]>> \notin before
    BY <1>4, <2>1, <2>2
  <2>4. QED BY <2>1, <2>3 DEF Total
<1>12. ASSUME NEW i \in ids
       PROVE  \E k \in 1..n : o[k] = i
  <2>1. rank(i) + 1 \in 1..n /\ (rank(i) + 1) - 1 = rank(i)
    BY <1>1, <1>8
  <2>2. o[rank(i) + 1] \in ids /\ rank(o[rank(i) + 1]) = rank(i)
    BY <1>9, <2>1
  <2>3. QED BY <1>5, <2>1, <2>2
<1>13. QED BY <1>1, <1>10, <1>11, <1>12 DEF o, n

(***************************************************************************)
(* Ascending has each of ids once, and each after the smaller ones.        *)
(***************************************************************************)
LEMMA AscendingIs ==
    ASSUME NEW ids \in SUBSET Nat, IsFiniteSet(ids)
    PROVE  LET n == Cardinality(ids)
               o == Ascending(ids)
           IN  /\ n \in Nat /\ o \in [1..n -> ids]
               /\ \A k, m \in 1..n : k < m => o[k] < o[m]
               /\ \A i \in ids : \E k \in 1..n : o[k] = i
<1> DEFINE before == {p \in ids \X ids : p[1] < p[2]}
           n == Cardinality(ids)
           o == Ascending(ids)
<1>1. \A i, j \in ids : <<i, j>> \in before <=> i < j
  OBVIOUS
<1>2. Total(ids, before)
  <2> HIDE DEF before
  <2>1. \A i \in ids : i \in Nat
    OBVIOUS
  <2>2. QED BY <1>1, <2>1 DEF Total
<1>3. o = Ordered(ids, before)
  <2> DEFINE A(i) == Cardinality({j \in ids : j < i})
             B(i) == Cardinality({j \in ids : <<j, i>> \in before})
  <2>1. \A i \in ids : {j \in ids : <<j, i>> \in before} = {j \in ids : j < i}
    BY <1>1
  <2>2. \A i \in ids : A(i) = B(i)
    BY <2>1
  <2> HIDE DEF A, B
  <2>3. ASSUME NEW k \in 1..n
        PROVE  (CHOOSE i \in ids : A(i) = k - 1) = (CHOOSE i \in ids : B(i) = k - 1)
    BY <2>2
  <2>4. o = [k \in 1..n |-> CHOOSE i \in ids : A(i) = k - 1]
    BY DEF Ascending, A
  <2>5. Ordered(ids, before) = [k \in 1..n |-> CHOOSE i \in ids : B(i) = k - 1]
    BY DEF Ordered, B
  <2>6. QED BY <2>3, <2>4, <2>5
<1> HIDE DEF before, o
<1>4. /\ n \in Nat /\ o \in [1..n -> ids]
      /\ \A k, m \in 1..n : k < m => <<o[k], o[m]>> \in before
      /\ \A i \in ids : \E k \in 1..n : o[k] = i
  BY <1>2, <1>3, OrderedIs
<1>5. \A k, m \in 1..n : k < m => o[k] < o[m]
  BY <1>1, <1>4
<1>6. QED BY <1>4, <1>5 DEF o

-----------------------------------------------------------------------------
\* Lists put end to end.

(***************************************************************************)
(* place says where each entry of flat is from: the first n lists of seqs, *)
(* every entry of them, in their order.                                    *)
(***************************************************************************)
Before(p, q) == p[1] < q[1] \/ (p[1] = q[1] /\ p[2] < q[2])

Placed(flat, seqs, n, place) ==
    /\ place \in [1..Len(flat) -> Nat \X Nat]
    /\ \A k \in 1..Len(flat) :
         /\ place[k][1] \in 1..n /\ place[k][2] \in 1..Len(seqs[place[k][1]])
         /\ flat[k] = seqs[place[k][1]][place[k][2]]
    /\ \A k, m \in 1..Len(flat) : k < m => Before(place[k], place[m])
    /\ \A i \in 1..n : \A j \in 1..Len(seqs[i]) :
         \E k \in 1..Len(flat) : place[k] = <<i, j>>

(***************************************************************************)
(* One list more at the end.                                               *)
(***************************************************************************)
LEMMA PlacedStep ==
    ASSUME NEW S, NEW seqs \in Seq(Seq(S)), NEW n \in Nat, n + 1 <= Len(seqs),
           NEW flat \in Seq(S), NEW place, Placed(flat, seqs, n, place)
    PROVE  \E p : Placed(flat \o seqs[n + 1], seqs, n + 1, p)
<1> DEFINE more == seqs[n + 1]
           both == flat \o more
           L == Len(flat)
           p == [k \in 1..Len(both) |-> IF k <= L THEN place[k] ELSE <<n + 1, k - L>>]
<1>1. more \in Seq(S) /\ L \in Nat /\ Len(more) \in Nat
  OBVIOUS
<1>2. Len(both) = L + Len(more)
  BY <1>1
<1>3. \A k \in 1..L : both[k] = flat[k]
  BY <1>1
<1>4. \A k \in (L + 1)..Len(both) : both[k] = more[k - L]
  BY <1>1
<1>5. ASSUME NEW k \in 1..L
      PROVE  /\ k \in 1..Len(both) /\ p[k] = place[k]
             /\ place[k] \in Nat \X Nat /\ place[k][1] \in 1..n
             /\ place[k][2] \in 1..Len(seqs[place[k][1]])
             /\ both[k] = seqs[place[k][1]][place[k][2]]
  <2>1. k \in 1..Len(both) /\ k <= L
    BY <1>1, <1>2
  <2>2. p[k] = place[k]
    BY <2>1
  <2>3. QED BY <1>3, <2>1, <2>2 DEF Placed
<1>6. ASSUME NEW k \in (L + 1)..Len(both)
      PROVE  /\ k \in 1..Len(both) /\ p[k] = <<n + 1, k - L>>
             /\ k - L \in 1..Len(more) /\ k - L \in Nat
             /\ both[k] = more[k - L]
  <2>1. k \in 1..Len(both) /\ ~(k <= L) /\ k - L \in 1..Len(more) /\ k - L \in Nat
    BY <1>1, <1>2
  <2>2. p[k] = <<n + 1, k - L>>
    BY <2>1
  <2>3. QED BY <1>4, <2>1, <2>2
<1>7. \A k \in 1..Len(both) : k \in 1..L \/ k \in (L + 1)..Len(both)
  BY <1>1, <1>2
<1>8. \A k \in 1..Len(both) : p[k] = IF k <= L THEN place[k] ELSE <<n + 1, k - L>>
  OBVIOUS
<1>9. DOMAIN p = 1..Len(both) /\ p = [k \in 1..Len(both) |-> p[k]]
  OBVIOUS
<1> HIDE DEF p, both, more, L
<1>10. ASSUME NEW k \in 1..Len(both) PROVE p[k] \in Nat \X Nat
  <2>1. CASE k \in 1..L
    BY <1>5, <2>1
  <2>2. CASE k \in (L + 1)..Len(both)
    <3>1. p[k] = <<n + 1, k - L>> /\ k - L \in Nat
      BY <1>6, <2>2
    <3>2. n + 1 \in Nat
      OBVIOUS
    <3>3. QED BY <3>1, <3>2
  <2>3. QED BY <1>7, <2>1, <2>2
<1>11. p \in [1..Len(both) -> Nat \X Nat]
  BY <1>9, <1>10
<1>12. ASSUME NEW k \in 1..Len(both)
       PROVE  /\ p[k][1] \in 1..(n + 1) /\ p[k][2] \in 1..Len(seqs[p[k][1]])
              /\ both[k] = seqs[p[k][1]][p[k][2]]
  <2>1. CASE k \in 1..L
    <3>1. p[k] = place[k] /\ place[k][1] \in 1..n
          /\ place[k][2] \in 1..Len(seqs[place[k][1]])
          /\ both[k] = seqs[place[k][1]][place[k][2]]
      BY <1>5, <2>1
    <3>2. place[k][1] \in 1..(n + 1)
      BY <3>1
    <3>3. QED BY <3>1, <3>2
  <2>2. CASE k \in (L + 1)..Len(both)
    <3>1. p[k] = <<n + 1, k - L>> /\ k - L \in 1..Len(more) /\ both[k] = more[k - L]
      BY <1>6, <2>2
    <3>2. p[k][1] = n + 1 /\ p[k][2] = k - L
      BY <3>1
    <3>3. n + 1 \in 1..(n + 1)
      OBVIOUS
    <3>4. QED BY <3>1, <3>2, <3>3 DEF more
  <2>3. QED BY <1>7, <2>1, <2>2
<1>13. ASSUME NEW k \in 1..Len(both), NEW m \in 1..Len(both), k < m
       PROVE  Before(p[k], p[m])
  <2>1. CASE m \in 1..L
    <3>1. k \in 1..L
      BY <1>1, <1>13, <2>1
    <3>2. p[k] = place[k] /\ p[m] = place[m]
      BY <1>5, <2>1, <3>1
    <3>3. QED BY <1>13, <2>1, <3>1, <3>2 DEF Placed, L
  <2>2. CASE k \in 1..L /\ m \in (L + 1)..Len(both)
    <3>1. p[k] = place[k] /\ place[k][1] \in 1..n
      BY <1>5, <2>2
    <3>2. p[m] = <<n + 1, m - L>>
      BY <1>6, <2>2
    <3>3. p[k][1] < n + 1 /\ p[m][1] = n + 1
      BY <3>1, <3>2
    <3>4. QED BY <3>3 DEF Before
  <2>3. CASE k \in (L + 1)..Len(both) /\ m \in (L + 1)..Len(both)
    <3>1. p[k] = <<n + 1, k - L>> /\ p[m] = <<n + 1, m - L>>
      BY <1>6, <2>3
    <3>2. k - L < m - L
      BY <1>1, <1>13
    <3>3. p[k][1] = p[m][1] /\ p[k][2] < p[m][2]
      BY <3>1, <3>2
    <3>4. QED BY <3>3 DEF Before
  <2>4. k \in (L + 1)..Len(both) => m \in (L + 1)..Len(both)
    BY <1>1, <1>13
  <2>5. QED BY <1>7, <2>1, <2>2, <2>3, <2>4
<1>14. ASSUME NEW i \in 1..(n + 1), NEW j \in 1..Len(seqs[i])
       PROVE  \E k \in 1..Len(both) : p[k] = <<i, j>>
  <2>1. CASE i \in 1..n
    <3>1. PICK k \in 1..L : place[k] = <<i, j>>
      BY <2>1 DEF Placed, L
    <3>2. QED BY <1>5, <3>1
  <2>2. CASE i = n + 1
    <3>1. j \in 1..Len(more) /\ j \in Nat
      BY <2>2 DEF more
    <3>2. L + j \in (L + 1)..Len(both) /\ (L + j) - L = j
      BY <1>1, <1>2, <3>1
    <3>3. p[L + j] = <<n + 1, j>> /\ L + j \in 1..Len(both)
      BY <1>6, <3>2
    <3>4. QED BY <2>2, <3>3
  <2>3. QED BY <2>1, <2>2
<1>15. Placed(both, seqs, n + 1, p)
  BY <1>11, <1>12, <1>13, <1>14 DEF Placed
<1>16. QED BY <1>15 DEF both, more

(***************************************************************************)
(* FlattenSeq has every entry of every list, in order.                     *)
(***************************************************************************)
LEMMA FlattenIs ==
    ASSUME NEW S, NEW seqs \in Seq(Seq(S))
    PROVE  /\ FlattenSeq(seqs) \in Seq(S)
           /\ \E place : Placed(FlattenSeq(seqs), seqs, Len(seqs), place)
<1> DEFINE N == Len(seqs)
           step == [q \in (1..N) \X Seq(S) |-> q[2] \o seqs[q[1]]]
<1>1. N \in Nat /\ \A i \in 1..N : seqs[i] \in Seq(S)
  OBVIOUS
<1>2. \A i \in 1..N, t \in Seq(S) : step[<<i, t>>] = t \o seqs[i]
  OBVIOUS
<1>3. step \in [(1..N) \X Seq(S) -> Seq(S)]
  BY <1>1
<1>4. <<>> \in Seq(S)
  OBVIOUS
<1> HIDE DEF step
<1>5. PICK f \in [0..N -> Seq(S)] : f[0] = <<>> /\ \A i \in 1..N : f[i] = step[<<i, f[i - 1]>>]
  <2> DEFINE V == Seq(S)
             base == <<>>
  <2>1. base \in V /\ step \in [(1..N) \X V -> V] /\ N \in Nat
    BY <1>1, <1>3, <1>4
  <2> HIDE DEF N, V, base
  <2>2. Recursive(N, V, base, step)
    BY <2>1, Recursion
  <2>3. QED BY <2>2 DEF Recursive, V, base
<1>6. ASSUME NEW i \in 1..N
      PROVE  i - 1 \in 0..N /\ f[i] = f[i - 1] \o seqs[i]
  <2>1. i - 1 \in 0..N
    BY <1>1
  <2>2. f[i - 1] \in Seq(S)
    BY <1>5, <2>1
  <2>3. f[i] = step[<<i, f[i - 1]>>]
    BY <1>5
  <2>4. QED BY <1>2, <2>1, <2>2, <2>3
<1>6a. N # 0 => f[1] = seqs[1]
  <2> SUFFICES ASSUME N # 0 PROVE f[1] = seqs[1]
    OBVIOUS
  <2>1. 1 \in 1..N /\ 1 - 1 = 0
    BY <1>1
  <2>2. f[1] = f[0] \o seqs[1] /\ seqs[1] \in Seq(S)
    BY <1>1, <1>6, <2>1
  <2>3. QED BY <1>5, <2>2
<1> DEFINE Good == {m \in Nat : m <= N => \E place : Placed(f[m], seqs, m, place)}
<1>7. 0 \in Good
  <2> DEFINE place == [k \in 1..0 |-> <<k, k>>]
  <2>1. 1..0 = {} /\ Len(f[0]) = 0
    BY <1>5
  <2>2. place \in [1..0 -> Nat \X Nat]
    BY <2>1
  <2> HIDE DEF place
  <2>3. Placed(f[0], seqs, 0, place)
    BY <2>1, <2>2 DEF Placed
  <2>4. QED BY <2>3
<1>8. ASSUME NEW m \in Nat, m \in Good PROVE m + 1 \in Good
  <2> SUFFICES ASSUME m + 1 <= N PROVE \E place : Placed(f[m + 1], seqs, m + 1, place)
    OBVIOUS
  <2>1. PICK place : Placed(f[m], seqs, m, place)
    BY <1>1, <1>8
  <2>2. m + 1 \in 1..N /\ (m + 1) - 1 = m /\ m \in 0..N
    BY <1>1
  <2>3. f[m + 1] = f[m] \o seqs[m + 1]
    <3>1. f[m + 1] = f[(m + 1) - 1] \o seqs[m + 1]
      BY <1>6, <2>2
    <3>2. QED BY <2>2, <3>1
  <2>3a. f[m] \in Seq(S)
    BY <1>5, <2>2
  <2>4. \E p : Placed(f[m] \o seqs[m + 1], seqs, m + 1, p)
    BY <2>1, <2>3a, PlacedStep
  <2>5. QED BY <2>3, <2>4
<1> HIDE DEF Good
<1>9. N \in Good
  BY <1>1, <1>7, <1>8, Induction
<1>10. f[N] \in Seq(S) /\ \E place : Placed(f[N], seqs, N, place)
  <2> HIDE DEF N
  <2>1. f[N] \in Seq(S)
    BY <1>1, <1>5
  <2>2. \E place : Placed(f[N], seqs, N, place)
    BY <1>1, <1>9 DEF Good
  <2>3. QED BY <2>1, <2>2
<1>11. FlattenSeq(seqs) = f[N]
  <2>1. CASE N = 0
    BY <1>5, <2>1 DEF FlattenSeq
  <2>2. CASE N # 0
    <3> DEFINE eq(h) == h = [i \in 1..N |-> IF i = 1 THEN seqs[i] ELSE h[i - 1] \o seqs[i]]
               g == [i \in 1..N |-> f[i]]
               h == CHOOSE h : eq(h)
    <3>1. ASSUME NEW i \in 1..N
          PROVE  g[i] = IF i = 1 THEN seqs[i] ELSE g[i - 1] \o seqs[i]
      <4>1. CASE i = 1
        BY <1>6a, <2>2, <4>1
      <4>2. CASE i # 1
        <5>1. i - 1 \in 1..N
          BY <1>1, <4>2
        <5>2. QED BY <1>6, <4>2, <5>1
      <4>3. QED BY <4>1, <4>2
    <3>2. eq(g)
      BY <3>1
    <3>3. eq(h)
      BY <3>2
    <3>4. FlattenSeq(seqs) = h[N]
      BY <2>2 DEF FlattenSeq
    <3> DEFINE Same == {m \in Nat : m \in 1..N => h[m] = f[m]}
    <3>5. \A i \in 1..N : h[i] = IF i = 1 THEN seqs[i] ELSE h[i - 1] \o seqs[i]
      BY <3>3
    <3> HIDE DEF h, g, eq
    <3>6. 0 \in Same
      OBVIOUS
    <3>7. ASSUME NEW m \in Nat, m \in Same PROVE m + 1 \in Same
      <4> SUFFICES ASSUME m + 1 \in 1..N PROVE h[m + 1] = f[m + 1]
        OBVIOUS
      <4>1. (m + 1) - 1 = m
        OBVIOUS
      <4>2. f[m + 1] = f[m] \o seqs[m + 1]
        BY <1>6, <4>1
      <4>3. CASE m = 0
        <5>1. 1 \in 1..N /\ h[1] = seqs[1]
          BY <3>5, <4>3
        <5>2. QED BY <1>6a, <2>2, <4>3, <5>1
      <4>4. CASE m # 0
        <5>1. m \in 1..N /\ m + 1 # 1
          BY <1>1, <4>4
        <5>2. h[m + 1] = h[m] \o seqs[m + 1]
          BY <3>5, <4>1, <5>1
        <5>3. QED BY <3>7, <4>2, <5>1, <5>2
      <4>5. QED BY <4>3, <4>4
    <3> HIDE DEF Same
    <3>8. N \in Same
      BY <1>1, <3>6, <3>7, Induction
    <3>9. QED BY <1>1, <2>2, <3>4, <3>8 DEF Same
  <2>3. QED BY <2>1, <2>2
<1>12. QED BY <1>10, <1>11
=============================================================================
