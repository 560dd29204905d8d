------------------------------ MODULE DataLemmas ------------------------------
(***************************************************************************)
(* Facts about the data that the components work on: induction over        *)
(* numbers and finite sets, stated for a set of those that have a property *)
(* instead of the property; recursion; quotients; sums; selections.        *)
(***************************************************************************)
EXTENDS Selections, SequencesExt, Integers, FiniteSetTheorems, WellFoundedInduction, TLAPS

-----------------------------------------------------------------------------
(* Induction.                                                               *)

\* Natural numbers have a least one.
LEMMA LeastNat ==
    ASSUME NEW T \in SUBSET Nat, T # {}
    PROVE  \E n \in T : \A m \in T : n <= m
<1>1. \E x \in T : \A y \in T : ~ (<<y, x>> \in OpToRel(<, Nat))
  <2>1. IsWellFoundedOn(OpToRel(<, Nat), Nat)
    BY Zenon, NatLessThanWellFounded
  <2> QED BY Zenon, <2>1, WFMin
<1>2. \A y, x \in Nat : <<y, x>> \in OpToRel(<, Nat) <=> y < x
   BY Zenon DEF OpToRel
<1>3. \E x \in T : \A y \in T : ~(y < x)
   BY Zenon, <1>1, <1>2
<1> QED BY <1>3

\* The numbers that have a property are all numbers.
LEMMA InductionOverNat ==
    ASSUME NEW C, 0 \in C, \A n \in Nat : n \in C => n + 1 \in C
    PROVE  \A n \in Nat : n \in C
<1> SUFFICES ASSUME Nat \ C # {} PROVE FALSE
    OBVIOUS
<1>1. PICK n \in Nat \ C : \A m \in Nat \ C : n <= m
    BY LeastNat
<1>2. n # 0 /\ n - 1 \in Nat /\ ~ n <= n - 1
    BY <1>1
<1>3. n - 1 \in C
    BY <1>1, <1>2
<1>. QED
    BY <1>1, <1>2, <1>3

\* The subsets of a finite set that have a property are all its subsets.
LEMMA InductionOverSets ==
    ASSUME NEW S, IsFiniteSet(S), NEW C, {} \in C,
           \A T \in SUBSET S : T # {} /\ (\A x \in T : T \ {x} \in C) => T \in C
    PROVE  \A T \in SUBSET S : T \in C
<1> DEFINE Small(n) == \A T \in SUBSET S : Cardinality(T) = n => T \in C
           Good == {n \in Nat : Small(n)}
<1>1. \A T \in SUBSET S : IsFiniteSet(T) /\ Cardinality(T) \in Nat
    BY FS_Subset, FS_CardinalityType
<1>2. 0 \in Good
    BY <1>1, FS_EmptySet
<1>3. ASSUME NEW n \in Nat, n \in Good PROVE n + 1 \in Good
  <2> SUFFICES ASSUME NEW T \in SUBSET S, Cardinality(T) = n + 1 PROVE T \in C
      OBVIOUS
  <2>1. T # {} /\ IsFiniteSet(T)
      BY <1>1, FS_EmptySet
  <2>2. ASSUME NEW x \in T PROVE T \ {x} \in C
    <3>1. Cardinality(T \ {x}) = Cardinality(T) - 1
        BY <2>1, FS_RemoveElement
    <3>. QED
        BY <3>1, <1>3
  <2>. QED
      BY <2>1, <2>2
<1> HIDE DEF Good
<1>4. \A n \in Nat : n \in Good
    BY <1>2, <1>3, InductionOverNat
<1>. QED
    BY <1>1, <1>4 DEF Good

-----------------------------------------------------------------------------
(* Recursion.                                                               *)

\* A choice of an element from each set that has one.
PicksFrom(D, pick) == \A s \in SUBSET D : s # {} => pick[s] \in s

\* A function over the subsets of D that takes out one element after the other.
SetRecursion(D, T, base, step, pick, iter) ==
    /\ iter \in [SUBSET D -> T]
    /\ \A s \in SUBSET D :
          iter[s] = IF s = {} THEN base ELSE step[<<pick[s], iter[s \ {pick[s]}]>>]

\* What a loop over 1..N has made after each number.
Loop(N, T, base, step, f) ==
    /\ f \in [0..N -> T]
    /\ f[0] = base
    /\ \A n \in 1..N : f[n] = step[<<f[n - 1], n>>]

LEMMA SetRecursionExists ==
    ASSUME NEW D, IsFiniteSet(D), NEW T, NEW base \in T, NEW step \in [D \X T -> T],
           NEW pick, PicksFrom(D, pick)
    PROVE  \E iter : SetRecursion(D, T, base, step, pick, iter)
<1> USE DEF PicksFrom
<1> DEFINE Subs(n) == {s \in SUBSET D : Cardinality(s) <= n}
           Equation(f, s) == f[s] = IF s = {} THEN base
                                    ELSE step[<<pick[s], f[s \ {pick[s]}]>>]
           Good == {n \in Nat : \E f \in [Subs(n) -> T] : \A s \in Subs(n) : Equation(f, s)}
<1>1. \A s \in SUBSET D : IsFiniteSet(s) /\ Cardinality(s) \in Nat
    BY FS_Subset, FS_CardinalityType
<1>2. \A s \in SUBSET D : Cardinality(s) = 0 <=> s = {}
    BY <1>1, FS_EmptySet
<1>3. ASSUME NEW s \in SUBSET D, s # {}
      PROVE  pick[s] \in s /\ Cardinality(s \ {pick[s]}) = Cardinality(s) - 1
    BY <1>1, <1>3, FS_RemoveElement
<1>4. 0 \in Good
  <2> DEFINE f == [s \in Subs(0) |-> base]
  <2>1. \A s \in Subs(0) : s = {}
      BY <1>1, <1>2
  <2>2. f \in [Subs(0) -> T] /\ \A s \in Subs(0) : Equation(f, s)
      BY <2>1
  <2>. QED
      BY <2>2
<1>5. ASSUME NEW n \in Nat, n \in Good PROVE n + 1 \in Good
  <2>1. PICK f \in [Subs(n) -> T] : \A s \in Subs(n) : Equation(f, s)
      BY <1>5
  <2> DEFINE g == [s \in Subs(n + 1) |->
                      IF Cardinality(s) <= n THEN f[s]
                      ELSE step[<<pick[s], f[s \ {pick[s]}]>>]]
  <2>2. ASSUME NEW s \in Subs(n + 1), s # {}
        PROVE  s \ {pick[s]} \in Subs(n) /\ pick[s] \in D
      BY <1>1, <1>3, <2>2
  <2>3. ASSUME NEW s \in Subs(n + 1) PROVE g[s] \in T
    <3>1. CASE Cardinality(s) <= n
        BY <3>1, <2>1
    <3>2. CASE ~ Cardinality(s) <= n
      <4>1. s # {}
          BY <3>2, <1>2
      <4>2. f[s \ {pick[s]}] \in T
          BY <4>1, <2>1, <2>2
      <4>. QED
          BY <4>1, <4>2, <2>2, <3>2
    <3>. QED
        BY <3>1, <3>2
  <2>4. ASSUME NEW s \in Subs(n + 1) PROVE Equation(g, s)
    <3>0. s # {} => g[s \ {pick[s]}] = f[s \ {pick[s]}]
      <4> SUFFICES ASSUME s # {} PROVE g[s \ {pick[s]}] = f[s \ {pick[s]}]
          OBVIOUS
      <4>1. s \ {pick[s]} \in Subs(n) /\ Subs(n) \subseteq Subs(n + 1)
          BY <2>2, <1>1
      <4>. QED
          BY <4>1
    <3>1. CASE Cardinality(s) <= n
      <4>1. s \in Subs(n) /\ g[s] = f[s]
          BY <3>1
      <4>2. Equation(f, s)
          BY <4>1, <2>1
      <4> HIDE DEF g
      <4>. QED
          BY <3>0, <4>1, <4>2
    <3>2. CASE ~ Cardinality(s) <= n
        BY <3>0, <3>2, <1>2
    <3>. QED
        BY <3>1, <3>2
  <2> HIDE DEF g, Equation, Subs
  <2>5. g \in [Subs(n + 1) -> T]
      BY <2>3 DEF g
  <2>. QED
      BY <2>4, <2>5
<1> HIDE DEF Good
<1>6. Cardinality(D) \in Good
    BY <1>4, <1>5, InductionOverNat, FS_CardinalityType
<1>7. Subs(Cardinality(D)) = SUBSET D
    BY FS_Subset
<1>. QED
    BY <1>6, <1>7 DEF Good, SetRecursion

LEMMA LoopExists ==
    ASSUME NEW N \in Nat, NEW T, NEW base \in T, NEW step \in [T \X (1..N) -> T]
    PROVE  \E f : Loop(N, T, base, step, f)
<1> DEFINE Runs(f, m) == f[0] = base /\ \A n \in 1..m : f[n] = step[<<f[n - 1], n>>]
           Good == {m \in Nat : m <= N => \E f \in [0..m -> T] : Runs(f, m)}
<1>1. 0 \in Good
  <2>1. [k \in 0..0 |-> base] \in [0..0 -> T] /\ Runs([k \in 0..0 |-> base], 0)
      OBVIOUS
  <2>. QED
      BY <2>1
<1>2. ASSUME NEW m \in Nat, m \in Good PROVE m + 1 \in Good
  <2> SUFFICES ASSUME m + 1 <= N PROVE \E f \in [0..m + 1 -> T] : Runs(f, m + 1)
      OBVIOUS
  <2>1. PICK f \in [0..m -> T] : Runs(f, m)
      BY <1>2
  <2> DEFINE g == [k \in 0..m + 1 |-> IF k <= m THEN f[k] ELSE step[<<f[m], m + 1>>]]
  <2>2. \A k \in 0..m : g[k] = f[k]
      OBVIOUS
  <2>3. g[m + 1] = step[<<f[m], m + 1>>] /\ f[m] \in T /\ m + 1 \in 1..N
      BY <2>1
  <2>4. \A k \in 0..m + 1 : g[k] \in T
    <3>1. step[<<f[m], m + 1>>] \in T
        BY <2>3
    <3>. QED
        BY <2>2, <2>3, <3>1, <2>1
  <2>5. \A n \in 1..m + 1 : g[n] = step[<<g[n - 1], n>>]
    <3> SUFFICES ASSUME NEW n \in 1..m + 1 PROVE g[n] = step[<<g[n - 1], n>>]
        OBVIOUS
    <3>1. CASE n = m + 1
      <4>1. n - 1 = m /\ m \in 0..m
          BY <3>1
      <4> HIDE DEF g
      <4>. QED
          BY <3>1, <4>1, <2>2, <2>3
    <3>2. CASE n # m + 1
      <4>1. n \in 1..m /\ n \in 0..m /\ n - 1 \in 0..m
          BY <3>2
      <4>. QED
          BY <4>1, <2>1, <2>2
    <3>. QED
        BY <3>1, <3>2
  <2>6. g \in [0..m + 1 -> T] /\ g[0] = base
      BY <2>1, <2>2, <2>4
  <2>. QED
      BY <2>5, <2>6
<1> HIDE DEF Good
<1>3. N \in Good
    BY <1>1, <1>2, InductionOverNat
<1>. QED
    BY <1>3 DEF Good, Loop

-----------------------------------------------------------------------------
(* Least and greatest numbers, quotients.                                   *)

\* A set of natural numbers that has one has a least one, its minimum.
LEMMA MinIsLeast ==
    ASSUME NEW T \in SUBSET Nat, T # {}
    PROVE  Min(T) \in T /\ \A m \in T : Min(T) <= m
BY LeastNat, Zenon DEF Min

\* One that has a bound has a greatest one, its maximum.
LEMMA MaxIsGreatest ==
    ASSUME NEW T \in SUBSET Nat, T # {}, NEW bound \in Nat, \A m \in T : m <= bound
    PROVE  Max(T) \in T /\ \A m \in T : m <= Max(T)
<1>. DEFINE U == {bound - m : m \in T}
<1>1. \A m \in T : m \in Nat /\ bound - m \in Nat
    OBVIOUS
<1>2. U \in SUBSET Nat /\ U # {}
    BY <1>1
<1>3. PICK u \in U : \A m \in U : u <= m
    BY <1>2, LeastNat
<1>4. PICK n \in T : u = bound - n
    BY <1>3
<1>5. ASSUME NEW m \in T PROVE m <= n
  <2>1. bound - m \in U
      OBVIOUS
  <2>2. bound - n <= bound - m
      BY <1>3, <1>4, <2>1
  <2>. HIDE DEF U
  <2>. QED
      BY <1>1, <2>2
<1>. QED
    BY <1>5, Zenon DEF Max

\* A quotient by a positive number is rounded down.
LEMMA Quotient ==
    ASSUME NEW a \in Int, NEW b \in Nat, b > 0
    PROVE  /\ a \div b \in Int
           /\ (a \div b) * b <= a /\ a < (a \div b + 1) * b
OBVIOUS

\* A step of at least a divisor makes a step of the quotient.
LEMMA QuotientRises ==
    ASSUME NEW a \in Int, NEW c \in Int, NEW b \in Nat, b > 0, a + b <= c
    PROVE  a \div b < c \div b
<1>1. PICK q \in Int : q = a \div b /\ q * b <= a
    BY Quotient
<1>2. PICK r \in Int : r = c \div b /\ c < (r + 1) * b
    BY Quotient
<1>3. ASSUME r <= q PROVE FALSE
  <2>1. (r + 1) * b <= (q + 1) * b
      BY <1>3
  <2>2. (q + 1) * b = q * b + b
      OBVIOUS
  <2>3. q * b \in Int /\ (r + 1) * b \in Int
      OBVIOUS
  <2>. QED
      BY <1>1, <1>2, <2>1, <2>2, <2>3
<1>. QED
    BY <1>1, <1>2, <1>3

\* A part of k times b divided by b is at most k.
LEMMA QuotientWithin ==
    ASSUME NEW b \in Nat, b > 0, NEW k \in Nat, NEW a \in Nat, a <= k * b
    PROVE  a \div b \in Nat /\ a \div b <= k
<1>1. PICK q \in Int : q = a \div b /\ q * b <= a /\ a < (q + 1) * b
    BY Quotient
<1>2. a \in Nat /\ a <= k * b
    OBVIOUS
<1>3. ASSUME q < 0 PROVE FALSE
  <2>1. (q + 1) * b <= 0 * b
      BY <1>3
  <2>. QED
      BY <1>1, <1>2, <2>1
<1>4. ASSUME q > k PROVE FALSE
  <2>1. (k + 1) * b <= q * b
      BY <1>4
  <2>2. (k + 1) * b = k * b + b
      OBVIOUS
  <2>. QED
      BY <1>1, <1>2, <2>1, <2>2
<1>. QED
    BY <1>1, <1>3, <1>4

\* A multiple is divided without a rest.
LEMMA QuotientOfMultiple ==
    ASSUME NEW b \in Nat, b > 0, NEW k \in Int
    PROVE  (b * k) \div b = k
<1>1. PICK q \in Int : q = (b * k) \div b /\ q * b <= b * k /\ b * k < (q + 1) * b
    BY Quotient
<1>2. ASSUME q < k PROVE FALSE
  <2>1. (q + 1) * b <= k * b
      BY <1>2
  <2>. QED
      BY <1>1, <2>1
<1>3. ASSUME q > k PROVE FALSE
  <2>1. (k + 1) * b <= q * b /\ (k + 1) * b = k * b + b
      BY <1>3
  <2>. QED
      BY <1>1, <2>1
<1>. QED
    BY <1>1, <1>2, <1>3

LEMMA OfTwo ==
    ASSUME NEW a \in Int, NEW b \in Int
    PROVE  /\ Min({a, b}) = IF a <= b THEN a ELSE b
           /\ Max({a, b}) = IF a >= b THEN a ELSE b
<1> DEFINE low == IF a <= b THEN a ELSE b
           high == IF a >= b THEN a ELSE b
<1>1. low \in {a, b} /\ \A y \in {a, b} : low <= y
    OBVIOUS
<1>2. high \in {a, b} /\ \A y \in {a, b} : high >= y
    OBVIOUS
<1>3. \A x \in {a, b} : (\A y \in {a, b} : x <= y) => x = low
    OBVIOUS
<1>4. \A x \in {a, b} : (\A y \in {a, b} : x >= y) => x = high
    OBVIOUS
<1>. HIDE DEF low, high
<1>5. Min({a, b}) = low
    BY <1>1, <1>3 DEF Min
<1>6. Max({a, b}) = high
    BY <1>2, <1>4 DEF Max
<1>. QED
    BY <1>5, <1>6 DEF low, high

\* A finite set of naturals has a maximum.
LEMMA MaxOfFinite ==
    ASSUME NEW T \in SUBSET Nat, T # {}, IsFiniteSet(T)
    PROVE  Max(T) \in T /\ \A m \in T : m <= Max(T)
<1> DEFINE Bounded == {U \in SUBSET T : \E n \in Nat : \A m \in U : m <= n}
<1>1. {} \in Bounded
    OBVIOUS
<1>2. ASSUME NEW U \in SUBSET T, U # {}, \A x \in U : U \ {x} \in Bounded
      PROVE  U \in Bounded
  <2>1. PICK x \in U : TRUE
      BY <1>2
  <2>2. PICK n \in Nat : \A m \in U \ {x} : m <= n
      BY <1>2, <2>1
  <2>3. x + n \in Nat /\ \A m \in U : m <= x + n
      BY <2>1, <2>2
  <2>. QED
      BY <2>3
<1> HIDE DEF Bounded
<1>3. T \in Bounded
    BY <1>1, <1>2, InductionOverSets
<1>4. PICK n \in Nat : \A m \in T : m <= n
    BY <1>3 DEF Bounded
<1>. QED
    BY <1>4, MaxIsGreatest

-----------------------------------------------------------------------------
(* Sums.                                                                    *)

\* What a sum takes out of a set next, and what it makes of the rest.
AnyOf(s) == CHOOSE x \in s : TRUE

\* The equations of a sum, over the subsets of S.
SumsOver(S, f, iter) ==
    \A s \in SUBSET S :
        iter[s] = IF s = {} THEN 0 ELSE f[AnyOf(s)] + iter[s \ {AnyOf(s)}]

LEMMA SumDefined ==
    ASSUME NEW S, IsFiniteSet(S), NEW f, \A x \in S : f[x] \in Int
    PROVE  \E iter \in [SUBSET S -> Int] :
              SumFunctionOnSet(f, S) = iter[S] /\ SumsOver(S, f, iter)
<1> DEFINE step == [p \in S \X Int |-> f[p[1]] + p[2]]
           pick == [s \in SUBSET S |-> AnyOf(s)]
           Equations(it) == it = [s \in SUBSET S |-> IF s = {} THEN 0
                                     ELSE f[AnyOf(s)] + it[s \ {AnyOf(s)}]]
           chosen == CHOOSE it : Equations(it)
<1>1. step \in [S \X Int -> Int]
    OBVIOUS
<1>2. PicksFrom(S, pick)
    BY DEF AnyOf, PicksFrom
<1>3. PICK it : SetRecursion(S, Int, 0, step, pick, it)
  <2> HIDE DEF step, pick
  <2>1. 0 \in Int
      OBVIOUS
  <2>. QED
      BY <1>1, <1>2, <2>1, SetRecursionExists
<1>4. ASSUME NEW s \in SUBSET S, s # {}
      PROVE  it[s] = f[AnyOf(s)] + it[s \ {AnyOf(s)}]
  <2>1. pick[s] = AnyOf(s) /\ AnyOf(s) \in S /\ it[s \ {AnyOf(s)}] \in Int
      BY <1>2, <1>3, <1>4 DEF PicksFrom, SetRecursion
  <2>. QED
      BY <1>3, <1>4, <2>1 DEF SetRecursion
<1>5. Equations(it)
    BY <1>3, <1>4 DEF SetRecursion
<1>6. Equations(chosen)
    BY <1>5
<1>7. SumFunctionOnSet(f, S) = chosen[S]
    BY DEF SumFunctionOnSet, FoldFunctionOnSet, MapThenFoldSet, AnyOf
<1>8. \A s \in SUBSET S : s \in {t \in SUBSET S : chosen[t] = it[t]}
  <2> DEFINE Same == {t \in SUBSET S : chosen[t] = it[t]}
  <2> HIDE DEF chosen
  <2>1. {} \in Same
      BY <1>6, <1>5
  <2>2. ASSUME NEW s \in SUBSET S, s # {}, \A x \in s : s \ {x} \in Same
        PROVE  s \in Same
    <3>1. AnyOf(s) \in s
        BY <2>2 DEF AnyOf
    <3>2. chosen[s \ {AnyOf(s)}] = it[s \ {AnyOf(s)}]
        BY <2>2, <3>1
    <3>3. chosen[s] = f[AnyOf(s)] + chosen[s \ {AnyOf(s)}]
        BY <1>6, <2>2
    <3>. QED
        BY <3>2, <3>3, <1>4, <2>2
  <2> HIDE DEF Same
  <2>3. \A s \in SUBSET S : s \in Same
      BY <2>1, <2>2, InductionOverSets
  <2>. QED
      BY <2>3 DEF Same
<1>9. SumFunctionOnSet(f, S) = it[S]
    BY <1>7, <1>8
<1>10. it[{}] = 0
    BY <1>5
<1>. QED
    BY <1>3, <1>4, <1>9, <1>10 DEF SetRecursion, SumsOver

\* A function with the equation of a sum gives the sums.
LEMMA SumIs ==
    ASSUME NEW S, IsFiniteSet(S), NEW f, \A x \in S : f[x] \in Int, NEW iter,
           SumsOver(S, f, iter)
    PROVE  SumFunctionOnSet(f, S) = iter[S]
<1>1. PICK it \in [SUBSET S -> Int] :
         SumFunctionOnSet(f, S) = it[S] /\ SumsOver(S, f, it)
    BY SumDefined
<1> USE DEF SumsOver
<1> DEFINE Same == {t \in SUBSET S : iter[t] = it[t]}
<1>2. {} \in Same
    BY <1>1
<1>3. ASSUME NEW s \in SUBSET S, s # {}, \A x \in s : s \ {x} \in Same
      PROVE  s \in Same
  <2>1. AnyOf(s) \in s
      BY <1>3 DEF AnyOf
  <2>2. iter[s \ {AnyOf(s)}] = it[s \ {AnyOf(s)}]
      BY <1>3, <2>1
  <2>. QED
      BY <1>1, <1>3, <2>2
<1> HIDE DEF Same
<1>4. \A s \in SUBSET S : s \in Same
    BY <1>2, <1>3, InductionOverSets
<1>. QED
    BY <1>1, <1>4 DEF Same

\* A sum is a number, that of nothing is 0, and any element can be taken out first.
LEMMA SumFacts ==
    ASSUME NEW S, IsFiniteSet(S), NEW f, \A x \in S : f[x] \in Int
    PROVE  \A T \in SUBSET S :
              /\ SumFunctionOnSet(f, T) \in Int
              /\ T = {} => SumFunctionOnSet(f, T) = 0
              /\ \A x \in T : SumFunctionOnSet(f, T) = f[x] + SumFunctionOnSet(f, T \ {x})
<1>1. PICK it \in [SUBSET S -> Int] : SumsOver(S, f, it)
    BY SumDefined
<1>2. ASSUME NEW T \in SUBSET S PROVE SumFunctionOnSet(f, T) = it[T]
  <2>1. IsFiniteSet(T) /\ SumsOver(T, f, it)
      BY <1>1, FS_Subset DEF SumsOver
  <2>. QED
      BY <2>1, SumIs
<1> DEFINE Free == {T \in SUBSET S : \A x \in T : it[T] = f[x] + it[T \ {x}]}
<1>3. {} \in Free
    OBVIOUS
<1>4. ASSUME NEW T \in SUBSET S, T # {}, \A x \in T : T \ {x} \in Free
      PROVE  T \in Free
  <2> DEFINE c == AnyOf(T)
  <2>1. c \in T /\ it[T] = f[c] + it[T \ {c}]
      BY <1>1, <1>4 DEF AnyOf, SumsOver
  <2> HIDE DEF c
  <2>2. ASSUME NEW x \in T, x # c PROVE it[T] = f[x] + it[T \ {x}]
    <3>1. it[T \ {c}] = f[x] + it[(T \ {c}) \ {x}]
        BY <1>4, <2>1, <2>2
    <3>2. it[T \ {x}] = f[c] + it[(T \ {x}) \ {c}]
        BY <1>4, <2>1, <2>2
    <3>3. (T \ {x}) \ {c} = (T \ {c}) \ {x}
        OBVIOUS
    <3>4. /\ it[(T \ {c}) \ {x}] \in Int /\ f[x] \in Int /\ f[c] \in Int
        BY <1>1, <2>1
    <3>5. \A a, b, k \in Int : a + (b + k) = b + (a + k)
        OBVIOUS
    <3>6. it[T] = f[c] + (f[x] + it[(T \ {c}) \ {x}])
        BY <2>1, <3>1
    <3>7. it[T \ {x}] = f[c] + it[(T \ {c}) \ {x}]
        BY <3>2, <3>3
    <3>. QED
        BY <3>4, <3>5, <3>6, <3>7
  <2>. QED
      BY <2>1, <2>2
<1> HIDE DEF Free
<1>5. \A T \in SUBSET S : T \in Free
    BY <1>3, <1>4, InductionOverSets
<1>6. it[{}] = 0 /\ \A T \in SUBSET S : it[T] \in Int
    BY <1>1 DEF SumsOver
<1>7. ASSUME NEW T \in SUBSET S PROVE \A x \in T : it[T] = f[x] + it[T \ {x}]
  <2>1. T \in Free
      BY <1>5
  <2>. QED
      BY <2>1, Zenon DEF Free
<1>8. \A T \in SUBSET S : \A x \in T : T \ {x} \in SUBSET S
    OBVIOUS
<1>. QED
    BY <1>2, <1>6, <1>7, <1>8

\* Equal addends have equal sums.
LEMMA SumsAgree ==
    ASSUME NEW S, IsFiniteSet(S), NEW f, NEW g,
           \A x \in S : f[x] \in Int /\ f[x] = g[x]
    PROVE  SumFunctionOnSet(f, S) = SumFunctionOnSet(g, S)
<1> DEFINE Same == {T \in SUBSET S : SumFunctionOnSet(f, T) = SumFunctionOnSet(g, T)}
<1>1. {} \in Same
    BY SumFacts
<1>2. ASSUME NEW T \in SUBSET S, T # {}, \A x \in T : T \ {x} \in Same
      PROVE  T \in Same
  <2>1. PICK x \in T : TRUE
      BY <1>2
  <2>2. SumFunctionOnSet(f, T) = f[x] + SumFunctionOnSet(f, T \ {x})
      BY SumFacts
  <2>3. SumFunctionOnSet(g, T) = g[x] + SumFunctionOnSet(g, T \ {x})
      BY SumFacts
  <2>. QED
      BY <1>2, <2>1, <2>2, <2>3
<1> HIDE DEF Same
<1>3. \A T \in SUBSET S : T \in Same
    BY <1>1, <1>2, InductionOverSets
<1>. QED
    BY <1>3 DEF Same

\* Addends of at most c have at most c for each.
LEMMA SumBounds ==
    ASSUME NEW S, IsFiniteSet(S), NEW f, NEW c \in Nat, \A x \in S : f[x] \in 0..c
    PROVE  SumFunctionOnSet(f, S) \in Nat /\ SumFunctionOnSet(f, S) <= c * Cardinality(S)
<1> DEFINE Bounded == {T \in SUBSET S : /\ SumFunctionOnSet(f, T) \in Nat
                                        /\ SumFunctionOnSet(f, T) <= c * Cardinality(T)}
<1>0. \A x \in S : f[x] \in Int
    OBVIOUS
<1>4. \A T \in SUBSET S :
        /\ SumFunctionOnSet(f, T) \in Int
        /\ T = {} => SumFunctionOnSet(f, T) = 0
        /\ \A x \in T : SumFunctionOnSet(f, T) = f[x] + SumFunctionOnSet(f, T \ {x})
  <2> HIDE DEF Bounded
  <2>. QED
      BY <1>0, SumFacts
<1>1. {} \in Bounded
  <2>1. SumFunctionOnSet(f, {}) = 0
      BY <1>4
  <2>2. Cardinality({}) = 0
      BY FS_EmptySet
  <2>. QED
      BY <2>1, <2>2
<1>2. ASSUME NEW T \in SUBSET S, T # {}, \A x \in T : T \ {x} \in Bounded
      PROVE  T \in Bounded
  <2>1. PICK x \in T : TRUE
      BY <1>2
  <2>2. SumFunctionOnSet(f, T) = f[x] + SumFunctionOnSet(f, T \ {x})
      BY <1>4
  <2>3. IsFiniteSet(T) /\ Cardinality(T) \in Nat
      BY FS_Subset, FS_CardinalityType
  <2>4. Cardinality(T \ {x}) = Cardinality(T) - 1
      BY <2>3, FS_RemoveElement
  <2>5. /\ SumFunctionOnSet(f, T \ {x}) \in Nat
        /\ SumFunctionOnSet(f, T \ {x}) <= c * (Cardinality(T) - 1)
      BY <1>2, <2>4
  <2>6. c * (Cardinality(T) - 1) = c * Cardinality(T) - c /\ c * Cardinality(T) \in Int
      BY <2>3
  <2>7. f[x] \in 0..c
      OBVIOUS
  <2> HIDE DEF Bounded
  <2>8. SumFunctionOnSet(f, T) \in Nat /\ SumFunctionOnSet(f, T) <= c * Cardinality(T)
      BY <2>2, <2>5, <2>6, <2>7
  <2>. QED
      BY <2>8 DEF Bounded
<1> HIDE DEF Bounded
<1>3. \A T \in SUBSET S : T \in Bounded
    BY <1>1, <1>2, InductionOverSets
<1>. QED
    BY <1>3 DEF Bounded

\* Natural addends have a natural sum.
LEMMA SumIsNat ==
    ASSUME NEW S, IsFiniteSet(S), NEW f, \A x \in S : f[x] \in Nat
    PROVE  SumFunctionOnSet(f, S) \in Nat
<1> DEFINE Natural == {T \in SUBSET S : SumFunctionOnSet(f, T) \in Nat}
<1>0. \A x \in S : f[x] \in Int
    OBVIOUS
<1>1. {} \in Natural
  <2>1. SumFunctionOnSet(f, {}) = 0
      BY <1>0, SumFacts
  <2>. QED
      BY <2>1
<1>2. ASSUME NEW T \in SUBSET S, T # {}, \A x \in T : T \ {x} \in Natural
      PROVE  T \in Natural
  <2>1. PICK x \in T : TRUE
      BY <1>2
  <2>2. SumFunctionOnSet(f, T) = f[x] + SumFunctionOnSet(f, T \ {x})
      BY <1>0, SumFacts
  <2>. QED
      BY <1>2, <2>1, <2>2
<1> HIDE DEF Natural
<1>3. \A T \in SUBSET S : T \in Natural
    BY <1>1, <1>2, InductionOverSets
<1>. QED
    BY <1>3 DEF Natural

\* A common factor can be taken out.
LEMMA SumScales ==
    ASSUME NEW S, IsFiniteSet(S), NEW f, NEW g, NEW c \in Int,
           \A x \in S : f[x] \in Int /\ g[x] = f[x] * c
    PROVE  SumFunctionOnSet(g, S) = SumFunctionOnSet(f, S) * c
<1> DEFINE Scaled == {T \in SUBSET S :
                         SumFunctionOnSet(g, T) = SumFunctionOnSet(f, T) * c}
<1>0. \A x \in S : f[x] \in Int /\ g[x] \in Int
    OBVIOUS
<1>1. {} \in Scaled
    BY <1>0, SumFacts
<1>2. ASSUME NEW T \in SUBSET S, T # {}, \A x \in T : T \ {x} \in Scaled
      PROVE  T \in Scaled
  <2>1. PICK x \in T : TRUE
      BY <1>2
  <2>2. SumFunctionOnSet(f, T) = f[x] + SumFunctionOnSet(f, T \ {x})
      BY <1>0, SumFacts
  <2>3. SumFunctionOnSet(g, T) = g[x] + SumFunctionOnSet(g, T \ {x})
      BY <1>0, SumFacts
  <2>4. SumFunctionOnSet(g, T \ {x}) = SumFunctionOnSet(f, T \ {x}) * c
      BY <1>2
  <2>5. SumFunctionOnSet(f, T \ {x}) \in Int /\ f[x] \in Int /\ g[x] = f[x] * c
      BY <1>0, SumFacts
  <2> HIDE DEF Scaled
  <2>6. \A a, b, k \in Int : a * k + b * k = (a + b) * k
      OBVIOUS
  <2>7. SumFunctionOnSet(g, T) = SumFunctionOnSet(f, T) * c
      BY <2>2, <2>3, <2>4, <2>5, <2>6
  <2>. QED
      BY <2>7 DEF Scaled
<1> HIDE DEF Scaled
<1>3. \A T \in SUBSET S : T \in Scaled
    BY <1>1, <1>2, InductionOverSets
<1>. QED
    BY <1>3 DEF Scaled

\* Addends that are 0 can be left out.
LEMMA SumLeavesOutZeros ==
    ASSUME NEW S, IsFiniteSet(S), NEW f, NEW U, \A x \in S : f[x] \in Int,
           \A x \in S \ U : f[x] = 0
    PROVE  SumFunctionOnSet(f, S) = SumFunctionOnSet(f, S \cap U)
<1> DEFINE Left == {T \in SUBSET S :
                       SumFunctionOnSet(f, T) = SumFunctionOnSet(f, T \cap U)}
<1>1. {} \in Left
    OBVIOUS
<1>2. ASSUME NEW T \in SUBSET S, T # {}, \A x \in T : T \ {x} \in Left
      PROVE  T \in Left
  <2>1. PICK x \in T : TRUE
      BY <1>2
  <2>2. SumFunctionOnSet(f, T) = f[x] + SumFunctionOnSet(f, T \ {x})
      BY SumFacts
  <2>3. SumFunctionOnSet(f, T \ {x}) = SumFunctionOnSet(f, (T \ {x}) \cap U)
      BY <1>2
  <2>4. CASE x \in U
    <3>1. T \cap U \in SUBSET S /\ x \in T \cap U
        BY <2>4
    <3>2. SumFunctionOnSet(f, T \cap U)
             = f[x] + SumFunctionOnSet(f, (T \cap U) \ {x})
        BY <3>1, SumFacts
    <3>3. (T \cap U) \ {x} = (T \ {x}) \cap U
        OBVIOUS
    <3>. QED
        BY <2>2, <2>3, <3>2, <3>3
  <2>5. CASE x \notin U
    <3>1. f[x] = 0 /\ (T \ {x}) \cap U = T \cap U
        BY <2>5
    <3>2. SumFunctionOnSet(f, T \ {x}) \in Int
        BY SumFacts
    <3>3. SumFunctionOnSet(f, T) = SumFunctionOnSet(f, T \ {x})
        BY <2>2, <3>1, <3>2
    <3>. QED
        BY <2>3, <3>1, <3>3
  <2>. QED
      BY <2>4, <2>5
<1> HIDE DEF Left
<1>3. \A T \in SUBSET S : T \in Left
    BY <1>1, <1>2, InductionOverSets
<1>. QED
    BY <1>3 DEF Left

\* A sum is the sum of its parts.
LEMMA SumSplits ==
    ASSUME NEW S, IsFiniteSet(S), NEW f, \A x \in S : f[x] \in Int, NEW U \in SUBSET S
    PROVE  /\ SumFunctionOnSet(f, S) = SumFunctionOnSet(f, U) + SumFunctionOnSet(f, S \ U)
           /\ SumFunctionOnSet(f, U) \in Int /\ SumFunctionOnSet(f, S \ U) \in Int
<1> DEFINE R == S \ U
           Split == {T \in SUBSET R : SumFunctionOnSet(f, U \cup T)
                                         = SumFunctionOnSet(f, U) + SumFunctionOnSet(f, T)}
<1>1. \A T \in SUBSET S :
        /\ SumFunctionOnSet(f, T) \in Int
        /\ T = {} => SumFunctionOnSet(f, T) = 0
        /\ \A x \in T : SumFunctionOnSet(f, T) = f[x] + SumFunctionOnSet(f, T \ {x})
  <2> HIDE DEF Split
  <2>. QED
      BY SumFacts
<1>2. {} \in Split
  <2>1. U \cup {} = U /\ SumFunctionOnSet(f, {}) = 0 /\ SumFunctionOnSet(f, U) \in Int
      BY <1>1
  <2>2. \A a \in Int : a = a + 0
      OBVIOUS
  <2>. QED
      BY <2>1, <2>2
<1>3. ASSUME NEW T \in SUBSET R, T # {}, \A x \in T : T \ {x} \in Split
      PROVE  T \in Split
  <2>1. PICK x \in T : TRUE
      BY <1>3
  <2>2. /\ U \cup T \in SUBSET S /\ T \in SUBSET S /\ x \in U \cup T
        /\ T \ {x} \in SUBSET S /\ (U \cup T) \ {x} = U \cup (T \ {x})
      BY <2>1
  <2>3. SumFunctionOnSet(f, U \cup T) = f[x] + SumFunctionOnSet(f, U \cup (T \ {x}))
      BY <1>1, <2>2
  <2>4. SumFunctionOnSet(f, T) = f[x] + SumFunctionOnSet(f, T \ {x})
      BY <1>1, <2>1, <2>2
  <2>5. SumFunctionOnSet(f, U \cup (T \ {x}))
           = SumFunctionOnSet(f, U) + SumFunctionOnSet(f, T \ {x})
      BY <1>3, <2>1
  <2>6. /\ f[x] \in Int /\ SumFunctionOnSet(f, U) \in Int
        /\ SumFunctionOnSet(f, T \ {x}) \in Int
      BY <1>1, <2>1, <2>2
  <2>7. \A a, b, c \in Int : a + (b + c) = b + (a + c)
      OBVIOUS
  <2>8. SumFunctionOnSet(f, U \cup T) = SumFunctionOnSet(f, U) + SumFunctionOnSet(f, T)
      BY <2>3, <2>4, <2>5, <2>6, <2>7
  <2>. QED
      BY <2>8
<1> HIDE DEF Split
<1>4. IsFiniteSet(R)
    BY FS_Subset
<1> HIDE DEF R
<1>5. \A T \in SUBSET R : T \in Split
    BY <1>2, <1>3, <1>4, InductionOverSets
<1>6. R \in Split
    BY <1>5
<1>7. U \cup R = S /\ R = S \ U
    BY DEF R
<1>. QED
    BY <1>1, <1>6, <1>7 DEF Split

-----------------------------------------------------------------------------
(* Selections.                                                              *)

\* How many numbers of K there are up to i.
RankIn(K, i) == Cardinality({j \in K : j <= i})

\* Ranks go up with the numbers, from 1 to the number of them.
LEMMA RankFacts ==
    ASSUME NEW K \in SUBSET Int, IsFiniteSet(K)
    PROVE  /\ Cardinality(K) \in Nat
           /\ \A i \in K : RankIn(K, i) \in 1..Cardinality(K)
           /\ \A i, j \in K : i < j => RankIn(K, i) < RankIn(K, j)
           /\ \A k \in 1..Cardinality(K) : \E i \in K : RankIn(K, i) = k
<1> DEFINE UpTo(i) == {j \in K : j <= i}
<1>0. Cardinality(K) \in Nat
    BY FS_CardinalityType
<1>1. \A i \in K : IsFiniteSet(UpTo(i)) /\ Cardinality(UpTo(i)) \in Nat
                    /\ Cardinality(UpTo(i)) <= Cardinality(K)
  <2> SUFFICES ASSUME NEW i \in K
               PROVE  IsFiniteSet(UpTo(i)) /\ Cardinality(UpTo(i)) \in Nat
                      /\ Cardinality(UpTo(i)) <= Cardinality(K)
      OBVIOUS
  <2>1. UpTo(i) \in SUBSET K
      OBVIOUS
  <2>. QED
      BY <2>1, FS_Subset, FS_CardinalityType
<1>2. ASSUME NEW i \in K PROVE Cardinality(UpTo(i)) # 0
  <2>1. i \in UpTo(i)
      OBVIOUS
  <2> HIDE DEF UpTo
  <2>. QED
      BY <1>1, <2>1, FS_EmptySet
<1>3. ASSUME NEW i \in K, NEW j \in K, i < j
      PROVE  Cardinality(UpTo(i)) < Cardinality(UpTo(j))
  <2>0. i \in Int /\ j \in Int /\ \A x \in K : x \in Int /\ (x <= i => x <= j)
      BY <1>3
  <2>1. UpTo(i) \in SUBSET UpTo(j) /\ j \in UpTo(j) /\ j \notin UpTo(i)
    <3>1. j <= j /\ ~ j <= i
        BY <1>3, <2>0
    <3>2. \A x \in UpTo(i) : x \in UpTo(j)
        BY <2>0
    <3>. QED
        BY <3>1, <3>2
  <2> HIDE DEF UpTo
  <2>2. /\ Cardinality(UpTo(i)) <= Cardinality(UpTo(j))
        /\ Cardinality(UpTo(j)) # Cardinality(UpTo(i))
      BY <1>1, <2>1, FS_Subset
  <2>. QED
      BY <1>1, <2>2
<1> DEFINE rank == [i \in K |-> RankIn(K, i)]
<1>4. \A i \in K : RankIn(K, i) = Cardinality(UpTo(i))
    BY DEF RankIn
<1> HIDE DEF UpTo
<1>5. \A i \in K : RankIn(K, i) \in 1..Cardinality(K)
    BY <1>0, <1>1, <1>2, <1>4
<1>6. \A i, j \in K : i < j => RankIn(K, i) < RankIn(K, j)
    BY <1>3, <1>4
<1>7. rank \in Injection(K, 1..Cardinality(K))
  <2>1. \A i, j \in K : rank[i] = rank[j] => i = j
      BY <1>5, <1>6
  <2>. QED
      BY <1>5, <2>1 DEF Injection, IsInjective
<1>8. IsFiniteSet(1..Cardinality(K)) /\ Cardinality(1..Cardinality(K)) = Cardinality(K)
    BY <1>0, FS_Interval
<1>9. rank \in Surjection(K, 1..Cardinality(K))
    BY <1>7, <1>8, FS_Injection
<1>10. \A k \in 1..Cardinality(K) : \E i \in K : RankIn(K, i) = k
    BY <1>9 DEF Surjection
<1>. QED
    BY <1>0, <1>5, <1>6, <1>10

\* The numbers of a set one after the other, in ascending order.
LEMMA NthFacts ==
    ASSUME NEW K \in SUBSET Int, IsFiniteSet(K)
    PROVE  /\ Cardinality(K) \in Nat
           /\ \A k \in 1..Cardinality(K) : Nth(K, k) \in K /\ RankIn(K, Nth(K, k)) = k
           /\ \A k, l \in 1..Cardinality(K) : k < l => Nth(K, k) < Nth(K, l)
           /\ \A i \in K : /\ RankIn(K, i) \in 1..Cardinality(K)
                            /\ Nth(K, RankIn(K, i)) = i
<1>1. ASSUME NEW k \in 1..Cardinality(K)
      PROVE  Nth(K, k) \in K /\ RankIn(K, Nth(K, k)) = k
  <2>1. \E i \in K : RankIn(K, i) = k
      BY RankFacts
  <2>. QED
      BY <2>1 DEF Nth, RankIn
<1>2. ASSUME NEW k \in 1..Cardinality(K), NEW l \in 1..Cardinality(K), k < l
      PROVE  Nth(K, k) < Nth(K, l)
  <2>1. CASE Nth(K, l) < Nth(K, k)
    <3>1. RankIn(K, Nth(K, l)) < RankIn(K, Nth(K, k))
        BY <1>1, <2>1, RankFacts
    <3>. QED
        BY <3>1, <1>1, <1>2
  <2>2. CASE Nth(K, l) = Nth(K, k)
      BY <1>1, <1>2, <2>2
  <2>3. Nth(K, k) \in Int /\ Nth(K, l) \in Int
      BY <1>1
  <2>. QED
      BY <2>1, <2>2, <2>3
<1>3. ASSUME NEW i \in K
      PROVE  RankIn(K, i) \in 1..Cardinality(K) /\ Nth(K, RankIn(K, i)) = i
  <2>1. RankIn(K, i) \in 1..Cardinality(K)
      BY RankFacts
  <2>2. Nth(K, RankIn(K, i)) \in K /\ RankIn(K, Nth(K, RankIn(K, i))) = RankIn(K, i)
      BY <1>1, <2>1
  <2>3. ASSUME NEW j \in K, RankIn(K, j) = RankIn(K, i) PROVE j = i
    <3>1. /\ i < j => RankIn(K, i) < RankIn(K, j)
          /\ j < i => RankIn(K, j) < RankIn(K, i)
        BY RankFacts
    <3>2. RankIn(K, i) \in Int /\ i \in Int /\ j \in Int
        BY <2>1
    <3>. QED
        BY <2>3, <3>1, <3>2
  <2>. QED
      BY <2>1, <2>2, <2>3
<1>. QED
    BY <1>1, <1>2, <1>3, RankFacts

-----------------------------------------------------------------------------
(* Folds from left to right.                                                *)

\* The greatest of the numbers up to n.
LEMMA MaxUpTo == ASSUME NEW n \in Nat, n # 0 PROVE Max(1..n) = n /\ (1..n) \ {n} = 1..n - 1
<1>1. n \in 1..n /\ \A y \in 1..n : n >= y
    OBVIOUS
<1>2. \A x \in 1..n : (\A y \in 1..n : x >= y) => x = n
    BY <1>1
<1>. QED
    BY <1>1, <1>2 DEF Max

LEMMA MaxPicks == ASSUME NEW N \in Nat PROVE PicksFrom(1..N, [s \in SUBSET (1..N) |-> Max(s)])
<1> SUFFICES ASSUME NEW s \in SUBSET (1..N), s # {} PROVE Max(s) \in s
    BY DEF PicksFrom
<1> DEFINE above == {n \in Nat : \A x \in s : x <= n}
<1>1. N \in above
    OBVIOUS
<1>2. PICK n \in above : \A m \in above : n <= m
    BY <1>1, LeastNat
<1>3. n \in s
  <2> SUFFICES ASSUME n \notin s PROVE FALSE
      OBVIOUS
  <2>1. \A x \in s : x <= n - 1
      BY <1>2
  <2>2. PICK x \in s : TRUE
      OBVIOUS
  <2>3. n - 1 \in Nat
      BY <1>2, <2>1, <2>2
  <2>. QED
      BY <1>2, <2>1, <2>3
<1>. QED
    BY <1>2, <1>3 DEF Max
\* A greater number is the last to be counted.
LEMMA RanksGrow ==
    ASSUME NEW K \in SUBSET Int, IsFiniteSet(K), NEW m \in Int, \A i \in K : i < m
    PROVE  /\ Cardinality(K \cup {m}) = Cardinality(K) + 1
           /\ \A i \in K : RankIn(K \cup {m}, i) = RankIn(K, i)
           /\ RankIn(K \cup {m}, m) = Cardinality(K) + 1
<1>1. m \notin K
  <2>1. ~(m < m)
      OBVIOUS
  <2>. QED
      BY <2>1, Zenon
<1>2. Cardinality(K \cup {m}) = Cardinality(K) + 1
    BY <1>1, FS_AddElement
<1>3. \A i \in K : {j \in K \cup {m} : j <= i} = {j \in K : j <= i}
    OBVIOUS
<1>4. {j \in K \cup {m} : j <= m} = K \cup {m}
  <2>1. m <= m /\ \A j \in K : j <= m
      OBVIOUS
  <2>. QED
      BY <2>1
<1>. QED
    BY <1>2, <1>3, <1>4 DEF RankIn

\* What is picked is of the sequence, and as much as there are positions.
LEMMA PickedFacts ==
    ASSUME NEW T, NEW s, NEW K \in SUBSET Int, IsFiniteSet(K), \A i \in K : s[i] \in T
    PROVE  /\ Picked(s, K) \in Seq(T)
           /\ Len(Picked(s, K)) = Cardinality(K)
           /\ \A k \in 1..Cardinality(K) : Picked(s, K)[k] = s[Nth(K, k)]
<1> DEFINE n == Cardinality(K)
<1>1. n \in Nat /\ \A k \in 1..n : Nth(K, k) \in K
    BY NthFacts
<1>2. Picked(s, K) = [k \in 1..n |-> s[Nth(K, k)]]
    BY DEF Picked
<1>3. \A k \in 1..n : s[Nth(K, k)] \in T
    BY <1>1
<1> HIDE DEF n
<1>4. Picked(s, K) \in [1..n -> T]
    BY <1>2, <1>3
<1>. QED
    BY <1>1, <1>2, <1>4 DEF n

-----------------------------------------------------------------------------
(* Enumerations.                                                            *)

\* As many different values as there are: each is one of them.
LEMMA OntoWhenEqual ==
    ASSUME NEW S, NEW T, IsFiniteSet(T), Cardinality(S) = Cardinality(T),
           NEW f \in [S -> T], \A x, y \in S : f[x] = f[y] => x = y
    PROVE  \A t \in T : \E x \in S : f[x] = t
<1>1. f \in Injection(S, T)
    BY DEF Injection, IsInjective
<1>2. f \in Surjection(S, T)
    BY <1>1, FS_Injection
<1>. QED
    BY <1>2 DEF Surjection

\* The sequence of a finite set has each of its elements once.
LEMMA SetToSeqFacts ==
    ASSUME NEW S, IsFiniteSet(S)
    PROVE  /\ Cardinality(S) \in Nat
           /\ SetToSeq(S) \in [1..Cardinality(S) -> S]
           /\ \A i, j \in 1..Cardinality(S) : SetToSeq(S)[i] = SetToSeq(S)[j] => i = j
           /\ \A x \in S : \E i \in 1..Cardinality(S) : SetToSeq(S)[i] = x
<1> DEFINE n == Cardinality(S)
           f == SetToSeq(S)
<1>1. n \in Nat /\ ExistsBijection(1..n, S)
    BY FS_CardinalityType
<1>2. \E g \in [1..n -> S] : IsInjective(g)
    BY <1>1 DEF ExistsBijection, Bijection, Injection
<1>3. f \in [1..n -> S] /\ IsInjective(f)
    BY <1>2 DEF SetToSeq
<1>. HIDE DEF f
<1>4. \A i, j \in 1..n : f[i] = f[j] => i = j
    BY <1>3 DEF IsInjective
<1>5. Cardinality(1..n) = Cardinality(S)
    BY <1>1, FS_Interval
<1>. HIDE DEF n
<1>6. \A x \in S : \E i \in 1..n : f[i] = x
  <2>. DEFINE D == 1..n
  <2>1. f \in [D -> S] /\ Cardinality(D) = Cardinality(S)
        /\ \A i, j \in D : f[i] = f[j] => i = j
      BY <1>3, <1>4, <1>5
  <2>. HIDE DEF D
  <2>2. \A x \in S : \E i \in D : f[i] = x
      BY <2>1, OntoWhenEqual
  <2>. QED
      BY <2>2 DEF D
<1>. QED
    BY <1>1, <1>3, <1>4, <1>6 DEF f, n

\* The place of each element in a strict total order: one more than it has before it.
StrictOrder(R, A) ==
    /\ \A x \in A : <<x, x>> \notin R
    /\ \A x, y \in A : x # y => <<x, y>> \in R \/ <<y, x>> \in R
    /\ \A x, y, z \in A : <<x, y>> \in R /\ <<y, z>> \in R => <<x, z>> \in R

PlaceIn(R, A) == [i \in A |-> Cardinality({j \in A : <<j, i>> \in R}) + 1]

LEMMA PlacesAreTaken ==
    ASSUME NEW A, IsFiniteSet(A), NEW R, StrictOrder(R, A)
    PROVE  /\ Cardinality(A) \in Nat
           /\ PlaceIn(R, A) \in [A -> 1..Cardinality(A)]
           /\ \A i, j \in A : PlaceIn(R, A)[i] = PlaceIn(R, A)[j] => i = j
           /\ \A k \in 1..Cardinality(A) : \E i \in A : PlaceIn(R, A)[i] = k
           /\ \A i, j \in A : <<i, j>> \in R => PlaceIn(R, A)[i] < PlaceIn(R, A)[j]
<1> DEFINE n == Cardinality(A)
           Under(i) == {j \in A : <<j, i>> \in R}
           place == PlaceIn(R, A)
<1>1. n \in Nat
    BY FS_CardinalityType
<1>2. \A i \in A : /\ Under(i) \in SUBSET A /\ IsFiniteSet(Under(i))
                   /\ Cardinality(Under(i)) \in Nat
    BY FS_Subset, FS_CardinalityType
<1>3. \A i \in A : place[i] = Cardinality(Under(i)) + 1
    BY DEF PlaceIn
<1>4. ASSUME NEW i \in A PROVE place[i] \in 1..n
  <2>1. Under(i) \in SUBSET (A \ {i})
      BY DEF StrictOrder
  <2>2. IsFiniteSet(A \ {i}) /\ Cardinality(A \ {i}) = n - 1
      BY FS_RemoveElement
  <2>. HIDE DEF Under, place
  <2>3. Cardinality(Under(i)) <= Cardinality(A \ {i})
      BY <2>1, <2>2, FS_Subset
  <2>4. Cardinality(Under(i)) \in Nat /\ place[i] = Cardinality(Under(i)) + 1
      BY <1>2, <1>3
  <2>. HIDE DEF n
  <2>. QED
      BY <1>1, <2>2, <2>3, <2>4
<1>5. ASSUME NEW i \in A, NEW j \in A, <<i, j>> \in R
      PROVE  place[i] < place[j]
  <2>1. Under(i) \cup {i} \in SUBSET Under(j)
      BY <1>5 DEF StrictOrder
  <2>2. i \notin Under(i)
      BY DEF StrictOrder
  <2>. HIDE DEF Under, place
  <2>3. Cardinality(Under(i) \cup {i}) = Cardinality(Under(i)) + 1
      BY <1>2, <2>2, FS_AddElement
  <2>4. Cardinality(Under(i) \cup {i}) <= Cardinality(Under(j))
      BY <1>2, <2>1, FS_Subset
  <2>. QED
      BY <1>2, <1>3, <2>3, <2>4
<1>6. ASSUME NEW i \in A, NEW j \in A, i # j PROVE place[i] # place[j]
  <2>. HIDE DEF place
  <2>1. <<i, j>> \in R \/ <<j, i>> \in R
      BY <1>6 DEF StrictOrder
  <2>2. place[i] \in Nat /\ place[j] \in Nat
      BY <1>4
  <2>. QED
      BY <1>5, <2>1, <2>2
<1>7. place \in [A -> 1..n]
    BY <1>4 DEF PlaceIn
<1>. HIDE DEF place
<1>8. IsFiniteSet(1..n) /\ Cardinality(A) = Cardinality(1..n)
    BY <1>1, FS_Interval
<1>. HIDE DEF n
<1>9. \A k \in 1..n : \E i \in A : place[i] = k
  <2>. DEFINE D == 1..n
  <2>1. place \in [A -> D] /\ IsFiniteSet(D) /\ Cardinality(A) = Cardinality(D)
      BY <1>7, <1>8
  <2>. HIDE DEF D
  <2>2. \A k \in D : \E i \in A : place[i] = k
      BY <1>6, <2>1, OntoWhenEqual
  <2>. QED
      BY <2>2 DEF D
<1>. QED
    BY <1>1, <1>5, <1>6, <1>7, <1>9 DEF place, n

\* at gives the positions 1..n in the order R.
Ordering(n, R, at) ==
    /\ at \in [1..n -> 1..n]
    /\ \A k, l \in 1..n : k < l => <<at[k], at[l]>> \in R
    /\ \A i \in 1..n : \E k \in 1..n : at[k] = i

\* A sequence that is arranged has the same elements, in the order of its positions.
LEMMA ArrangedFacts ==
    ASSUME NEW T, NEW s \in Seq(T), NEW R, StrictOrder(R, 1..Len(s))
    PROVE  /\ Arranged(s, R) \in Seq(T) /\ Len(Arranged(s, R)) = Len(s)
           /\ \E at : /\ Ordering(Len(s), R, at)
                      /\ \A k \in 1..Len(s) : Arranged(s, R)[k] = s[at[k]]
<1> DEFINE n == Len(s)
           A == DOMAIN s
           place == PlaceIn(R, A)
           at == [k \in 1..n |-> CHOOSE i \in A : place[i] = k]
<1>1. n \in Nat /\ A = 1..n /\ \A i \in A : s[i] \in T
    OBVIOUS
<1>2. IsFiniteSet(1..n) /\ Cardinality(1..n) = n
    BY <1>1, FS_Interval
<1>3. Arranged(s, R) = [k \in 1..Cardinality(A) |-> s[CHOOSE i \in A : place[i] = k]]
    BY DEF Arranged, PlaceIn
<1>. HIDE DEF n, A
<1>4. IsFiniteSet(A) /\ Cardinality(A) = n /\ StrictOrder(R, A)
    BY <1>1, <1>2 DEF n
<1>5. /\ place \in [A -> 1..n]
      /\ \A i, j \in A : place[i] = place[j] => i = j
      /\ \A k \in 1..n : \E i \in A : place[i] = k
      /\ \A i, j \in A : <<i, j>> \in R => place[i] < place[j]
  <2>. HIDE DEF place
  <2>. QED
      BY <1>4, PlacesAreTaken DEF place
<1>. HIDE DEF place
<1>6. \A k \in 1..n : at[k] \in A /\ place[at[k]] = k
    BY <1>5
<1>7. Arranged(s, R) = [k \in 1..n |-> s[at[k]]]
    BY <1>3, <1>4
<1>8. at \in [1..n -> A]
    BY <1>6
<1>. HIDE DEF at
<1>9. ASSUME NEW k \in 1..n, NEW l \in 1..n, k < l PROVE <<at[k], at[l]>> \in R
  <2>0. at[k] \in A /\ at[l] \in A /\ place[at[k]] = k /\ place[at[l]] = l
      BY <1>6
  <2>2. ~(l < k) /\ k # l
      BY <1>1, <1>9
  <2>3. at[k] # at[l]
      BY <2>0, <2>2
  <2>4. ASSUME <<at[l], at[k]>> \in R PROVE FALSE
    <3>1. place[at[l]] < place[at[k]]
        BY <1>5, <2>0, <2>4
    <3>. QED
        BY <2>0, <2>2, <3>1
  <2>1. at[k] # at[l] /\ ~(<<at[l], at[k]>> \in R)
      BY <2>3, <2>4
  <2>. QED
      BY <1>4, <1>6, <2>1 DEF StrictOrder
<1>10. ASSUME NEW i \in A PROVE \E k \in 1..n : at[k] = i
  <2>1. place[i] \in 1..n
      BY <1>5
  <2>2. at[place[i]] = i
      BY <1>5, <1>6, <2>1
  <2>. QED
      BY <2>1, <2>2
<1>11. \A k \in 1..n : s[at[k]] \in T
    BY <1>1, <1>6
<1>12. Arranged(s, R) \in Seq(T) /\ Len(Arranged(s, R)) = n
    BY <1>1, <1>7, <1>11
<1>13. Ordering(n, R, at)
    BY <1>1, <1>8, <1>9, <1>10 DEF Ordering
<1>14. \A k \in 1..n : Arranged(s, R)[k] = s[at[k]]
    BY <1>7
<1>. QED
    BY <1>12, <1>13, <1>14 DEF n

-----------------------------------------------------------------------------
(* Sequences of sequences.                                                  *)

\* Sequences put one behind the other make one of the same elements, no longer
\* than their number times the length of the longest.
LEMMA FlattenFacts ==
    ASSUME NEW T, NEW s \in Seq(Seq(T)), NEW c \in Nat,
           \A i \in 1..Len(s) : Len(s[i]) <= c
    PROVE  FlattenSeq(s) \in Seq(T) /\ Len(FlattenSeq(s)) <= Len(s) * c
<1> DEFINE N == Len(s)
           Body(f, i) == IF i = 1 THEN s[i] ELSE f[i - 1] \o s[i]
           Equation(f) == f = [i \in 1..N |-> Body(f, i)]
           chosen == CHOOSE f : Equation(f)
           next == [x \in Seq(T) \X (1..N) |-> x[1] \o s[x[2]]]
<1>1. N \in Nat
    OBVIOUS
<1>2. CASE N = 0
  <2>1. s = <<>> /\ FlattenSeq(s) = s
      BY <1>2 DEF FlattenSeq
  <2>2. FlattenSeq(s) \in Seq(T) /\ Len(FlattenSeq(s)) = 0
    <3>1. FlattenSeq(s) = <<>>
        BY <2>1
    <3>2. <<>> \in Seq(T) /\ Len(<<>>) = 0
        OBVIOUS
    <3>. QED
        BY <3>1, <3>2
  <2>. QED
      BY <2>1, <2>2, <1>2
<1>3. CASE N # 0
  <2>1. FlattenSeq(s) = chosen[N]
      BY <1>3 DEF FlattenSeq
  <2>2. \E f : Equation(f)
    <3>1. next \in [Seq(T) \X (1..N) -> Seq(T)]
        OBVIOUS
    <3>2. <<>> \in Seq(T)
        OBVIOUS
    <3>. HIDE DEF next, N
    <3>3. PICK f : Loop(N, Seq(T), <<>>, next, f)
        BY <1>1, <3>1, <3>2, LoopExists
    <3>. DEFINE g == [i \in 1..N |-> f[i]]
    <3>4. ASSUME NEW i \in 1..N PROVE f[i] = f[i - 1] \o s[i] /\ f[i - 1] \in Seq(T)
      <4>1. i - 1 \in 0..N
          BY <1>1
      <4>2. f[i - 1] \in Seq(T) /\ f[i] = next[<<f[i - 1], i>>]
          BY <3>3, <4>1 DEF Loop
      <4>. QED
          BY <4>2 DEF next
    <3>5. ASSUME NEW i \in 1..N PROVE g[i] = Body(g, i)
      <4>1. CASE i = 1
        <5>0. f[0] = <<>> /\ i - 1 = 0
            BY <3>3, <4>1 DEF Loop
        <5>1. f[i] = <<>> \o s[i]
            BY <3>4, <5>0
        <5>2. s[i] \in Seq(T)
            BY DEF N
        <5>. QED
            BY <5>1, <5>2, <4>1
      <4>2. CASE i # 1
        <5>1. i - 1 \in 1..N
            BY <4>2, <1>1
        <5>. QED
            BY <5>1, <4>2, <3>4
      <4>. QED
          BY <4>1, <4>2
    <3>. HIDE DEF Body
    <3>6. g = [i \in 1..N |-> Body(g, i)]
        BY <3>5
    <3>. HIDE DEF g
    <3>. QED
        BY <3>6 DEF N
  <2>. HIDE DEF Equation
  <2>3. Equation(chosen)
      BY <2>2
  <2>. HIDE DEF chosen, next
  <2>4. \A i \in 1..N : chosen[i] = Body(chosen, i)
      BY <2>3 DEF Equation
  <2>. DEFINE Good == {i \in Nat : i \in 1..N =>
                                    chosen[i] \in Seq(T) /\ Len(chosen[i]) <= i * c}
  <2>5. 0 \in Good
      OBVIOUS
  <2>6. ASSUME NEW i \in Nat, i \in Good PROVE i + 1 \in Good
    <3> SUFFICES ASSUME i + 1 \in 1..N
                 PROVE  chosen[i + 1] \in Seq(T) /\ Len(chosen[i + 1]) <= (i + 1) * c
        OBVIOUS
    <3>1. s[i + 1] \in Seq(T) /\ Len(s[i + 1]) <= c /\ Len(s[i + 1]) \in Nat
        OBVIOUS
    <3>2. CASE i = 0
      <4>1. chosen[i + 1] = s[i + 1]
          BY <2>4, <3>2
      <4>. QED
          BY <4>1, <3>1, <3>2
    <3>3. CASE i # 0
      <4>1. i \in 1..N
          BY <3>3, <1>1
      <4>2. chosen[i + 1] = chosen[i] \o s[i + 1]
        <5>1. i + 1 # 1 /\ (i + 1) - 1 = i
            BY <3>3
        <5>. QED
            BY <2>4, <5>1
      <4>3. chosen[i] \in Seq(T) /\ Len(chosen[i]) <= i * c /\ Len(chosen[i]) \in Nat
          BY <2>6, <4>1
      <4>4. chosen[i + 1] \in Seq(T) /\ Len(chosen[i + 1]) = Len(chosen[i]) + Len(s[i + 1])
          BY <4>2, <4>3, <3>1
      <4>5. (i + 1) * c = i * c + c /\ i * c \in Nat
          OBVIOUS
      <4>6. \A x, y, z \in Nat : x <= z /\ y <= c => x + y <= z + c
          OBVIOUS
      <4>7. Len(chosen[i]) + Len(s[i + 1]) <= i * c + c
          BY <4>3, <4>5, <4>6, <3>1, Zenon
      <4>. QED
          BY <4>4, <4>5, <4>7
    <3>. QED
        BY <3>2, <3>3
  <2>. HIDE DEF Good
  <2>7. N \in Good
      BY <2>5, <2>6, <1>1, InductionOverNat
  <2>. QED
      BY <2>1, <2>7, <1>1, <1>3 DEF Good
<1>. QED
    BY <1>2, <1>3
=============================================================================
