----------------------------- MODULE CommonLemmas -----------------------------
(***************************************************************************)
(* Facts that several proofs share: induction over the naturals and over   *)
(* the subsets of a finite set, quotients and remainders, sums over finite *)
(* sets, greatest and least elements.                                      *)
(***************************************************************************)
EXTENDS Integers, FiniteSetsExt, Functions, FiniteSetTheorems, WellFoundedInduction, TLAPS

\* A set that has 0, and n + 1 with n, has every natural number.
LEMMA NatInductionOnSets ==
  ASSUME NEW Good, 0 \in Good, \A n \in Nat : n \in Good => n + 1 \in Good
  PROVE  Nat \subseteq Good
  <1> SUFFICES ASSUME Nat \ Good # {} PROVE FALSE
    OBVIOUS
  <1> DEFINE R == OpToRel(<, Nat)
             Bad == Nat \ Good
  <1>1. IsWellFoundedOn(R, Nat)
    BY NatLessThanWellFounded
  <1>2. \A a, b \in Nat : <<a, b>> \in R <=> a < b
    BY DEF OpToRel
  <1> HIDE DEF R
  <1>3. PICK n \in Bad : \A m \in Bad : ~ (<<m, n>> \in R)
    <2>1. Bad \subseteq Nat /\ Bad # {}
      OBVIOUS
    <2> HIDE DEF Bad
    <2> QED BY <1>1, <2>1, WFMin
  <1>4. n # 0 /\ n - 1 \in Nat /\ (n - 1) + 1 = n
    BY <1>3
  <1>5. n - 1 \in Good
    <2>1. n - 1 \in Bad => <<n - 1, n>> \in R
      BY <1>2, <1>4
    <2> QED BY <1>3, <1>4, <2>1
  <1>6. n \in Good
    <2> DEFINE m == n - 1
    <2>1. m \in Nat /\ m \in Good /\ m + 1 = n
      BY <1>4, <1>5
    <2> HIDE DEF m
    <2> QED BY <2>1
  <1> QED BY <1>3, <1>6

-----------------------------------------------------------------------------
(***************************************************************************)
(* Quotients and remainders.                                               *)
(***************************************************************************)
LEMMA Times ==
  ASSUME NEW d \in Nat, NEW a \in Nat, NEW b \in Nat, a <= b
  PROVE  a * d \in Nat /\ b * d \in Nat /\ a * d <= b * d
  <1>1. d * a \in Nat /\ d * b \in Nat
    OBVIOUS
  <1>2. d * a <= d * b
    OBVIOUS
  <1>3. a * d = d * a /\ b * d = d * b
    OBVIOUS
  <1> QED BY <1>1, <1>2, <1>3

LEMMA Division ==
  ASSUME NEW d \in Nat \ {0}, NEW n \in Nat
  PROVE  /\ n \div d \in Nat /\ n % d \in 0 .. (d - 1)
         /\ n = (n \div d) * d + (n % d)
  <1> DEFINE q == n \div d
             m == n % d
  <1>1. q \in Nat /\ m \in 0 .. (d - 1)
    OBVIOUS
  <1>2. n = d * q + m
    OBVIOUS
  <1> HIDE DEF q, m
  <1>3. n = q * d + m
    <2>1. d * q = q * d
      BY <1>1
    <2> QED BY <1>2, <2>1
  <1>4. n = (n \div d) * d + (n % d)
    BY <1>3 DEF q, m
  <1> QED BY <1>1, <1>4 DEF q, m

\* A number has one quotient and one remainder.
LEMMA OneQuotient ==
  ASSUME NEW d \in Nat \ {0}, NEW a \in Nat, NEW r \in Nat,
         NEW b \in 0 .. (d - 1), NEW c \in 0 .. (d - 1), a * d + b = r * d + c
  PROVE  a = r /\ b = c
  <1>1. CASE a + 1 <= r
    <2>1. a * d \in Nat /\ r * d \in Nat /\ (a + 1) * d <= r * d
      BY <1>1, Times
    <2>2. (a + 1) * d = a * d + d
      OBVIOUS
    <2> QED BY <2>1, <2>2
  <1>2. CASE r + 1 <= a
    <2>1. a * d \in Nat /\ r * d \in Nat /\ (r + 1) * d <= a * d
      BY <1>2, Times
    <2>2. (r + 1) * d = r * d + d
      OBVIOUS
    <2> QED BY <2>1, <2>2
  <1>3. CASE a = r
    <2>1. a * d \in Nat
      BY Times
    <2> QED BY <1>3, <2>1
  <1> QED BY <1>1, <1>2, <1>3

-----------------------------------------------------------------------------
(***************************************************************************)
(* Sums over finite sets.  A lemma about the sum of an operator is cited   *)
(* for a LAMBDA, so what it assumes and proves of the operator is always a *)
(* definition applied to it.                                               *)
(***************************************************************************)
SumStep(op(_), g, s) ==
  IF s = {} THEN 0 ELSE LET x == CHOOSE x \in s : TRUE IN op(x) + g[s \ {x}]

LEMMA SubsetsWellFounded ==
  ASSUME NEW S, IsFiniteSet(S)
  PROVE  IsWellFoundedOn(StrictSubsetOrdering(S), SUBSET S)
  BY FS_StrictSubsetOrderingWellFounded, FS_FiniteSubsetsOfFinite

\* The recursive function inside MapThenSumSet is well defined.
LEMMA SumDefined ==
  ASSUME NEW op(_), NEW S, IsFiniteSet(S), NEW f,
         f = CHOOSE g : g = [s \in SUBSET S |-> SumStep(op, g, s)]
  PROVE  f = [s \in SUBSET S |-> SumStep(op, f, s)]
  <1> DEFINE Def(g, s) == SumStep(op, g, s)
             R == StrictSubsetOrdering(S)
  <1>1. IsWellFoundedOn(R, SUBSET S)
    BY SubsetsWellFounded
  <1>2. WFDefOn(R, SUBSET S, Def)
    <2> SUFFICES ASSUME NEW g, NEW h, NEW s \in SUBSET S,
                        \A y \in SetLessThan(s, R, SUBSET S) : g[y] = h[y]
                 PROVE  Def(g, s) = Def(h, s)
      BY DEF WFDefOn
    <2>1. CASE s = {}
      BY <2>1 DEF SumStep
    <2>2. CASE s # {}
      <3> DEFINE x == CHOOSE x \in s : TRUE
      <3>1. x \in s
        BY <2>2
      <3>2. s \ {x} \in SetLessThan(s, R, SUBSET S)
        BY <3>1 DEF SetLessThan, StrictSubsetOrdering
      <3>3. g[s \ {x}] = h[s \ {x}]
        BY <3>2
      <3> QED BY <3>3 DEF SumStep
    <2> QED BY <2>1, <2>2
  <1>3. OpDefinesFcn(f, SUBSET S, Def)
    BY DEF OpDefinesFcn
  <1> HIDE DEF Def
  <1>4. WFInductiveDefines(f, SUBSET S, Def)
    BY <1>1, <1>2, <1>3, WFInductiveDef
  <1> QED BY <1>4 DEF WFInductiveDefines, Def

\* g holds the partial sums of f over the subsets of S.
PartialSums(g, f, S) == \A s \in SUBSET S : g[s] = SumStep(LAMBDA x : f[x], g, s)

Tabulates(f, op(_), S) == \A x \in S : f[x] = op(x)

IsTotal(n, f, S) == \E g : PartialSums(g, f, S) /\ n = g[S]

\* A sum is the sum of the table of its terms.
LEMMA SumOfTable ==
  ASSUME NEW op(_), NEW S, IsFiniteSet(S), NEW f, Tabulates(f, op, S)
  PROVE  IsTotal(MapThenSumSet(op, S), f, S)
  <1> DEFINE g == CHOOSE h : h = [s \in SUBSET S |-> SumStep(op, h, s)]
  <1>1. MapThenSumSet(op, S) = g[S]
    BY DEF MapThenSumSet, MapThenFoldSet, SumStep
  <1>2. g = CHOOSE h : h = [s \in SUBSET S |-> SumStep(op, h, s)]
    OBVIOUS
  <1> HIDE DEF g
  <1>3. g = [s \in SUBSET S |-> SumStep(op, g, s)]
    BY <1>2, SumDefined
  <1>4. ASSUME NEW s \in SUBSET S PROVE g[s] = SumStep(LAMBDA x : f[x], g, s)
    <2>1. g[s] = SumStep(op, g, s)
      BY <1>3
    <2>2. CASE s = {}
      BY <2>1, <2>2 DEF SumStep
    <2>3. CASE s # {}
      <3>1. op(CHOOSE x \in s : TRUE) = f[CHOOSE x \in s : TRUE]
        BY <2>3 DEF Tabulates
      <3> QED BY <2>1, <2>3, <3>1 DEF SumStep
    <2> QED BY <2>2, <2>3
  <1> QED BY <1>1, <1>4 DEF IsTotal, PartialSums

Total(f, S) == CHOOSE n : IsTotal(n, f, S)

\* A set of subsets that grows one element at a time holds them all.
LEMMA SubsetInduction ==
  ASSUME NEW S, IsFiniteSet(S), NEW Good,
         \A s \in SUBSET S :
           (\A t \in SUBSET s : t # s => t \in Good) => s \in Good
  PROVE  \A s \in SUBSET S : s \in Good
  <1> SUFFICES ASSUME (SUBSET S) \ Good # {} PROVE FALSE
    OBVIOUS
  <1> DEFINE R == StrictSubsetOrdering(S)
             Bad == (SUBSET S) \ Good
  <1>1. IsWellFoundedOn(R, SUBSET S)
    BY SubsetsWellFounded
  <1>2. \A t, s \in SUBSET S : <<t, s>> \in R <=> t \subseteq s /\ t # s
    BY DEF StrictSubsetOrdering
  <1> HIDE DEF R
  <1>3. PICK s \in Bad : \A t \in Bad : ~ (<<t, s>> \in R)
    <2>1. Bad \subseteq SUBSET S /\ Bad # {}
      OBVIOUS
    <2> HIDE DEF Bad
    <2> QED BY <1>1, <2>1, WFMin
  <1>4. \A t \in SUBSET s : t # s => t \in Good
    BY <1>2, <1>3
  <1> QED BY <1>3, <1>4

LEMMA PartialSumsAgree ==
  ASSUME NEW S, NEW T, NEW U, IsFiniteSet(U), U \subseteq S, U \subseteq T, NEW f,
         NEW g, PartialSums(g, f, S), NEW h, PartialSums(h, f, T)
  PROVE  g[U] = h[U]
  <1> DEFINE Good == {s \in SUBSET U : g[s] = h[s]}
  <1>1. ASSUME NEW s \in SUBSET U, \A t \in SUBSET s : t # s => t \in Good
        PROVE  s \in Good
    <2>1. /\ g[s] = SumStep(LAMBDA x : f[x], g, s)
          /\ h[s] = SumStep(LAMBDA x : f[x], h, s)
      BY DEF PartialSums
    <2>2. CASE s = {}
      BY <2>1, <2>2 DEF SumStep
    <2>3. CASE s # {}
      <3>1. (CHOOSE x \in s : TRUE) \in s
        BY <2>3
      <3>2. s \ {CHOOSE x \in s : TRUE} \in Good
        BY <1>1, <3>1
      <3> QED BY <2>1, <2>3, <3>2 DEF SumStep
    <2> QED BY <2>2, <2>3
  <1> HIDE DEF Good
  <1>2. U \in Good
    BY <1>1, SubsetInduction
  <1> QED BY <1>2 DEF Good

LEMMA TotalOf ==
  ASSUME NEW S, IsFiniteSet(S), NEW f, NEW n, IsTotal(n, f, S)
  PROVE  n = Total(f, S)
  <1>1. \A m : IsTotal(m, f, S) => m = n
    BY PartialSumsAgree DEF IsTotal
  <1> QED BY <1>1 DEF Total

LEMMA TotalOfPart ==
  ASSUME NEW S, IsFiniteSet(S), NEW f, NEW g, PartialSums(g, f, S), NEW T \in SUBSET S
  PROVE  Total(f, T) = g[T]
  <1>1. PartialSums(g, f, T) /\ IsFiniteSet(T)
    BY FS_Subset DEF PartialSums
  <1>2. IsTotal(g[T], f, T)
    BY <1>1 DEF IsTotal
  <1> QED BY <1>1, <1>2, TotalOf

LEMMA SumIsTotal ==
  ASSUME NEW op(_), NEW S, IsFiniteSet(S), NEW f, Tabulates(f, op, S)
  PROVE  MapThenSumSet(op, S) = Total(f, S)
  BY SumOfTable, TotalOf

\* The sum of a function is the sum of its table.
LEMMA SumFunctionIsTotal ==
  ASSUME NEW f, IsFiniteSet(DOMAIN f)
  PROVE  SumFunction(f) = Total(f, DOMAIN f)
  <1>1. Tabulates(f, LAMBDA x : f[x], DOMAIN f)
    BY DEF Tabulates
  <1>2. MapThenSumSet(LAMBDA x : f[x], DOMAIN f) = Total(f, DOMAIN f)
    BY <1>1, SumIsTotal
  <1>3. SumFunction(f) = MapThenSumSet(LAMBDA x : f[x], DOMAIN f)
    BY DEF SumFunction, SumFunctionOnSet, FoldFunctionOnSet, MapThenSumSet
  <1> QED BY <1>2, <1>3

LEMMA HasPartialSums ==
  ASSUME NEW S, IsFiniteSet(S), NEW f
  PROVE  \E g : PartialSums(g, f, S)
  <1>1. Tabulates(f, LAMBDA x : f[x], S)
    BY DEF Tabulates
  <1>2. IsTotal(MapThenSumSet(LAMBDA x : f[x], S), f, S)
    BY <1>1, SumOfTable
  <1> QED BY <1>2 DEF IsTotal

Integral(f, S) == \A x \in S : f[x] \in Int

\* A sum over integers is one term and the sum of the others.
LEMMA TotalStep ==
  ASSUME NEW S, IsFiniteSet(S), NEW f, Integral(f, S)
  PROVE  /\ Total(f, {}) = 0
         /\ Total(f, S) \in Int
         /\ \A x \in S : Total(f, S) = f[x] + Total(f, S \ {x})
  <1>1. PICK g : PartialSums(g, f, S)
    BY HasPartialSums
  <1> DEFINE Good == {s \in SUBSET S :
                        g[s] \in Int /\ \A x \in s : g[s] = f[x] + g[s \ {x}]}
  <1>2. ASSUME NEW s \in SUBSET S, \A t \in SUBSET s : t # s => t \in Good
        PROVE  s \in Good
    <2>1. g[s] = SumStep(LAMBDA x : f[x], g, s)
      BY <1>1 DEF PartialSums
    <2>2. CASE s = {}
      BY <2>1, <2>2 DEF SumStep
    <2>3. CASE s # {}
      <3> DEFINE c == CHOOSE x \in s : TRUE
      <3>1. c \in s
        BY <2>3
      <3>2. g[s] = f[c] + g[s \ {c}]
        BY <2>1, <2>3 DEF SumStep
      <3> HIDE DEF c
      <3>3. s \ {c} \in Good /\ f[c] \in Int
        BY <1>2, <3>1 DEF Integral
      <3>4. g[s] \in Int
        BY <3>2, <3>3
      <3>5. ASSUME NEW x \in s PROVE g[s] = f[x] + g[s \ {x}]
        <4>1. CASE x = c
          BY <3>2, <4>1
        <4>2. CASE x # c
          <5>1. s \ {x} \in Good /\ (s \ {c}) \ {x} \in Good /\ f[x] \in Int
            BY <1>2, <3>1, <4>2 DEF Integral
          <5>2. g[s \ {c}] = f[x] + g[(s \ {c}) \ {x}]
            BY <3>3, <4>2
          <5>3. g[s \ {x}] = f[c] + g[(s \ {x}) \ {c}]
            BY <5>1, <3>1, <4>2
          <5> DEFINE r == g[(s \ {c}) \ {x}]
          <5>4. (s \ {x}) \ {c} = (s \ {c}) \ {x}
            OBVIOUS
          <5>5. r \in Int /\ g[s \ {c}] = f[x] + r /\ g[s \ {x}] = f[c] + r
            BY <5>1, <5>2, <5>3, <5>4
          <5>6. f[c] \in Int
            BY <3>3
          <5> HIDE DEF r
          <5>7. f[c] + (f[x] + r) = f[x] + (f[c] + r)
            BY <5>1, <5>5, <5>6
          <5> QED BY <3>2, <5>5, <5>7
        <4> QED BY <4>1, <4>2
      <3> QED BY <3>4, <3>5
    <2> QED BY <2>2, <2>3
  <1> HIDE DEF Good
  <1>3. S \in Good
    BY <1>2, SubsetInduction
  <1>4. \A T \in SUBSET S : Total(f, T) = g[T]
    BY <1>1, TotalOfPart
  <1>5. g[{}] = 0
    BY <1>1 DEF PartialSums, SumStep
  <1> QED BY <1>3, <1>4, <1>5 DEF Good

LEMMA TotalOfUnion ==
  ASSUME NEW S, IsFiniteSet(S), NEW T, IsFiniteSet(T), S \cap T = {},
         NEW f, Integral(f, S \cup T)
  PROVE  Total(f, S \cup T) = Total(f, S) + Total(f, T)
  <1> DEFINE Good == {t \in SUBSET T : Total(f, S \cup t) = Total(f, S) + Total(f, t)}
  <1>1. Total(f, S) \in Int
    BY TotalStep DEF Integral
  <1>2. ASSUME NEW t \in SUBSET T, \A r \in SUBSET t : r # t => r \in Good
        PROVE  t \in Good
    <2>1. CASE t = {}
      <3>1. Total(f, {}) = 0 /\ S \cup t = S
        BY <2>1, TotalStep DEF Integral
      <3> QED BY <1>1, <2>1, <3>1
    <2>2. CASE t # {}
      <3>1. PICK x \in t : TRUE
        BY <2>2
      <3> DEFINE r == t \ {x}
      <3>2. IsFiniteSet(t) /\ IsFiniteSet(S \cup t) /\ IsFiniteSet(r)
        BY FS_Subset, FS_Union
      <3>3. Integral(f, t) /\ Integral(f, S \cup t) /\ Integral(f, r) /\ f[x] \in Int
        BY <3>1 DEF Integral
      <3>4. Total(f, t) = f[x] + Total(f, r) /\ Total(f, r) \in Int
        BY <3>1, <3>2, <3>3, TotalStep
      <3>5. Total(f, S \cup t) = f[x] + Total(f, (S \cup t) \ {x})
        BY <3>1, <3>2, <3>3, TotalStep
      <3>6. (S \cup t) \ {x} = S \cup r
        BY <3>1
      <3>7. Total(f, S \cup r) = Total(f, S) + Total(f, r)
        BY <1>2, <3>1
      <3>8. Total(f, S \cup t) = f[x] + (Total(f, S) + Total(f, r))
        BY <3>5, <3>6, <3>7
      <3> HIDE DEF r
      <3>9. Total(f, S \cup t) = Total(f, S) + Total(f, t)
        BY <1>1, <3>3, <3>4, <3>8
      <3> QED BY <3>9
    <2> QED BY <2>1, <2>2
  <1> HIDE DEF Good
  <1>3. T \in Good
    BY <1>2, SubsetInduction
  <1> QED BY <1>3 DEF Good

LEMMA Distributes ==
  ASSUME NEW k \in Int, NEW a \in Int, NEW b \in Int
  PROVE  k * a \in Int /\ k * b \in Int /\ k * (a + b) = k * a + k * b
  OBVIOUS

LEMMA TotalScaled ==
  ASSUME NEW S, IsFiniteSet(S), NEW k \in Int, NEW h, Integral(h, S), NEW f,
         \A x \in S : f[x] = k * h[x]
  PROVE  Total(f, S) = k * Total(h, S)
  <1> DEFINE Good == {t \in SUBSET S : Total(f, t) = k * Total(h, t)}
  <1>1. Integral(f, S)
    <2>1. \A x \in S : h[x] \in Int
      BY DEF Integral
    <2> QED BY <2>1 DEF Integral
  <1>2. ASSUME NEW t \in SUBSET S, \A r \in SUBSET t : r # t => r \in Good
        PROVE  t \in Good
    <2>1. CASE t = {}
      <3>1. Total(f, {}) = 0 /\ Total(h, {}) = 0
        BY <1>1, TotalStep
      <3> QED BY <2>1, <3>1
    <2>2. CASE t # {}
      <3>1. PICK x \in t : TRUE
        BY <2>2
      <3> DEFINE r == t \ {x}
      <3>2. IsFiniteSet(t) /\ IsFiniteSet(r)
        BY FS_Subset
      <3>3. Integral(f, t) /\ Integral(h, t) /\ Integral(h, r) /\ h[x] \in Int
        BY <1>1, <3>1 DEF Integral
      <3>4. Total(f, t) = f[x] + Total(f, r)
        BY <3>1, <3>2, <3>3, TotalStep
      <3>5. Total(h, t) = h[x] + Total(h, r) /\ Total(h, r) \in Int
        BY <3>1, <3>2, <3>3, TotalStep
      <3>6. Total(f, r) = k * Total(h, r) /\ f[x] = k * h[x]
        BY <1>2, <3>1
      <3> HIDE DEF r
      <3>7. k * (h[x] + Total(h, r)) = k * h[x] + k * Total(h, r)
        BY <3>3, <3>5, Distributes
      <3> QED BY <3>4, <3>5, <3>6, <3>7
    <2> QED BY <2>1, <2>2
  <1> HIDE DEF Good
  <1>3. S \in Good
    BY <1>2, SubsetInduction
  <1> QED BY <1>3 DEF Good

LEMMA TotalOfNats ==
  ASSUME NEW S, IsFiniteSet(S), NEW f, \A x \in S : f[x] \in Nat
  PROVE  Total(f, S) \in Nat
  <1> DEFINE Good == {t \in SUBSET S : Total(f, t) \in Nat}
  <1>1. ASSUME NEW t \in SUBSET S, \A r \in SUBSET t : r # t => r \in Good
        PROVE  t \in Good
    <2>1. IsFiniteSet(t) /\ Integral(f, t)
      BY FS_Subset DEF Integral
    <2>2. CASE t = {}
      BY <2>1, <2>2, TotalStep
    <2>3. CASE t # {}
      <3>1. PICK x \in t : TRUE
        BY <2>3
      <3>2. t \ {x} \in Good /\ f[x] \in Nat
        BY <1>1, <3>1
      <3>3. Total(f, t) = f[x] + Total(f, t \ {x})
        BY <2>1, <3>1, TotalStep
      <3> QED BY <3>2, <3>3
    <2> QED BY <2>2, <2>3
  <1> HIDE DEF Good
  <1>2. S \in Good
    BY <1>1, SubsetInduction
  <1> QED BY <1>2 DEF Good

\* A running total over numbers 1 .. n.
LEMMA RunningTotal ==
  ASSUME NEW n \in Nat, NEW f, \A k \in 1 .. (n + 1) : f[k] \in Nat
  PROVE  /\ Total(f, 1 .. n) \in Nat
         /\ Total(f, 1 .. (n + 1)) = Total(f, 1 .. n) + f[n + 1]
  <1>1. IsFiniteSet(1 .. n) /\ IsFiniteSet(1 .. (n + 1))
    BY FS_Interval
  <1>2. Integral(f, 1 .. (n + 1)) /\ \A k \in 1 .. n : f[k] \in Nat
    BY DEF Integral
  <1>3. Total(f, 1 .. n) \in Nat
    BY <1>1, <1>2, TotalOfNats
  <1>4. (1 .. (n + 1)) \ {n + 1} = 1 .. n /\ n + 1 \in 1 .. (n + 1)
    OBVIOUS
  <1>5. Total(f, 1 .. (n + 1)) = f[n + 1] + Total(f, (1 .. (n + 1)) \ {n + 1})
    BY <1>1, <1>2, <1>4, TotalStep
  <1>6. Total(f, 1 .. (n + 1)) = f[n + 1] + Total(f, 1 .. n)
    BY <1>4, <1>5
  <1>7. f[n + 1] \in Nat
    BY <1>4
  <1> QED BY <1>3, <1>6, <1>7

\* Only the terms count.
LEMMA TotalOfSame ==
  ASSUME NEW S, IsFiniteSet(S), NEW h, Integral(h, S), NEW f, \A x \in S : f[x] = h[x]
  PROVE  Total(f, S) = Total(h, S)
  <1>1. \A x \in S : f[x] = 1 * h[x]
    BY DEF Integral
  <1>2. Total(h, S) \in Int
    BY TotalStep
  <1> QED BY <1>1, <1>2, TotalScaled

LEMMA TotalOfZeros ==
  ASSUME NEW S, IsFiniteSet(S), NEW f, \A x \in S : f[x] = 0
  PROVE  Total(f, S) = 0
  <1>1. Integral(f, S) /\ \A x \in S : f[x] = 0 * f[x]
    BY DEF Integral
  <1>2. Total(f, S) = 0 * Total(f, S) /\ Total(f, S) \in Int
    BY <1>1, TotalScaled, TotalStep
  <1> QED BY <1>2

\* The weights of the terms of f in h are k in P, -k in N, and 0 elsewhere.
Signed(h, f, k, S, P, N) ==
  /\ P \in SUBSET S /\ N \in SUBSET S /\ P \cap N = {}
  /\ \A x \in P : h[x] = k * f[x]
  /\ \A x \in N : h[x] = (-k) * f[x]
  /\ \A x \in S \ (P \cup N) : h[x] = 0

\* Such a weighted sum is k times the difference of the sums over P and N.
LEMMA SignedTotal ==
  ASSUME NEW S, IsFiniteSet(S), NEW P, NEW N, NEW k \in Int, NEW f, Integral(f, S),
         NEW h, Signed(h, f, k, S, P, N)
  PROVE  /\ Total(h, S) = k * (Total(f, P) - Total(f, N))
         /\ Total(f, P) \in Int /\ Total(f, N) \in Int
  <1> P \in SUBSET S /\ N \in SUBSET S /\ P \cap N = {}
    BY DEF Signed
  <1> DEFINE Z == S \ (P \cup N)
  <1>1. /\ IsFiniteSet(P) /\ IsFiniteSet(N) /\ IsFiniteSet(Z) /\ IsFiniteSet(P \cup N)
    BY FS_Subset
  <1>2. Integral(f, P) /\ Integral(f, N)
    BY DEF Integral
  <1>3. Total(f, P) \in Int /\ Total(f, N) \in Int
    BY <1>1, <1>2, TotalStep
  <1>4. Total(h, P) = k * Total(f, P)
    BY <1>1, <1>2, TotalScaled DEF Signed
  <1>5. Total(h, N) = (-k) * Total(f, N)
    BY <1>1, <1>2, TotalScaled DEF Signed
  <1>6. Total(h, Z) = 0
    BY <1>1, TotalOfZeros DEF Signed
  <1>7. Integral(h, S)
    <2>1. \A x \in S : f[x] \in Int
      BY DEF Integral
    <2>2. \A x \in S : k * f[x] \in Int /\ (-k) * f[x] \in Int
      BY <2>1
    <2>3. \A x \in S : h[x] = k * f[x] \/ h[x] = (-k) * f[x] \/ h[x] = 0
      BY DEF Signed
    <2> QED BY <2>2, <2>3 DEF Integral
  <1>8. Total(h, P \cup N) = Total(h, P) + Total(h, N)
    BY <1>1, <1>7, TotalOfUnion DEF Integral
  <1>9. Total(h, S) = Total(h, P \cup N) + Total(h, Z)
    <2>1. S = (P \cup N) \cup Z /\ (P \cup N) \cap Z = {}
      OBVIOUS
    <2>2. Integral(h, (P \cup N) \cup Z)
      BY <1>7, <2>1
    <2> HIDE DEF Z
    <2>3. Total(h, (P \cup N) \cup Z) = Total(h, P \cup N) + Total(h, Z)
      BY <1>1, <2>1, <2>2, TotalOfUnion
    <2> QED BY <2>1, <2>3
  <1>10. k * Total(f, P) + (-k) * Total(f, N) = k * (Total(f, P) - Total(f, N))
    <2>1. \A a, b \in Int : k * a + (-k) * b = k * (a - b)
      OBVIOUS
    <2> QED BY <1>3, <2>1
  <1>11. k * Total(f, P) \in Int /\ (-k) * Total(f, N) \in Int
    BY <1>3
  <1> QED BY <1>3, <1>4, <1>5, <1>6, <1>8, <1>9, <1>10, <1>11
-----------------------------------------------------------------------------
(***************************************************************************)
(* A finite set of integers has a greatest and a least element.            *)
(***************************************************************************)
LEMMA HasMax ==
  ASSUME NEW S, IsFiniteSet(S), S # {}, S \subseteq Int
  PROVE  Max(S) \in S /\ \A y \in S : y <= Max(S)
  <1> DEFINE Good == {s \in SUBSET S : s # {} => \E x \in s : \A y \in s : y <= x}
  <1>1. ASSUME NEW s \in SUBSET S, \A t \in SUBSET s : t # s => t \in Good
        PROVE  s \in Good
    <2> SUFFICES ASSUME s # {} PROVE \E x \in s : \A y \in s : y <= x
      OBVIOUS
    <2>1. PICK a \in s : TRUE
      OBVIOUS
    <2>2. s \ {a} \in Good
      BY <1>1, <2>1
    <2>3. CASE s \ {a} = {}
      BY <2>1, <2>3
    <2>4. CASE s \ {a} # {}
      <3>1. PICK b \in s \ {a} : \A y \in s \ {a} : y <= b
        BY <2>2, <2>4
      <3>2. CASE a <= b
        BY <3>1, <3>2
      <3>3. CASE ~ (a <= b)
        <4>1. \A y \in s : y <= a
          BY <2>1, <3>1, <3>3
        <4> QED BY <2>1, <4>1
      <3> QED BY <3>2, <3>3
    <2> QED BY <2>3, <2>4
  <1> HIDE DEF Good
  <1>2. S \in Good
    BY <1>1, SubsetInduction
  <1>3. PICK x \in S : \A y \in S : y <= x
    BY <1>2 DEF Good
  <1>4. \A y \in S : x >= y
    BY <1>3
  <1> QED BY <1>4 DEF Max

LEMMA HasMin ==
  ASSUME NEW S, IsFiniteSet(S), S # {}, S \subseteq Int
  PROVE  Min(S) \in S /\ \A y \in S : Min(S) <= y
  <1> DEFINE N == {-x : x \in S}
             f == [x \in S |-> -x]
  <1>1. N # {} /\ N \subseteq Int /\ IsFiniteSet(N)
    <2>1. f \in Surjection(S, N)
      BY DEF Surjection
    <2>2. IsFiniteSet(N)
      BY <2>1, FS_Surjection
    <2>3. \A x \in S : -x \in Int
      OBVIOUS
    <2>4. N # {} /\ N \subseteq Int
      BY <2>3
    <2> QED BY <2>2, <2>4
  <1>2. Max(N) \in N /\ \A y \in N : y <= Max(N)
    BY <1>1, HasMax
  <1>3. PICK x \in S : Max(N) = -x
    BY <1>2
  <1>4. \A y \in S : x =< y
    BY <1>2, <1>3
  <1> QED BY <1>4 DEF Min

=============================================================================
