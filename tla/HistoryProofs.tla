--------------------------- MODULE HistoryProofs ---------------------------
(***************************************************************************)
(* Theorems about MarketHistory for every seed, every set of traders and     *)
(* amounts and a history of any length: what the position mathematics        *)
(* computes are integers, what a sale pays is bounded by what the seller's    *)
(* position is worth, the values of the positions add up to their pool, and   *)
(* a sale consumes what others have unlocked.                                *)
(***************************************************************************)
EXTENDS MarketHistory, ArithmeticProofs

-----------------------------------------------------------------------------
(* Sums over the first rows of a history. *)

(* s holds the sums of g up to each index, n the last. *)
Sums(s, g, n) == s = [i \in 0..n |-> IF i = 0 THEN 0 ELSE s[i - 1] + g[i]]

LEMMA SumsExist ==
    ASSUME NEW n \in Nat, NEW g, \A i \in 1..n : g[i] \in Int
    PROVE  \E s \in [0..n -> Int] : Sums(s, g, n)
<1> DEFINE Good == {m \in 0..n : \E s \in [0..m -> Int] :
                                   \A i \in 0..m : s[i] = IF i = 0 THEN 0 ELSE s[i - 1] + g[i]}
<1>1. 0 \in Good
  <2>1. [i \in 0..0 |-> 0] \in [0..0 -> Int]
    OBVIOUS
  <2>2. \A i \in 0..0 : i = 0
    OBVIOUS
  <2>3. 0 \in 0..n
    OBVIOUS
  <2> QED
    BY <2>1, <2>2, <2>3
<1>2. ASSUME NEW m \in 0..n, m # n, m \in Good
      PROVE  m + 1 \in Good
  <2>1. PICK s \in [0..m -> Int] : \A i \in 0..m : s[i] = IF i = 0 THEN 0 ELSE s[i - 1] + g[i]
    BY <1>2
  <2> DEFINE t == [i \in 0..(m + 1) |-> IF i = m + 1 THEN s[m] + g[m + 1] ELSE s[i]]
  <2>2. s[m] \in Int /\ g[m + 1] \in Int /\ m + 1 \in 0..n
    BY <1>2
  <2>3. t \in [0..(m + 1) -> Int]
    BY <2>2
  <2>4. ASSUME NEW i \in 0..(m + 1)
        PROVE  t[i] = IF i = 0 THEN 0 ELSE t[i - 1] + g[i]
    <3>1. CASE i = m + 1
      <4>1. i # 0 /\ i - 1 = m /\ m \in 0..(m + 1) /\ m # m + 1
        BY <1>2, <3>1
      <4>2. t[m] = s[m]
        BY <4>1
      <4> QED
        BY <3>1, <4>1, <4>2
    <3>2. CASE i # m + 1
      <4>1. i \in 0..m /\ i - 1 # m + 1 /\ t[i] = s[i]
        BY <3>2
      <4>2. i # 0 => t[i - 1] = s[i - 1]
        BY <4>1
      <4> QED
        BY <2>1, <4>1, <4>2
    <3> QED
      BY <3>1, <3>2
  <2> HIDE DEF t
  <2> QED
    BY <2>2, <2>3, <2>4
<1> HIDE DEF Good
<1>3. n \in Good
  BY <1>1, <1>2, UpTo
<1>4. PICK s \in [0..n -> Int] : \A i \in 0..n : s[i] = IF i = 0 THEN 0 ELSE s[i - 1] + g[i]
  BY <1>3 DEF Good
<1> QED
  BY <1>4 DEF Sums

LEMMA SumsType ==
    ASSUME NEW n \in Nat, NEW g, \A i \in 1..n : g[i] \in Int, NEW s, Sums(s, g, n)
    PROVE  \A i \in 0..n : s[i] \in Int
<1> DEFINE Good == {m \in 0..n : \A i \in 0..m : s[i] \in Int}
<1>1. \A i \in 0..n : s[i] = IF i = 0 THEN 0 ELSE s[i - 1] + g[i]
  BY DEF Sums
<1>2. 0 \in Good
  BY <1>1
<1>3. ASSUME NEW m \in 0..n, m # n, m \in Good
      PROVE  m + 1 \in Good
  <2>1. /\ m + 1 \in 0..n /\ m + 1 # 0 /\ (m + 1) - 1 = m /\ s[m] \in Int /\ g[m + 1] \in Int
        /\ \A i \in 0..(m + 1) : i \in 0..m \/ i = m + 1
    BY <1>3
  <2>2. s[m + 1] = s[m] + g[m + 1]
    BY <1>1, <2>1
  <2>3. s[m + 1] \in Int
    BY <2>1, <2>2
  <2> QED
    BY <1>3, <2>1, <2>3
<1> HIDE DEF Good
<1>4. n \in Good
  BY <1>2, <1>3, UpTo
<1> QED
  BY <1>4 DEF Good

PrefixSum(g, n) == SumUpTo(LAMBDA i : g[i], n)

LEMMA PrefixSums ==
    ASSUME NEW n \in Nat, NEW g, \A i \in 1..n : g[i] \in Int
    PROVE  \E s : Sums(s, g, n) /\ PrefixSum(g, n) = s[n]
<1> DEFINE s == CHOOSE s : s = [i \in 0..n |-> IF i = 0 THEN 0 ELSE s[i - 1] + g[i]]
<1>1. \E t : t = [i \in 0..n |-> IF i = 0 THEN 0 ELSE t[i - 1] + g[i]]
  <2>1. PICK t : Sums(t, g, n)
    BY SumsExist
  <2> QED
    BY <2>1 DEF Sums
<1>2. Sums(s, g, n)
  BY <1>1 DEF Sums
<1>3. PrefixSum(g, n) = s[n]
  BY DEF PrefixSum, SumUpTo
<1> QED
  BY <1>2, <1>3

LEMMA PrefixSumType ==
    ASSUME NEW n \in Nat, NEW g, \A i \in 1..n : g[i] \in Int
    PROVE  PrefixSum(g, n) \in Int
<1>1. PICK s : Sums(s, g, n) /\ PrefixSum(g, n) = s[n]
  BY PrefixSums
<1> QED
  BY <1>1, SumsType

LEMMA PrefixSumNone == ASSUME NEW g PROVE PrefixSum(g, 0) = 0
<1>1. PICK s : Sums(s, g, 0) /\ PrefixSum(g, 0) = s[0]
  BY PrefixSums
<1> QED
  BY <1>1 DEF Sums

-----------------------------------------------------------------------------
(* Every stage of the mathematics computes integers. *)

LEMMA DivType == ASSUME NEW a \in Int, NEW b \in Int, b > 0 PROVE a \div b \in Int /\ a % b \in Nat
  OBVIOUS

LEMMA TimesType == ASSUME NEW a \in Int, NEW b \in Int PROVE a * b \in Int
  OBVIOUS

LEMMA RoundDivType == ASSUME NEW n \in Int, NEW d \in Int, d > 0 PROVE RoundDiv(n, d) \in Int
<1>1. 2 * n + d \in Int /\ d - 2 * n \in Int /\ 2 * d \in Int /\ 2 * d > 0
  OBVIOUS
<1>2. (2 * n + d) \div (2 * d) \in Int /\ (d - 2 * n) \div (2 * d) \in Int
  BY <1>1, DivType
<1> QED
  BY <1>2 DEF RoundDiv

Trade == [user : Traders, amount : Int \ {0}, outcome : Outcomes]

LEMMA TradeFields ==
    ASSUME NEW history \in Seq(Trade)
    PROVE  /\ Len(history) \in Nat /\ DOMAIN history = 1..Len(history)
           /\ \A i \in 1..Len(history) :
                history[i].user \in Traders /\ history[i].amount \in Int /\ history[i].outcome \in Outcomes
<1>1. \A i \in 1..Len(history) : history[i] \in Trade
  OBVIOUS
<1>2. \A row \in Trade : row.user \in Traders /\ row.amount \in Int /\ row.outcome \in Outcomes
  BY DEF Trade
<1> QED
  BY <1>1, <1>2

LEMMA StakeTypes ==
    ASSUME NEW history \in Seq(Trade), NEW n \in 0..Len(history)
    PROVE  Stake(history, n) \in Int /\ YesStake(history, n) \in Int
<1> DEFINE g == [i \in 1..n |-> history[i].amount]
           h == [i \in 1..n |-> IF history[i].outcome = "YES" THEN history[i].amount ELSE 0]
<1>1. n \in Nat /\ \A i \in 1..n : g[i] \in Int /\ h[i] \in Int
  BY TradeFields
<1>2. \A i \in 0..n : i # 0 => /\ g[i] = history[i].amount
                               /\ h[i] = IF history[i].outcome = "YES" THEN history[i].amount ELSE 0
  BY <1>1
<1> HIDE DEF g, h
<1>3. PrefixSum(g, n) = Stake(history, n)
  BY <1>2, Zenon DEF PrefixSum, SumUpTo, Stake
<1>4. PrefixSum(h, n) = YesStake(history, n)
  BY <1>2, Zenon DEF PrefixSum, SumUpTo, YesStake
<1> QED
  BY <1>1, <1>3, <1>4, PrefixSumType

LEMMA PricesType ==
    ASSUME NEW history \in Seq(Trade), Priced(history), NEW i \in 1..Len(history)
    PROVE  /\ Probabilities(history)[i].num \in Int
           /\ Probabilities(history)[i].den \in Int
           /\ Probabilities(history)[i].den > 0
<1>1. Stake(history, i) \in Int /\ YesStake(history, i) \in Int
  BY TradeFields, StakeTypes
<1>2. Probabilities(history)[i] = [num |-> Subsidization + 2 * YesStake(history, i),
                                   den |-> Subsidization + Stake(history, i)]
  BY TradeFields DEF Probabilities, Table
<1>3. Subsidization + Stake(history, i) > 0
  BY DEF Priced
<1> QED
  BY <1>1, <1>2, <1>3, SubsidizationAssumption

(* The library's maximum. *)
LEMMA Greatest ==
    ASSUME NEW n \in Nat, NEW s \in SUBSET (1..n), s # {}
    PROVE  Max(s) \in s /\ \A x \in s : x <= Max(s)
<1> DEFINE T == {n - x : x \in s}
<1>1. T \subseteq Nat /\ T # {}
  <2>1. \A x \in s : x \in Int /\ 1 <= x /\ x <= n /\ n - x \in Nat
    OBVIOUS
  <2> QED
    BY <2>1
<1> HIDE DEF T
<1>2. PICK t \in T : \A y \in T : t <= y
  BY <1>1, LeastNatural
<1>3. PICK x \in s : t = n - x
  BY DEF T
<1>4. \A y \in s : n - y \in T
  BY DEF T
<1>5. \A y \in s : x >= y
  BY <1>2, <1>3, <1>4
<1>6. Max(s) \in s /\ \A y \in s : Max(s) >= y
  BY <1>5 DEF Max
<1> QED
  BY <1>6

LEMMA GreatestUpTo ==
    ASSUME NEW k \in Nat, k # 0
    PROVE  Max(1..k) = k /\ (1..k) \ {k} = 1..(k - 1)
<1>1. Max(1..k) \in 1..k /\ \A x \in 1..k : x <= Max(1..k)
  <2>1. 1..k # {} /\ 1..k \in SUBSET (1..k)
    OBVIOUS
  <2> QED
    BY <2>1, Greatest
<1> QED
  BY <1>1

(* A fold of F from b over the indices 1..n, the highest taken last. *)
Folds(f, F, b, n) ==
    \A s \in SUBSET (1..n) : f[s] = IF s = {} THEN b ELSE F[<<f[s \ {Max(s)}], Max(s)>>]

LEMMA FoldsExist ==
    ASSUME NEW n \in Nat, NEW A, NEW b \in A, NEW F \in [A \X (1..n) -> A]
    PROVE  \E f \in [SUBSET (1..n) -> A] : Folds(f, F, b, n)
<1> DEFINE S == 1..n
           Body(f, s) == IF s = {} THEN b ELSE F[<<f[s \ {Max(s)}], Max(s)>>]
           Good == {m \in Nat : \E f \in [SUBSET S -> A] :
                                    \A s \in SUBSET S : Cardinality(s) <= m => f[s] = Body(f, s)}
<1>0. IsFiniteSet(S)
  BY FS_Interval
<1>1. \A s \in SUBSET S : IsFiniteSet(s) /\ Cardinality(s) \in Nat /\ Cardinality(s) <= Cardinality(S)
  BY <1>0, FS_Subset, FS_CardinalityType
<1>2. \A s \in SUBSET S : s # {} => /\ Max(s) \in s /\ Max(s) \in S /\ s \ {Max(s)} \in SUBSET S
                                    /\ Cardinality(s \ {Max(s)}) = Cardinality(s) - 1
  BY <1>1, Greatest, FS_RemoveElement
<1>3. 0 \in Good
  <2>1. [s \in SUBSET S |-> b] \in [SUBSET S -> A]
    OBVIOUS
  <2>2. \A s \in SUBSET S : Cardinality(s) <= 0 => s = {}
    BY <1>1, FS_EmptySet
  <2> QED
    BY <2>1, <2>2
<1>4. ASSUME NEW m \in Nat, m \in Good
      PROVE  m + 1 \in Good
  <2>1. PICK f \in [SUBSET S -> A] : \A s \in SUBSET S : Cardinality(s) <= m => f[s] = Body(f, s)
    BY <1>4
  <2> DEFINE h == [s \in SUBSET S |-> IF Cardinality(s) = m + 1 THEN Body(f, s) ELSE f[s]]
  <2>3. ASSUME NEW s \in SUBSET S PROVE Body(f, s) \in A
    <3>1. CASE s = {}
      BY <3>1
    <3>2. CASE s # {}
      <4> DEFINE x == Max(s)
                 r == s \ {x}
      <4>1. x \in S /\ r \in SUBSET S
        BY <1>2, <3>2
      <4> HIDE DEF x, r, S
      <4>2. f[r] \in A
        BY <4>1
      <4>3. F[<<f[r], x>>] \in A
        BY <4>1, <4>2 DEF S
      <4> QED
        BY <3>2, <4>3 DEF x, r
    <3> QED
      BY <3>1, <3>2
  <2>4. h \in [SUBSET S -> A]
    BY <2>3
  <2>5. ASSUME NEW s \in SUBSET S, Cardinality(s) <= m + 1
        PROVE  h[s] = Body(h, s)
    <3>1. h[s] = Body(f, s)
      BY <1>1, <2>1, <2>5
    <3>2. CASE s = {}
      BY <3>1, <3>2
    <3>3. CASE s # {}
      <4>1. Cardinality(s \ {Max(s)}) # m + 1 /\ s \ {Max(s)} \in SUBSET S
        <5>1. /\ Cardinality(s \ {Max(s)}) = Cardinality(s) - 1 /\ s \ {Max(s)} \in SUBSET S
              /\ Cardinality(s) \in Nat
          BY <1>1, <1>2, <3>3, Zenon
        <5> QED
          BY <2>5, <5>1
      <4>2. h[s \ {Max(s)}] = f[s \ {Max(s)}]
        BY <4>1
      <4> QED
        BY <3>1, <3>3, <4>2
    <3> QED
      BY <3>2, <3>3
  <2> HIDE DEF h, Body, S
  <2>6. \E e \in [SUBSET S -> A] : \A s \in SUBSET S : Cardinality(s) <= m + 1 => e[s] = Body(e, s)
    BY <2>4, <2>5
  <2> QED
    BY <2>6
<1> HIDE DEF Good
<1>5. Cardinality(S) \in Good
  <2>1. Cardinality(S) \in Nat
    BY <1>0, FS_CardinalityType
  <2> QED
    BY <1>3, <1>4, <2>1, UpTo
<1>6. PICK f \in [SUBSET S -> A] :
          \A s \in SUBSET S : Cardinality(s) <= Cardinality(S) => f[s] = Body(f, s)
  BY <1>5 DEF Good
<1>7. \A s \in SUBSET S : f[s] = Body(f, s)
  BY <1>1, <1>6
<1> QED
  BY <1>7 DEF Folds

LEMMA LcmType ==
    ASSUME NEW m \in Int, NEW d \in Int, d > 0
    PROVE  Lcm(m, d) \in Int
<1> DEFINE Common == {x \in 1..d : m % x = 0 /\ d % x = 0}
<1>1. 1 \in Common
  BY SMT
<1>2. Common \in SUBSET (1..d) /\ d \in Nat
  OBVIOUS
<1> HIDE DEF Common
<1>3. Max(Common) \in 1..d
  BY <1>1, <1>2, Greatest
<1>4. m \div Max(Common) \in Int
  BY <1>3, DivType
<1>5. (m \div Max(Common)) * d \in Int
  BY <1>4, TimesType
<1> QED
  BY <1>5 DEF Lcm, Common

LEMMA CommonDenType ==
    ASSUME NEW n \in Nat, NEW probs,
           \A i \in 1..n : probs[i].den \in Int /\ probs[i].den > 0
    PROVE  CommonDen(probs, n) \in Int
<1> DEFINE S   == DOMAIN [i \in 1..n |-> probs[i].den]
           seq == [i \in 1..n |-> probs[i].den]
           F   == [x \in Int \X (1..n) |-> Lcm(x[1], seq[x[2]])]
           c   == CHOOSE c : c = [s \in SUBSET S |-> IF s = {} THEN 1
                                    ELSE Lcm(c[s \ {Max(s)}], seq[Max(s)])]
<1>0. S = 1..n
  OBVIOUS
<1>1. \A m \in Int, i \in 1..n : Lcm(m, seq[i]) \in Int
  BY LcmType
<1>2. F \in [Int \X (1..n) -> Int] /\ \A m \in Int, i \in 1..n : F[<<m, i>>] = Lcm(m, seq[i])
  BY <1>1
<1>3. CommonDen(probs, n) = c[S]
  BY DEF CommonDen, FoldLeft, MapThenFoldSet
<1> HIDE DEF F, seq, S
<1>4. PICK f \in [SUBSET (1..n) -> Int] : Folds(f, F, 1, n)
  <2>1. 1 \in Int
    OBVIOUS
  <2> QED
    BY <1>2, <2>1, FoldsExist
<1>5. f = [s \in SUBSET S |-> IF s = {} THEN 1 ELSE Lcm(f[s \ {Max(s)}], seq[Max(s)])]
  <2>1. ASSUME NEW s \in SUBSET (1..n), s # {}
        PROVE  f[s] = Lcm(f[s \ {Max(s)}], seq[Max(s)])
    <3>1. Max(s) \in 1..n /\ f[s \ {Max(s)}] \in Int
      BY <2>1, Greatest
    <3> QED
      BY <1>2, <1>4, <2>1, <3>1 DEF Folds
  <2> QED
    BY <1>0, <1>4, <2>1 DEF Folds
<1>6. c = [s \in SUBSET S |-> IF s = {} THEN 1 ELSE Lcm(c[s \ {Max(s)}], seq[Max(s)])]
  BY <1>5
<1> HIDE DEF c
<1> DEFINE Good == {k \in 0..n : c[1..k] \in Int}
<1>7. 0 \in Good
  <2>1. 1..0 = {} /\ {} \in SUBSET S
    OBVIOUS
  <2>2. c[{}] = 1
    BY <1>6, <2>1
  <2> QED
    BY <2>1, <2>2
<1>8. ASSUME NEW k \in 0..n, k # n, k \in Good
      PROVE  k + 1 \in Good
  <2>1. /\ 1..(k + 1) \in SUBSET S /\ 1..(k + 1) # {} /\ (k + 1) - 1 = k
        /\ k + 1 \in 1..n /\ k + 1 \in 0..n /\ c[1..k] \in Int
    <3>1. k \in Nat /\ k + 1 <= n /\ c[1..k] \in Int
      BY <1>8
    <3>2. 1..(k + 1) \subseteq 1..n
      BY <3>1
    <3>3. 1 \in 1..(k + 1) /\ (k + 1) - 1 = k /\ k + 1 \in 1..n /\ k + 1 \in 0..n
      BY <3>1
    <3>4. 1..(k + 1) # {}
      BY <3>3
    <3> QED
      BY <1>0, <3>1, <3>2, <3>3, <3>4
  <2>2. Max(1..(k + 1)) = k + 1 /\ (1..(k + 1)) \ {k + 1} = 1..k
    BY <2>1, GreatestUpTo
  <2>3. c[1..(k + 1)] = Lcm(c[1..k], seq[k + 1])
    BY <1>6, <2>1, <2>2
  <2> QED
    BY <1>1, <2>1, <2>3
<1> HIDE DEF Good
<1>9. n \in Good
  BY <1>7, <1>8, UpTo
<1> QED
  BY <1>0, <1>3, <1>9 DEF Good

LEMMA AbsType == ASSUME NEW n \in Int PROVE AbsInt(n) \in Nat /\ NonNeg(n) \in Nat
  BY DEF AbsInt, NonNeg

LEMMA CourseType ==
    ASSUME NEW history \in Seq(Trade), NEW probs, NEW last, NEW common \in Int,
           \A i \in 1..Len(history) :
             probs[i].num \in Int /\ probs[i].den \in Int /\ probs[i].den > 0,
           last.num \in Int, last.den \in Int
    PROVE  \A i \in 1..Len(history) : CoursePayouts(history, probs, last, common)[i] \in Int
<1> SUFFICES ASSUME NEW i \in 1..Len(history)
             PROVE  CoursePayouts(history, probs, last, common)[i] \in Int
  OBVIOUS
<1> DEFINE diff == last.num * probs[i].den - probs[i].num * last.den
<1>1. CoursePayouts(history, probs, last, common)[i]
        = AbsInt(diff) * history[i].amount * (common \div probs[i].den)
  BY DEF CoursePayouts, Table
<1>2. history[i].amount \in Int /\ common \div probs[i].den \in Int
  BY TradeFields, DivType
<1>3. diff \in Int
  <2>1. last.num * probs[i].den \in Int /\ probs[i].num * last.den \in Int
    BY TimesType
  <2> QED
    BY <2>1
<1> HIDE DEF diff
<1>4. AbsInt(diff) \in Int
  BY <1>3, AbsType
<1>5. AbsInt(diff) * history[i].amount \in Int
  BY <1>2, <1>4, TimesType
<1>6. (AbsInt(diff) * history[i].amount) * (common \div probs[i].den) \in Int
  BY <1>2, <1>5, TimesType
<1> QED
  BY <1>1, <1>6

LEMMA SideTotalType ==
    ASSUME NEW history \in Seq(Trade), NEW payouts,
           \A i \in 1..Len(history) : payouts[i] \in Int, NEW o
    PROVE  SideTotal(history, payouts, o) \in Int
<1> DEFINE n == Len(history)
           g == [i \in 1..n |-> IF history[i].outcome = o THEN payouts[i] ELSE 0]
<1>1. n \in Nat /\ \A i \in 1..n : g[i] \in Int
  BY TradeFields
<1>2. \A i \in 0..n : i # 0 => g[i] = IF history[i].outcome = o THEN payouts[i] ELSE 0
  BY <1>1
<1> HIDE DEF g
<1>3. PrefixSum(g, n) = SideTotal(history, payouts, o)
  BY <1>2, Zenon DEF PrefixSum, SumUpTo, SideTotal
<1> HIDE DEF n
<1> QED
  BY <1>1, <1>3, PrefixSumType

LEMMA PoolSharesType ==
    ASSUME NEW volume \in Int, NEW yes \in Int, NEW last, last.num \in Int, last.den \in Int,
           last.den > 0, NEW o
    PROVE  PoolShares(volume, yes, last, o) \in Int
<1>1. SingleCredit(yes, volume - yes, o) \in Int
  BY DEF SingleCredit
<1>2. Weight(last, o) \in Int
  BY DEF Weight
<1>3. volume * Weight(last, o) \in Int
  BY <1>2, TimesType
<1>4. 2 * last.den \in Int /\ 2 * last.den > 0
  OBVIOUS
<1>5. RoundDiv(volume * Weight(last, o), 2 * last.den) \in Int
  BY <1>3, <1>4, RoundDivType
<1> QED
  BY <1>1, <1>5 DEF PoolShares

LEMMA ScaleType ==
    ASSUME NEW payout \in Int, NEW total \in Int, NEW shares \in Int
    PROVE  ScalePayout(payout, total, shares) \in Int
<1>1. payout * AbsInt(shares) \in Int
  <2>1. AbsInt(shares) \in Int
    BY AbsType
  <2> QED
    BY <2>1, TimesType
<1>2. total > 0 => RoundDiv(payout * AbsInt(shares), total) \in Int
  BY <1>1, RoundDivType
<1> QED
  BY <1>2 DEF ScalePayout

LEMMA AdjustPayoutsType ==
    ASSUME NEW n \in Nat, n # 0, NEW scaled, \A i \in 1..n : scaled[i] \in Int, NEW excess \in Int
    PROVE  \A i \in 1..n : AdjustPayouts(scaled, excess, n)[i] \in Int
<1> SUFFICES ASSUME NEW i \in 1..n PROVE AdjustPayouts(scaled, excess, n)[i] \in Int
  OBVIOUS
<1>1. scaled[i] \in Int /\ excess \div n \in Int /\ (-excess) \div n \in Int
  BY DivType
<1>2. AdjustPayouts(scaled, excess, n)[i]
        = IF excess > 0
          THEN scaled[i] - (excess \div n) - (IF i > n - (excess % n) THEN 1 ELSE 0)
          ELSE scaled[i] + ((-excess) \div n) + (IF i <= (-excess) % n THEN 1 ELSE 0)
  BY DEF AdjustPayouts, Table
<1> QED
  BY <1>1, <1>2

LEMMA FinalPayoutsType ==
    ASSUME NEW history \in Seq(Trade), history # <<>>, Priced(history)
    PROVE  \A i \in 1..Len(history) : FinalPayouts(history)[i] \in Int
<1> DEFINE n      == Len(history)
           probs  == Probabilities(history)
           last   == probs[n]
           common == CommonDen(probs, n)
           course == CoursePayouts(history, probs, last, common)
           total  == Table([o \in {"YES", "NO"} |-> SideTotal(history, course, o)])
           shares == Table([o \in {"YES", "NO"} |->
                             PoolShares(Volume(history), YesStake(history, n), last, o)])
           scaled == ScaledPayouts(history, course, total, shares)
           excess == SumUpTo(LAMBDA i : scaled[i], n) - Volume(history)
<1>0. n \in Nat /\ n # 0 /\ n \in 1..n /\ n \in 0..n
  BY TradeFields
<1>1. \A i \in 1..n : probs[i].num \in Int /\ probs[i].den \in Int /\ probs[i].den > 0
  BY PricesType
<1>2. last.num \in Int /\ last.den \in Int /\ last.den > 0
  BY <1>0, <1>1
<1>3. common \in Int
  <2> HIDE DEF probs, n
  <2> QED
    BY <1>0, <1>1, CommonDenType
<1>4. \A i \in 1..n : course[i] \in Int
  <2> HIDE DEF probs, last, common
  <2> QED
    BY <1>1, <1>2, <1>3, CourseType
<1>5. \A o \in Outcomes : total[o] \in Int
  <2> HIDE DEF course
  <2>1. \A o \in Outcomes : total[o] = SideTotal(history, course, o)
    BY DEF Table, Outcomes
  <2> QED
    BY <1>4, <2>1, SideTotalType
<1>6. Volume(history) \in Int /\ YesStake(history, n) \in Int
  BY <1>0, StakeTypes DEF Volume
<1>7. \A o \in Outcomes : shares[o] \in Int
  <2> HIDE DEF last
  <2>1. \A o \in Outcomes : shares[o] = PoolShares(Volume(history), YesStake(history, n), last, o)
    BY DEF Table, Outcomes
  <2> HIDE DEF n
  <2> QED
    BY <1>2, <1>6, <2>1, PoolSharesType
<1>8. \A i \in 1..n : scaled[i] \in Int
  <2> HIDE DEF course, total, shares
  <2>1. \A i \in 1..n : scaled[i]
          = ScalePayout(course[i], total[history[i].outcome], shares[history[i].outcome])
    BY DEF ScaledPayouts, Table
  <2>2. \A i \in 1..n : history[i].outcome \in Outcomes
    BY TradeFields
  <2> HIDE DEF scaled, n
  <2> SUFFICES ASSUME NEW i \in 1..n PROVE scaled[i] \in Int
    OBVIOUS
  <2>3. /\ course[i] \in Int
        /\ total[history[i].outcome] \in Int
        /\ shares[history[i].outcome] \in Int
    BY <1>4, <1>5, <1>7, <2>2
  <2>4. ScalePayout(course[i], total[history[i].outcome], shares[history[i].outcome]) \in Int
    BY <2>3, ScaleType
  <2> QED
    BY <2>1, <2>4
<1>9. excess \in Int
  <2> HIDE DEF scaled, n
  <2>1. PrefixSum(scaled, n) \in Int
    BY <1>0, <1>8, PrefixSumType
  <2> QED
    BY <1>6, <2>1 DEF PrefixSum
<1>10. FinalPayouts(history) = AdjustPayouts(scaled, excess, n)
  BY DEF FinalPayouts, PayoutsFrom, PayoutsFromCourse, PayoutsFromScaled
<1> HIDE DEF scaled, excess, n
<1>11. \A i \in 1..n : AdjustPayouts(scaled, excess, n)[i] \in Int
  BY <1>0, <1>8, <1>9, AdjustPayoutsType
<1> QED
  BY <1>10, <1>11 DEF n

LEMMA GrossSharesType ==
    ASSUME NEW history \in Seq(Trade), NEW payouts,
           \A i \in 1..Len(history) : payouts[i] \in Int, NEW u, NEW o
    PROVE  GrossShares(history, payouts, u, o) \in Nat
<1> DEFINE n == Len(history)
           g == [i \in 1..n |-> IF history[i].user = u /\ history[i].outcome = o THEN payouts[i] ELSE 0]
<1>1. n \in Nat /\ \A i \in 1..n : g[i] \in Int
  BY TradeFields
<1>2. \A i \in 0..n : i # 0 =>
        g[i] = IF history[i].user = u /\ history[i].outcome = o THEN payouts[i] ELSE 0
  BY <1>1
<1> HIDE DEF g
<1>3. NonNeg(PrefixSum(g, n)) = GrossShares(history, payouts, u, o)
  BY <1>2, Zenon DEF PrefixSum, SumUpTo, GrossShares
<1> HIDE DEF n
<1> QED
  BY <1>1, <1>3, PrefixSumType, AbsType

(* Each user's shares: of one outcome at most, and never negative. *)
LEMMA NetPositionsType ==
    ASSUME NEW history \in Seq(Trade), NEW payouts,
           \A i \in 1..Len(history) : payouts[i] \in Int, NEW u \in RowUsers(history)
    PROVE  NetPositions(history, payouts)[u] \in [{"YES", "NO"} -> Nat]
<1> DEFINE gross == Table([v \in RowUsers(history) |->
                       Table([o \in {"YES", "NO"} |-> GrossShares(history, payouts, v, o)])])
<1>1. \A o \in {"YES", "NO"} : gross[u][o] = GrossShares(history, payouts, u, o)
  BY DEF Table
<1>2. \A o \in {"YES", "NO"} : gross[u][o] \in Nat
  BY <1>1, GrossSharesType
<1>3. NetPositions(history, payouts)[u]
        = [o \in {"YES", "NO"} |-> NonNeg(gross[u][o] - gross[u][OtherOutcome[o]])]
  <2> HIDE DEF gross
  <2>1. NetFrom(RowUsers(history), gross)[u]
          = [o \in {"YES", "NO"} |-> NonNeg(gross[u][o] - gross[u][OtherOutcome[o]])]
    BY DEF NetFrom, Table
  <2> QED
    BY <2>1 DEF NetPositions, gross
<1> HIDE DEF gross
<1>4. \A o \in {"YES", "NO"} : NonNeg(gross[u][o] - gross[u][OtherOutcome[o]]) \in Nat
  <2>1. \A o \in {"YES", "NO"} : OtherOutcome[o] \in {"YES", "NO"}
    BY DEF OtherOutcome
  <2>2. \A o \in {"YES", "NO"} : gross[u][o] - gross[u][OtherOutcome[o]] \in Int
    BY <1>2, <2>1
  <2> QED
    BY <2>2, AbsType
<1> QED
  BY <1>3, <1>4

-----------------------------------------------------------------------------
(* The traders of a history and the order of the adjustment. *)

LEMMA UsersFinite ==
    ASSUME NEW history \in Seq(Trade)
    PROVE  IsFiniteSet(RowUsers(history))
<1> DEFINE Some(k) == {history[i].user : i \in 1..k}
           Good    == {k \in 0..Len(history) : IsFiniteSet(Some(k))}
<1>1. 0 \in Good
  <2>1. Some(0) = {} /\ 0 \in 0..Len(history)
    BY TradeFields
  <2> QED
    BY <2>1, FS_EmptySet
<1>2. ASSUME NEW k \in 0..Len(history), k # Len(history), k \in Good
      PROVE  k + 1 \in Good
  <2>1. k + 1 \in 0..Len(history) /\ Some(k + 1) = Some(k) \union {history[k + 1].user}
    BY <1>2, TradeFields
  <2>2. IsFiniteSet(Some(k))
    BY <1>2
  <2> HIDE DEF Some
  <2>3. IsFiniteSet(Some(k) \union {history[k + 1].user})
    BY <2>2, FS_AddElement
  <2> QED
    BY <2>1, <2>3
<1> HIDE DEF Good
<1>3. Len(history) \in Good
  BY <1>1, <1>2, TradeFields, UpTo
<1> QED
  BY <1>3 DEF Good, RowUsers

LEMMA FirstRows ==
    ASSUME NEW history \in Seq(Trade), NEW u \in RowUsers(history)
    PROVE  FirstRow(history, u) \in 1..Len(history) /\ history[FirstRow(history, u)].user = u
<1> DEFINE T == {i \in 1..Len(history) : history[i].user = u}
<1>1. T \subseteq Nat /\ T # {}
  BY TradeFields DEF RowUsers
<1>2. \A i \in T : i \in 1..Len(history) /\ history[i].user = u
  OBVIOUS
<1>3. FirstRow(history, u) = Min(T)
  BY DEF FirstRow
<1> HIDE DEF T
<1>4. Min(T) \in T
  BY <1>1, LeastNatural DEF Min
<1> QED
  BY <1>2, <1>3, <1>4

(* Whoever is last in the order has everybody else before them, and the order  *)
(* ranks k elements for every k: so handing out the remainder by rank hands     *)
(* out all of it.                                                            *)
LEMMA SomebodyIsLast ==
    ASSUME NEW S, IsFiniteSet(S), S # {}, NEW raw, NEW first,
           \A u \in S : raw[u] \in Int /\ first[u] \in Int,
           \A u, v \in S : u # v => first[u] # first[v]
    PROVE  \E x \in S : \A u \in S : ~Before(raw, first, x, u)
<1> DEFINE T == {s \in SUBSET S : s # {} /\ ~\E x \in s : \A u \in s : ~Before(raw, first, x, u)}
<1>1. SUFFICES ASSUME T # {} PROVE FALSE
  OBVIOUS
<1>2. PICK s \in T : \A x \in s : s \ {x} \notin T
  <2>1. T \subseteq SUBSET S
    OBVIOUS
  <2> HIDE DEF T
  <2> QED
    BY <1>1, <2>1, LeastSet
<1>3. PICK y \in s : TRUE
  OBVIOUS
<1>4. s \in SUBSET S /\ y \in S /\ \E z \in s : Before(raw, first, y, z)
  OBVIOUS
<1>5. ~Before(raw, first, y, y)
  BY <1>4 DEF Before
<1>6. s \ {y} # {} /\ s \ {y} \in SUBSET S
  BY <1>4, <1>5
<1>7. PICK x \in s \ {y} : \A u \in s \ {y} : ~Before(raw, first, x, u)
  BY <1>2, <1>3, <1>6
<1>8. \E u \in s : Before(raw, first, x, u)
  OBVIOUS
<1>9. Before(raw, first, x, y)
  BY <1>7, <1>8
<1>10. PICK z \in s : Before(raw, first, y, z)
  BY <1>4
<1>11. x \in S /\ z \in S /\ Before(raw, first, x, z)
  <2>1. x \in S /\ z \in S
    BY <1>4
  <2> QED
    BY <1>4, <1>9, <1>10, <2>1 DEF Before
<1>12. z # y
  BY <1>5, <1>10
<1> QED
  BY <1>7, <1>11, <1>12

(* The first r of s. *)
Leading(raw, first, s, r) ==
    {u \in s : Cardinality({v \in s : Before(raw, first, v, u)}) < r}

LEMMA RanksAreCounted ==
    ASSUME NEW S, IsFiniteSet(S), NEW raw, NEW first,
           \A u \in S : raw[u] \in Int /\ first[u] \in Int,
           \A u, v \in S : u # v => first[u] # first[v],
           NEW r \in Nat
    PROVE  r <= Cardinality(S) => Cardinality(Leading(raw, first, S, r)) = r
<1> DEFINE Counted(s) == Cardinality(Leading(raw, first, s, r))
                           = IF r <= Cardinality(s) THEN r ELSE Cardinality(s)
           T == {s \in SUBSET S : ~Counted(s)}
<1>0. \A s \in SUBSET S : IsFiniteSet(s) /\ Cardinality(s) \in Nat
  BY FS_Subset, FS_CardinalityType
<1>1. ASSUME T # {} PROVE FALSE
  <2>1. PICK s \in T : \A x \in s : s \ {x} \notin T
    <3>1. T \subseteq SUBSET S
      OBVIOUS
    <3> HIDE DEF T
    <3> QED
      BY <1>1, <3>1, LeastSet
  <2>2. s \in SUBSET S /\ ~Counted(s)
    OBVIOUS
  <2>3. s # {}
    <3>1. SUFFICES ASSUME s = {} PROVE FALSE
      OBVIOUS
    <3>2. Leading(raw, first, s, r) = {}
      BY <3>1 DEF Leading
    <3> QED
      BY <2>2, <3>1, <3>2, FS_EmptySet
  <2>4. PICK x \in s : \A u \in s : ~Before(raw, first, x, u)
    BY <1>0, <2>2, <2>3, SomebodyIsLast
  <2> DEFINE t == s \ {x}
  <2>5. t \in SUBSET S /\ Counted(t)
    BY <2>1, <2>2, Zenon
  <2>6. IsFiniteSet(s) /\ IsFiniteSet(t) /\ Cardinality(t) = Cardinality(s) - 1
        /\ Cardinality(s) \in Nat /\ Cardinality(t) \in Nat
    <3> HIDE DEF T
    <3> QED
      BY <1>0, <2>2, <2>5, FS_RemoveElement
  <2>7. {v \in s : Before(raw, first, v, x)} = t
    <3>1. ~Before(raw, first, x, x)
      BY <2>4
    <3>2. ASSUME NEW v \in t PROVE Before(raw, first, v, x)
      <4>1. v \in S /\ x \in S /\ v \in s /\ v # x
        BY <2>2
      <4>2. first[v] # first[x] /\ ~Before(raw, first, x, v)
        BY <2>4, <4>1
      <4> QED
        BY <4>1, <4>2 DEF Before
    <3> QED
      BY <3>1, <3>2
  <2>8. \A u \in t : {v \in s : Before(raw, first, v, u)} = {v \in t : Before(raw, first, v, u)}
    BY <2>4
  <2>9. Leading(raw, first, s, r)
          = Leading(raw, first, t, r) \union (IF Cardinality(t) < r THEN {x} ELSE {})
    <3> HIDE DEF T
    <3> QED
      BY <2>7, <2>8 DEF Leading
  <2>10. Leading(raw, first, t, r) \in SUBSET t /\ x \notin Leading(raw, first, t, r)
    BY DEF Leading
  <2>11. IsFiniteSet(Leading(raw, first, t, r))
    BY <2>6, <2>10, FS_Subset
  <2>12. Cardinality(Leading(raw, first, s, r))
           = Cardinality(Leading(raw, first, t, r)) + (IF Cardinality(t) < r THEN 1 ELSE 0)
    <3> HIDE DEF t
    <3>1. CASE Cardinality(t) < r
      BY <2>9, <2>10, <2>11, <3>1, FS_AddElement
    <3>2. CASE ~(Cardinality(t) < r)
      <4>1. Leading(raw, first, s, r) = Leading(raw, first, t, r)
        BY <2>9, <3>2
      <4>2. Cardinality(Leading(raw, first, t, r)) \in Nat
        BY <2>11, FS_CardinalityType
      <4> QED
        BY <3>2, <4>1, <4>2
    <3> QED
      BY <3>1, <3>2
  <2> HIDE DEF t
  <2> QED
    BY <2>2, <2>5, <2>6, <2>12
<1>2. Counted(S)
  BY <1>1
<1> QED
  BY <1>2

(* Elements that add nothing may be left out of a sum. *)
LEMMA SumSkipsZeros ==
    ASSUME NEW S, IsFiniteSet(S), NEW W, W \subseteq S, NEW g,
           \A x \in S : g[x] \in Int, \A x \in S \ W : g[x] = 0
    PROVE  Sum(g, S) = Sum(g, W)
<1> DEFINE T == {s \in SUBSET S : W \subseteq s /\ Sum(g, s) # Sum(g, W)}
<1>1. SUFFICES ASSUME T # {} PROVE FALSE
  OBVIOUS
<1>2. PICK s \in T : \A x \in s : s \ {x} \notin T
  <2>1. T \subseteq SUBSET S
    OBVIOUS
  <2> HIDE DEF T
  <2> QED
    BY <1>1, <2>1, LeastSet
<1>3. s \in SUBSET S /\ W \subseteq s /\ Sum(g, s) # Sum(g, W)
  OBVIOUS
<1>4. PICK x \in s : x \notin W
  BY <1>3
<1>5. IsFiniteSet(s) /\ IsFiniteSet(s \ {x}) /\ \A y \in s : g[y] \in Int
  BY <1>3, FS_Subset, FS_RemoveElement
<1>6. Sum(g, s) = g[x] + Sum(g, s \ {x})
  BY <1>5, SumTakes
<1>7. g[x] = 0 /\ Sum(g, s \ {x}) \in Int
  <2>1. \A y \in s \ {x} : g[y] \in Int
    BY <1>5
  <2> QED
    BY <1>3, <1>4, <1>5, <2>1, SumType
<1>8. s \ {x} \in SUBSET S /\ W \subseteq s \ {x} /\ Sum(g, s \ {x}) = Sum(g, W)
  <2>1. s \ {x} \in SUBSET S /\ W \subseteq s \ {x}
    BY <1>3, <1>4
  <2>2. s \ {x} \notin T
    BY <1>2
  <2> QED
    BY <2>1, <2>2
<1> QED
  BY <1>3, <1>6, <1>7, <1>8

LEMMA OneMoreShare ==
    ASSUME NEW n \in Int, NEW q \in Int
    PROVE  q + (n - 1) * q = n * q
  BY Z3

(* Every element gets q more and those of A one more. *)
LEMMA SumShares ==
    ASSUME NEW S, IsFiniteSet(S), NEW g, NEW h, NEW A, A \subseteq S, NEW q \in Int,
           NEW way \in {1, -1}, \A x \in S : h[x] \in Int,
           \A x \in S : g[x] = h[x] + way * (q + (IF x \in A THEN 1 ELSE 0))
    PROVE  Sum(g, S) = Sum(h, S) + way * (Cardinality(S) * q + Cardinality(A))
<1> DEFINE Shared(s) == Sum(g, s) = Sum(h, s) + way * (Cardinality(s) * q + Cardinality(A \intersect s))
           T == {s \in SUBSET S : ~Shared(s)}
<1>0. \A s \in SUBSET S : IsFiniteSet(s) /\ Cardinality(s) \in Nat
  BY FS_Subset, FS_CardinalityType
<1>1. \A x \in S : g[x] \in Int
  OBVIOUS
<1>2. ASSUME T # {} PROVE FALSE
  <2>1. PICK s \in T : \A x \in s : s \ {x} \notin T
    <3>1. T \subseteq SUBSET S
      OBVIOUS
    <3> HIDE DEF T
    <3> QED
      BY <1>2, <3>1, LeastSet
  <2>2. s \in SUBSET S /\ ~Shared(s)
    OBVIOUS
  <2>3. s # {}
    <3>1. SUFFICES ASSUME s = {} PROVE FALSE
      OBVIOUS
    <3>2. Sum(g, s) = 0 /\ Sum(h, s) = 0 /\ Cardinality(s) = 0 /\ Cardinality(A \intersect s) = 0
      BY <3>1, SumEmpty, FS_EmptySet
    <3>3. Shared(s)
      BY <3>2
    <3> QED
      BY <2>2, <3>3
  <2>4. PICK x \in s : TRUE
    BY <2>3
  <2> DEFINE t == s \ {x}
             n == Cardinality(s)
             a == Cardinality(A \intersect t)
             e == IF x \in A THEN 1 ELSE 0
  <2>5. t \in SUBSET S /\ Shared(t) /\ x \in S
    BY <2>1, <2>2, <2>4, Zenon
  <2> HIDE DEF T
  <2>6. IsFiniteSet(s) /\ IsFiniteSet(t) /\ n \in Nat /\ Cardinality(t) = n - 1
    BY <1>0, <2>2, <2>5, FS_RemoveElement
  <2>7. Cardinality(A \intersect s) = a + e /\ a \in Nat
    <3>1. IsFiniteSet(A \intersect t) /\ a \in Nat
      <4>1. A \intersect t \in SUBSET S
        BY <2>5
      <4> QED
        BY <1>0, <4>1
    <3>2. x \notin A \intersect t
      OBVIOUS
    <3>3. CASE x \in A
      <4>1. A \intersect s = (A \intersect t) \union {x}
        BY <2>4, <3>3
      <4> HIDE DEF t
      <4> QED
        BY <3>1, <3>2, <3>3, <4>1, FS_AddElement
    <3>4. CASE x \notin A
      <4>1. A \intersect s = A \intersect t
        BY <2>4, <3>4
      <4>2. e = 0 /\ Cardinality(A \intersect s) = a
        BY <3>4, <4>1
      <4> HIDE DEF a, e
      <4> QED
        BY <3>1, <4>2
    <3> QED
      BY <3>3, <3>4
  <2>8. Sum(g, s) = g[x] + Sum(g, t) /\ Sum(h, s) = h[x] + Sum(h, t)
    <3>1. \A y \in s : g[y] \in Int /\ h[y] \in Int
      BY <1>1, <2>2
    <3> QED
      BY <2>4, <2>6, <3>1, SumTakes
  <2>9. Sum(g, t) \in Int /\ Sum(h, t) \in Int /\ h[x] \in Int
    <3>1. \A y \in t : g[y] \in Int /\ h[y] \in Int
      BY <1>1, <2>5
    <3> QED
      BY <2>5, <2>6, <3>1, SumType
  <2>10. g[x] = h[x] + way * (q + e)
    BY <2>5
  <2>11. Sum(g, t) = Sum(h, t) + way * ((n - 1) * q + a)
    BY <2>5, <2>6
  <2>12. q + (n - 1) * q = n * q /\ (n - 1) * q \in Int /\ n * q \in Int
    <3> HIDE DEF n
    <3> QED
      BY <2>6, OneMoreShare, TimesType
  <2> HIDE DEF t, n, a
  <2>13. e \in Int
    OBVIOUS
  <2> HIDE DEF e
  <2>14. Sum(g, s) = Sum(h, s) + way * (n * q + (a + e))
    <3>1. CASE way = 1
      BY <2>7, <2>8, <2>9, <2>10, <2>11, <2>12, <2>13, <3>1
    <3>2. CASE way = -1
      BY <2>7, <2>8, <2>9, <2>10, <2>11, <2>12, <2>13, <3>2
    <3> QED
      BY <3>1, <3>2
  <2>15. Shared(s)
    BY <2>7, <2>14 DEF n
  <2> QED
    BY <2>2, <2>15
<1> HIDE DEF T
<1>3. Shared(S)
  BY <1>2 DEF T
<1>4. A \intersect S = A
  OBVIOUS
<1> QED
  BY <1>3, <1>4

(* The adjustment gives every user an integer, and its values add up to the    *)
(* target as soon as one raw value is positive.                              *)
LEMMA AdjustedValues ==
    ASSUME NEW S, IsFiniteSet(S), NEW raw, DOMAIN raw = S, NEW first, NEW target \in Int,
           \A u \in S : raw[u] \in Int /\ first[u] \in Int,
           \A u, v \in S : u # v => first[u] # first[v]
    PROVE  /\ \A u \in S : AdjustToTarget(raw, target, first)[u] \in Int
           /\ \/ \A u \in S : AdjustToTarget(raw, target, first)[u] <= 0
              \/ Sum(AdjustToTarget(raw, target, first), S) = target
           /\ Sum(raw, {u \in S : raw[u] > 0}) <= target =>
                \A u \in S : raw[u] <= AdjustToTarget(raw, target, first)[u]
<1> DEFINE W     == {u \in S : raw[u] > 0}
           delta == target - Sum(raw, W)
           n     == Cardinality(W)
           q     == AbsInt(delta) \div n
           r     == AbsInt(delta) % n
           A     == Leading(raw, first, W, r)
           new   == AdjustToTarget(raw, target, first)
<1>1. new = AdjustBy(raw, W, delta, first)
  BY DEF AdjustToTarget, AdjustAmong, Sum
<1>2. \A u \in S : new[u] = IF W = {} THEN raw[u]
                            ELSE IF u \notin W THEN 0
                            ELSE raw[u] + Sign(delta) * RoundRobin(delta, W, raw, first, u)
  <2> HIDE DEF W, delta, new
  <2> QED
    BY <1>1 DEF AdjustBy, Table
<1>3. W \subseteq S /\ IsFiniteSet(W) /\ \A u \in W : raw[u] \in Int /\ first[u] \in Int
  BY FS_Subset
<1>4. \A u, v \in W : u # v => first[u] # first[v]
  OBVIOUS
<1>0. \A u \in S : raw[u] \in Int
  OBVIOUS
<1>5. CASE W = {}
  <2>1. \A u \in S : new[u] = raw[u]
    BY <1>2, <1>5
  <2>2. \A u \in S : raw[u] <= 0
    BY <1>5
  <2> HIDE DEF new
  <2>3. \A u \in S : raw[u] <= new[u]
    BY <1>0, <2>1
  <2> QED
    BY <1>0, <2>1, <2>2, <2>3 DEF new
<1>6. CASE W # {}
  <2>0. \A u \in S : u \notin W => raw[u] <= 0
    OBVIOUS
  <2> HIDE DEF W
  <2>1. delta \in Int /\ AbsInt(delta) \in Nat
    <3>1. Sum(raw, W) \in Int
      BY <1>3, SumType
    <3> QED
      BY <3>1, AbsType
  <2>2. n \in Nat /\ n > 0
    BY <1>3, <1>6, FS_CardinalityType, FS_EmptySet
  <2> HIDE DEF delta, n, new
  <2>3. q \in Int /\ r \in Nat /\ r <= n /\ n * q + r = AbsInt(delta)
    <3> DEFINE d == AbsInt(delta)
    <3>1. d \in Int
      BY <2>1
    <3> HIDE DEF d
    <3>2. d \div n \in Int /\ d % n \in Nat /\ d % n <= n /\ n * (d \div n) + (d % n) = d
      BY <2>2, <3>1, Z3
    <3> QED
      BY <3>2 DEF d
  <2>4. \A u \in W : RoundRobin(delta, W, raw, first, u) = q + (IF u \in A THEN 1 ELSE 0)
    BY DEF RoundRobin, Leading, n
  <2>5. A \subseteq W /\ Cardinality(A) = r
    <3> HIDE DEF r
    <3>1. Cardinality(A) = r
      BY <1>3, <1>4, <2>3, RanksAreCounted DEF n
    <3> QED
      BY <3>1 DEF Leading
  <2> HIDE DEF A, q, r
  <2>6. Sign(delta) \in {1, -1} /\ delta = Sign(delta) * AbsInt(delta)
    BY <2>1 DEF Sign, AbsInt
  <2>7. \A u \in W : new[u] = raw[u] + Sign(delta) * (q + (IF u \in A THEN 1 ELSE 0))
    BY <1>2, <1>3, <1>6, <2>4
  <2>8. \A u \in S : new[u] \in Int
    <3>1. ASSUME NEW u \in S, u \in W PROVE new[u] \in Int
      BY <1>3, <2>3, <2>6, <2>7, <3>1
    <3>2. ASSUME NEW u \in S, u \notin W PROVE new[u] \in Int
      BY <1>2, <1>6, <3>2
    <3> QED
      BY <3>1, <3>2
  <2>9. Sum(new, S) = Sum(new, W)
    <3>1. \A u \in S \ W : new[u] = 0
      BY <1>2, <1>6
    <3> QED
      BY <1>3, <2>8, <3>1, SumSkipsZeros
  <2>10. Sum(new, W) = Sum(raw, W) + Sign(delta) * (n * q + Cardinality(A))
    <3> DEFINE way == Sign(delta)
    <3>1. way \in {1, -1} /\ \A u \in W : new[u] = raw[u] + way * (q + (IF u \in A THEN 1 ELSE 0))
      BY <2>6, <2>7
    <3> HIDE DEF way
    <3>2. way \in {1, -1} /\ q \in Int /\ A \subseteq W /\ IsFiniteSet(W)
      BY <1>3, <2>3, <2>5, <3>1
    <3>3. \A u \in W : raw[u] \in Int
      BY <1>3
    <3>4. \A u \in W : new[u] = raw[u] + way * (q + (IF u \in A THEN 1 ELSE 0))
      BY <3>1
    <3>5. Sum(new, W) = Sum(raw, W) + way * (Cardinality(W) * q + Cardinality(A))
      BY ONLY <3>2, <3>3, <3>4, SumShares
    <3> QED
      BY <3>5 DEF n, way
  <2>11. Sum(raw, W) \in Int /\ delta = target - Sum(raw, W)
    BY <1>3, SumType DEF delta
  <2>12. Sum(new, W) = Sum(raw, W) + delta
    BY <2>3, <2>5, <2>6, <2>10
  <2>13. Sum(new, S) = target
    BY <2>1, <2>9, <2>11, <2>12
  <2>14. Sum(raw, W) <= target => \A u \in S : raw[u] <= new[u]
    <3> SUFFICES ASSUME Sum(raw, W) <= target, NEW u \in S PROVE raw[u] <= new[u]
      OBVIOUS
    <3>1. delta >= 0 /\ Sign(delta) = 1
      BY <2>11 DEF Sign
    <3>2. q \in Nat
      <4> DEFINE d == AbsInt(delta)
      <4>1. d \in Nat
        BY <2>1
      <4> HIDE DEF d
      <4>2. d \div n \in Nat
        BY <2>2, <4>1, DivIsNat
      <4> QED
        BY <4>2 DEF q, d
    <3>3. u \in W => new[u] = raw[u] + (q + (IF u \in A THEN 1 ELSE 0))
      <4>1. u \in W => new[u] = raw[u] + 1 * (q + (IF u \in A THEN 1 ELSE 0))
        BY <2>7, <3>1
      <4> QED
        BY <3>2, <4>1
    <3>4. u \notin W => new[u] = 0 /\ raw[u] <= 0
      BY <1>2, <1>6, <2>0
    <3> QED
      BY <1>0, <3>2, <3>3, <3>4
  <2> QED
    BY <2>8, <2>13, <2>14 DEF new, W
<1> QED
  BY <1>5, <1>6

-----------------------------------------------------------------------------
(* Valuations. *)

Results == {"none", "YES", "NO"}

LEMMA PositionValueType ==
    ASSUME NEW shares \in [{"YES", "NO"} -> Nat], NEW last, last.num \in Int, last.den \in Int,
           last.den > 0, NEW result \in Results
    PROVE  PositionValue(shares, last, result) \in Int
<1>1. shares["YES"] \in Int /\ shares["NO"] \in Int /\ Weight(last, "NO") \in Int
  BY DEF Weight
<1>2. shares["YES"] * last.num \in Int /\ shares["NO"] * Weight(last, "NO") \in Int
  BY <1>1, TimesType
<1>3. 2 * last.den \in Int /\ 2 * last.den > 0
  OBVIOUS
<1>4. /\ RoundDiv(shares["YES"] * last.num, 2 * last.den) \in Int
      /\ RoundDiv(shares["NO"] * Weight(last, "NO"), 2 * last.den) \in Int
  BY <1>2, <1>3, RoundDivType
<1>5. CASE result = "none"
  BY <1>4, <1>5 DEF PositionValue
<1>6. CASE result \in {"YES", "NO"}
  BY <1>1, <1>6 DEF PositionValue
<1> QED
  BY <1>5, <1>6 DEF Results

LEMMA NetSharesType ==
    ASSUME NEW history \in Seq(Trade), history # <<>>, Priced(history), NEW u \in RowUsers(history)
    PROVE  NetShares(history)[u] \in [{"YES", "NO"} -> Nat]
<1>1. \A i \in 1..Len(history) : FinalPayouts(history)[i] \in Int
  BY FinalPayoutsType
<1> DEFINE payouts == FinalPayouts(history)
<1> HIDE DEF payouts
<1>2. NetPositions(history, payouts)[u] \in [{"YES", "NO"} -> Nat]
  BY <1>1, NetPositionsType DEF payouts
<1> QED
  BY <1>2 DEF NetShares, payouts

(* The open pool is the sum of the shares. *)
LEMMA OpenPool ==
    ASSUME NEW history \in Seq(Trade), history # <<>>, Priced(history)
    PROVE  \E g : /\ \A u \in RowUsers(history) :
                       g[u] = NetShares(history)[u]["YES"] + NetShares(history)[u]["NO"] /\ g[u] \in Int
                  /\ TargetPool(history, NetShares(history), "none") = Sum(g, RowUsers(history))
<1> DEFINE S   == RowUsers(history)
           net == NetShares(history)
           g   == [u \in S |-> net[u]["YES"] + net[u]["NO"]]
<1>1. \A u \in S : g[u] = net[u]["YES"] + net[u]["NO"] /\ g[u] \in Int
  <2>1. \A u \in S : net[u] \in [{"YES", "NO"} -> Nat]
    BY NetSharesType
  <2> HIDE DEF net, S
  <2> QED
    BY <2>1
<1>2. TargetPool(history, net, "none") = MapThenSumSet(LAMBDA u : net[u]["YES"] + net[u]["NO"], S)
  BY DEF TargetPool
<1>3. IsFiniteSet(S)
  BY UsersFinite
<1> HIDE DEF net, S, g
<1>4. \A s \in SUBSET S : s # {} =>
        g[CHOOSE x \in s : TRUE]
          = net[CHOOSE x \in s : TRUE]["YES"] + net[CHOOSE x \in s : TRUE]["NO"]
  BY <1>1
<1> DEFINE f == CHOOSE h : h = [s \in SUBSET S |-> IF s = {} THEN 0
                  ELSE (net[CHOOSE x \in s : TRUE]["YES"] + net[CHOOSE x \in s : TRUE]["NO"])
                         + h[s \ {CHOOSE x \in s : TRUE}]]
<1>5. MapThenSumSet(LAMBDA u : net[u]["YES"] + net[u]["NO"], S) = f[S]
  BY DEF MapThenSumSet, MapThenFoldSet
<1>6. PICK e : Adds(e, g, S) /\ Sum(g, S) = e[S]
  BY <1>1, <1>3, SumAdds
<1>7. \E h : h = [s \in SUBSET S |-> IF s = {} THEN 0
                ELSE (net[CHOOSE x \in s : TRUE]["YES"] + net[CHOOSE x \in s : TRUE]["NO"])
                       + h[s \ {CHOOSE x \in s : TRUE}]]
  <2>1. e = [s \in SUBSET S |-> IF s = {} THEN 0
               ELSE g[CHOOSE x \in s : TRUE] + e[s \ {CHOOSE x \in s : TRUE}]]
    BY <1>6 DEF Adds, Pick
  <2>2. e = [s \in SUBSET S |-> IF s = {} THEN 0
               ELSE (net[CHOOSE x \in s : TRUE]["YES"] + net[CHOOSE x \in s : TRUE]["NO"])
                      + e[s \ {CHOOSE x \in s : TRUE}]]
    BY <1>4, <2>1
  <2> QED
    BY <2>2
<1>8. Adds(f, g, S)
  <2>1. f = [s \in SUBSET S |-> IF s = {} THEN 0
               ELSE (net[CHOOSE x \in s : TRUE]["YES"] + net[CHOOSE x \in s : TRUE]["NO"])
                      + f[s \ {CHOOSE x \in s : TRUE}]]
    BY <1>7
  <2> HIDE DEF f
  <2> QED
    BY <1>4, <2>1 DEF Adds, Pick
<1> HIDE DEF f
<1>9. \A s \in SUBSET S : e[s] = f[s]
  BY <1>3, <1>6, <1>8, AddsAgree
<1>10. TargetPool(history, net, "none") = Sum(g, S)
  BY <1>2, <1>5, <1>6, <1>9
<1> QED
  BY <1>1, <1>10 DEF S, net

LEMMA TargetPoolType ==
    ASSUME NEW history \in Seq(Trade), history # <<>>, Priced(history), NEW result \in Results
    PROVE  TargetPool(history, NetShares(history), result) \in Int
<1> DEFINE S == RowUsers(history)
<1>1. CASE result # "none"
  <2>1. Volume(history) \in Int
    BY TradeFields, StakeTypes DEF Volume
  <2> QED
    BY <1>1, <2>1 DEF TargetPool
<1>2. CASE result = "none"
  <2>1. PICK g : /\ \A u \in S : g[u] \in Int
                 /\ TargetPool(history, NetShares(history), "none") = Sum(g, S)
    BY OpenPool
  <2>2. IsFiniteSet(S)
    BY UsersFinite
  <2>3. Sum(g, S) \in Int
    BY <2>1, <2>2, SumType
  <2> QED
    BY <1>2, <2>1, <2>3
<1> QED
  BY <1>1, <1>2

(* The values before the adjustment and the first rows that order it. *)
RawValues(history, result) ==
    Table([u \in RowUsers(history) |->
        PositionValue(NetShares(history)[u], LastProbability(history), result)])

FirstOf(history) == Table([u \in RowUsers(history) |-> FirstRow(history, u)])

LEMMA LastPriceType ==
    ASSUME NEW history \in Seq(Trade), history # <<>>, Priced(history)
    PROVE  /\ LastProbability(history).num \in Int /\ LastProbability(history).den \in Int
           /\ LastProbability(history).den > 0
<1>1. Len(history) \in 1..Len(history)
  BY TradeFields
<1> QED
  BY <1>1, PricesType DEF LastProbability

LEMMA RawValuesType ==
    ASSUME NEW history \in Seq(Trade), history # <<>>, Priced(history), NEW result \in Results
    PROVE  /\ DOMAIN RawValues(history, result) = RowUsers(history)
           /\ \A u \in RowUsers(history) :
                /\ RawValues(history, result)[u]
                     = PositionValue(NetShares(history)[u], LastProbability(history), result)
                /\ RawValues(history, result)[u] \in Int
           /\ \A u \in RowUsers(history) : FirstOf(history)[u] \in Int
           /\ \A u, v \in RowUsers(history) : u # v => FirstOf(history)[u] # FirstOf(history)[v]
<1> DEFINE S     == RowUsers(history)
           net   == NetShares(history)
           last  == LastProbability(history)
           raw   == RawValues(history, result)
           first == FirstOf(history)
<1>1. DOMAIN raw = S /\ \A u \in S : raw[u] = PositionValue(net[u], last, result)
  <2> HIDE DEF net, last
  <2> QED
    BY DEF RawValues, Table, net, last
<1>2. \A u \in S : raw[u] \in Int
  <2>1. last.num \in Int /\ last.den \in Int /\ last.den > 0
    BY LastPriceType
  <2>2. \A u \in S : net[u] \in [{"YES", "NO"} -> Nat]
    BY NetSharesType
  <2> HIDE DEF net, last, raw, S
  <2>3. \A u \in S : PositionValue(net[u], last, result) \in Int
    BY <2>1, <2>2, PositionValueType
  <2> QED
    BY <1>1, <2>3
<1>3. \A u \in S : first[u] = FirstRow(history, u)
  BY DEF FirstOf, Table
<1>4. \A u \in S : first[u] \in Int /\ history[first[u]].user = u
  <2> HIDE DEF first
  <2>1. \A u \in S : FirstRow(history, u) \in 1..Len(history) /\ history[FirstRow(history, u)].user = u
    BY FirstRows
  <2> QED
    BY <1>3, <2>1, TradeFields
<1>5. \A u, v \in S : u # v => first[u] # first[v]
  <2> HIDE DEF first, S
  <2> QED
    BY <1>4
<1> QED
  BY <1>1, <1>2, <1>4, <1>5

LEMMA ValuesOfHistory ==
    ASSUME NEW history \in Seq(Trade), history # <<>>, Priced(history), NEW result \in Results
    PROVE  /\ \A u \in RowUsers(history) : Valuations(history, result)[u] \in Int
           /\ \/ \A u \in RowUsers(history) : Valuations(history, result)[u] <= 0
              \/ Sum(Valuations(history, result), RowUsers(history))
                   = TargetPool(history, NetShares(history), result)
           /\ Sum(RawValues(history, result),
                  {u \in RowUsers(history) : RawValues(history, result)[u] > 0})
                <= TargetPool(history, NetShares(history), result) =>
                \A u \in RowUsers(history) :
                  RawValues(history, result)[u] <= Valuations(history, result)[u]
<1> DEFINE S      == RowUsers(history)
           raw    == RawValues(history, result)
           first  == FirstOf(history)
           target == TargetPool(history, NetShares(history), result)
<1>1. IsFiniteSet(S) /\ target \in Int
  BY UsersFinite, TargetPoolType
<1>2. /\ DOMAIN raw = S
      /\ \A u \in S : raw[u] \in Int /\ first[u] \in Int
      /\ \A u, v \in S : u # v => first[u] # first[v]
  BY RawValuesType
<1>3. Valuations(history, result) = AdjustToTarget(raw, target, first)
  BY DEF Valuations, ValuationsFrom, RawValues, FirstOf
<1> HIDE DEF raw, first, target, S
<1>4. /\ \A u \in S : AdjustToTarget(raw, target, first)[u] \in Int
      /\ \/ \A u \in S : AdjustToTarget(raw, target, first)[u] <= 0
         \/ Sum(AdjustToTarget(raw, target, first), S) = target
      /\ Sum(raw, {u \in S : raw[u] > 0}) <= target =>
           \A u \in S : raw[u] <= AdjustToTarget(raw, target, first)[u]
  BY <1>1, <1>2, AdjustedValues
<1> QED
  BY <1>3, <1>4 DEF S, target, raw

-----------------------------------------------------------------------------
(* The replay of the lots. *)

LotState == [lots : Seq(Int), end : Nat]

LEMMA LotFields ==
    ASSUME NEW s \in LotState
    PROVE  s.lots \in Seq(Int) /\ s.end \in Nat /\ Len(s.lots) \in Nat
  BY DEF LotState

LEMMA ConsumeType ==
    ASSUME NEW lots \in Seq(Int), NEW end \in Int, NEW shares \in Int
    PROVE  ConsumeLots(lots, end, shares) \in Seq(Int) /\ Len(ConsumeLots(lots, end, shares)) = Len(lots)
<1>1. ASSUME NEW k \in 1..Len(lots)
      PROVE  NonNeg(lots[k] - LeftToConsume(lots, k, shares)) \in Int
  <2>1. k - 1 \in Nat /\ lots[k] \in Int /\ \A j \in 1..(k - 1) : lots[j] \in Int
    OBVIOUS
  <2>2. PrefixSum(lots, k - 1) \in Int
    BY <2>1, PrefixSumType
  <2>3. LeftToConsume(lots, k, shares) \in Int
    BY <2>2, AbsType DEF LeftToConsume, PrefixSum
  <2>4. lots[k] - LeftToConsume(lots, k, shares) \in Int
    BY <2>1, <2>3
  <2> QED
    BY <2>4 DEF NonNeg
<1>2. \A k \in 1..Len(lots) :
        (IF k > end THEN lots[k] ELSE NonNeg(lots[k] - LeftToConsume(lots, k, shares))) \in Int
  BY <1>1
<1>3. Len(lots) \in Nat
  OBVIOUS
<1> QED
  BY <1>2, <1>3 DEF ConsumeLots

LEMMA ReplayType ==
    ASSUME NEW s \in LotState, NEW row \in Trade, NEW payout \in Int, NEW u, NEW o
    PROVE  ReplayRow(s, row, payout, u, o) \in LotState
<1>1. s.lots \in Seq(Int) /\ Len(s.lots) \in Nat /\ s.end \in Nat /\ row.amount \in Int
  BY LotFields DEF Trade
<1>2. [s EXCEPT !.end = Len(s.lots)] \in LotState
  BY <1>1 DEF LotState
<1>3. [s EXCEPT !.lots = Append(s.lots, payout)] \in LotState
  <2>1. Append(s.lots, payout) \in Seq(Int)
    BY <1>1
  <2> QED
    BY <2>1 DEF LotState
<1>4. [s EXCEPT !.lots = ConsumeLots(s.lots, s.end, -row.amount)] \in LotState
  <2>1. ConsumeLots(s.lots, s.end, -row.amount) \in Seq(Int)
    BY <1>1, ConsumeType
  <2> QED
    BY <2>1 DEF LotState
<1> QED
  BY <1>2, <1>3, <1>4 DEF ReplayRow

NoLots == [lots |-> <<>>, end |-> 0]

(* The states of the replay: c[k] is the one after row k. *)
Replays(c, history, payouts, u, o) ==
    /\ c \in [0..Len(history) -> LotState]
    /\ c[0] = NoLots
    /\ \A k \in 1..Len(history) : c[k] = ReplayRow(c[k - 1], history[k], payouts[k], u, o)

LEMMA ReplaysExist ==
    ASSUME NEW history \in Seq(Trade), NEW payouts,
           \A i \in 1..Len(history) : payouts[i] \in Int, NEW u, NEW o
    PROVE  \E c : /\ Replays(c, history, payouts, u, o)
                  /\ UnlockedFrom(history, payouts, u, o) = Unlocked(c[Len(history)])
<1> DEFINE n   == Len(history)
           S   == DOMAIN [i \in 1..n |-> i]
           seq == [i \in 1..n |-> i]
           F   == [x \in LotState \X (1..n) |->
                    ReplayRow(x[1], history[seq[x[2]]], payouts[seq[x[2]]], u, o)]
           c   == CHOOSE c : c = [s \in SUBSET S |-> IF s = {} THEN NoLots
                                    ELSE ReplayRow(c[s \ {Max(s)}], history[seq[Max(s)]],
                                                   payouts[seq[Max(s)]], u, o)]
<1>0. S = 1..n /\ n \in Nat /\ \A i \in 1..n : seq[i] = i
  BY TradeFields
<1>1. /\ F \in [LotState \X (1..n) -> LotState]
      /\ \A s \in LotState, i \in 1..n : F[<<s, i>>] = ReplayRow(s, history[seq[i]], payouts[seq[i]], u, o)
  <2>1. \A i \in 1..n : history[i] \in Trade /\ payouts[i] \in Int
    OBVIOUS
  <2>2. \A s \in LotState, i \in 1..n :
          ReplayRow(s, history[seq[i]], payouts[seq[i]], u, o) \in LotState
    BY <1>0, <2>1, ReplayType
  <2> QED
    BY <2>2
<1>2. UnlockedFrom(history, payouts, u, o) = Unlocked(c[S])
  BY DEF UnlockedFrom, FoldLeft, MapThenFoldSet, NoLots
<1> HIDE DEF F, seq, S
<1>3. NoLots \in LotState
  BY DEF NoLots, LotState
<1>4. PICK f \in [SUBSET (1..n) -> LotState] : Folds(f, F, NoLots, n)
  BY <1>0, <1>1, <1>3, FoldsExist
<1>5. f = [s \in SUBSET S |-> IF s = {} THEN NoLots
             ELSE ReplayRow(f[s \ {Max(s)}], history[seq[Max(s)]], payouts[seq[Max(s)]], u, o)]
  <2>1. ASSUME NEW s \in SUBSET (1..n), s # {}
        PROVE  f[s] = ReplayRow(f[s \ {Max(s)}], history[seq[Max(s)]], payouts[seq[Max(s)]], u, o)
    <3>1. Max(s) \in 1..n /\ f[s \ {Max(s)}] \in LotState
      BY <1>0, <2>1, Greatest
    <3> QED
      BY <1>1, <1>4, <2>1, <3>1 DEF Folds
  <2> QED
    BY <1>0, <1>4, <2>1 DEF Folds
<1>6. c = [s \in SUBSET S |-> IF s = {} THEN NoLots
             ELSE ReplayRow(c[s \ {Max(s)}], history[seq[Max(s)]], payouts[seq[Max(s)]], u, o)]
  BY <1>5
<1> HIDE DEF c
<1> DEFINE d == [k \in 0..n |-> c[1..k]]
<1>7. d[0] = NoLots
  <2>1. 1..0 = {} /\ {} \in SUBSET S /\ 0 \in 0..n
    BY <1>0
  <2> QED
    BY <1>6, <2>1
<1>8. ASSUME NEW k \in 1..n
      PROVE  d[k] = ReplayRow(d[k - 1], history[k], payouts[k], u, o)
  <2>1. k \in Nat /\ k # 0 /\ k \in 0..n /\ k - 1 \in 0..n /\ 1..k \in SUBSET S /\ k \in 1..k
    BY <1>0
  <2>2. Max(1..k) = k /\ (1..k) \ {k} = 1..(k - 1) /\ 1..k # {}
    BY <2>1, GreatestUpTo
  <2>3. c[1..k] = ReplayRow(c[1..(k - 1)], history[seq[k]], payouts[seq[k]], u, o)
    BY <1>6, <2>1, <2>2
  <2> QED
    BY <1>0, <2>1, <2>3
<1>9. d \in [0..n -> LotState]
  <2> DEFINE Good == {k \in 0..n : d[k] \in LotState}
  <2>1. 0 \in Good
    BY <1>0, <1>3, <1>7
  <2>2. ASSUME NEW k \in 0..n, k # n, k \in Good
        PROVE  k + 1 \in Good
    <3>1. k + 1 \in 1..n /\ (k + 1) - 1 = k /\ k + 1 \in 0..n /\ d[k] \in LotState
      BY <1>0, <2>2
    <3> HIDE DEF d
    <3>2. d[k + 1] = ReplayRow(d[k], history[k + 1], payouts[k + 1], u, o)
      BY <1>8, <3>1
    <3>3. history[k + 1] \in Trade /\ payouts[k + 1] \in Int
      BY <3>1
    <3>4. d[k + 1] \in LotState
      BY <3>1, <3>2, <3>3, ReplayType
    <3> QED
      BY <3>1, <3>4
  <2>3. ASSUME NEW m \in 0..n PROVE m \in Good
    <3> DEFINE Upto == {k \in 0..n : k <= m => k \in Good}
    <3>1. m \in Nat /\ 0 \in Upto
      BY <1>0, <2>1
    <3>2. ASSUME NEW k \in 0..m, k # m, k \in Upto PROVE k + 1 \in Upto
      <4>1. k \in 0..n /\ k # n /\ k \in Good
        BY <1>0, <3>2
      <4>2. k + 1 \in Good
        BY <2>2, <4>1
      <4> QED
        BY <4>2
    <3> HIDE DEF Upto
    <3>3. m \in Upto
      BY <3>1, <3>2, UpTo
    <3> QED
      BY <3>1, <3>3 DEF Upto
  <2> QED
    BY <2>3
<1>10. Replays(d, history, payouts, u, o)
  BY <1>7, <1>8, <1>9 DEF Replays
<1>11. d[n] = c[S]
  BY <1>0
<1> QED
  BY <1>2, <1>10, <1>11

(* Who bought which outcome, and after whom, in the rows before n. *)
Bought(history, u, o, j)  == IsBuy(history[j]) /\ history[j].user = u /\ history[j].outcome = o
Followed(history, u, j, k) == j < k /\ IsBuy(history[k]) /\ history[k].user # u

(* A lot stands for a purchase; an unlocked lot for one that somebody else's    *)
(* purchase followed.                                                        *)
LotsStandForBuys(s, history, u, o, n) ==
    /\ s.end <= Len(s.lots)
    /\ s.lots # <<>> => \E j \in 1..n : Bought(history, u, o, j)
    /\ s.end > 0 => \E j, k \in 1..n : Bought(history, u, o, j) /\ Followed(history, u, j, k)

LEMMA ReplayKeeps ==
    ASSUME NEW history \in Seq(Trade), NEW n \in 1..Len(history), NEW u, NEW o, NEW payout \in Int,
           NEW s \in LotState, LotsStandForBuys(s, history, u, o, n - 1)
    PROVE  LotsStandForBuys(ReplayRow(s, history[n], payout, u, o), history, u, o, n)
<1> DEFINE row == history[n]
           new == ReplayRow(s, row, payout, u, o)
<1>0. n \in Nat /\ n \in 1..n /\ 1..(n - 1) \subseteq 1..n /\ row.amount \in Int /\ row \in Trade
  BY TradeFields
<1>1. s.lots \in Seq(Int) /\ s.end \in Nat /\ Len(s.lots) \in Nat /\ s.end <= Len(s.lots)
  BY LotFields DEF LotsStandForBuys
<1>2. s.lots # <<>> => \E j \in 1..(n - 1) : Bought(history, u, o, j)
  BY DEF LotsStandForBuys
<1>3. s.end > 0 => \E j, k \in 1..n : Bought(history, u, o, j) /\ Followed(history, u, j, k)
  BY <1>0 DEF LotsStandForBuys
<1>4. s.lots # <<>> => \E j \in 1..n : Bought(history, u, o, j)
  BY <1>0, <1>2
<1>5. CASE new = s
  BY <1>1, <1>3, <1>4, <1>5 DEF LotsStandForBuys
<1>6. CASE row.user # u /\ row.amount > 0
  <2>1. new = [s EXCEPT !.end = Len(s.lots)]
    BY <1>6 DEF ReplayRow
  <2>2. new.lots = s.lots /\ new.end = Len(s.lots)
    BY <2>1 DEF LotState
  <2>3. ASSUME Len(s.lots) > 0
        PROVE  \E j, k \in 1..n : Bought(history, u, o, j) /\ Followed(history, u, j, k)
    <3>1. s.lots # <<>>
      BY <2>3
    <3>2. PICK j \in 1..(n - 1) : Bought(history, u, o, j)
      BY <1>2, <3>1
    <3>3. Followed(history, u, j, n) /\ j \in 1..n
      BY <1>0, <1>6 DEF Followed, IsBuy
    <3> QED
      BY <1>0, <3>2, <3>3
  <2> HIDE DEF new
  <2>9. LotsStandForBuys(new, history, u, o, n)
    BY <1>1, <1>4, <2>2, <2>3 DEF LotsStandForBuys
  <2> QED
    BY <2>9 DEF new
<1>7. CASE row.user = u /\ row.outcome = o /\ row.amount > 0 /\ payout > 0
  <2>1. new = [s EXCEPT !.lots = Append(s.lots, payout)]
    BY <1>7 DEF ReplayRow
  <2>2. new.lots = Append(s.lots, payout) /\ new.end = s.end
    BY <2>1 DEF LotState
  <2>3. Len(Append(s.lots, payout)) = Len(s.lots) + 1
    BY <1>1
  <2>4. Bought(history, u, o, n)
    BY <1>7 DEF Bought, IsBuy
  <2> HIDE DEF new
  <2>9. LotsStandForBuys(new, history, u, o, n)
    BY <1>0, <1>1, <1>3, <2>2, <2>3, <2>4 DEF LotsStandForBuys
  <2> QED
    BY <2>9 DEF new
<1>8. CASE row.user = u /\ row.outcome = o /\ row.amount < 0
  <2> DEFINE left == ConsumeLots(s.lots, s.end, -row.amount)
  <2>1. new = [s EXCEPT !.lots = left]
    BY <1>0, <1>8 DEF ReplayRow
  <2>2. left \in Seq(Int) /\ Len(left) = Len(s.lots)
    BY <1>0, <1>1, ConsumeType
  <2> HIDE DEF left
  <2>3. new.lots = left /\ new.end = s.end
    BY <2>1 DEF LotState
  <2>4. left # <<>> => s.lots # <<>>
    BY <1>1, <2>2
  <2> HIDE DEF new
  <2>9. LotsStandForBuys(new, history, u, o, n)
    BY <1>1, <1>3, <1>4, <2>2, <2>3, <2>4 DEF LotsStandForBuys
  <2> QED
    BY <2>9 DEF new
<1>9. new = s \/ (row.user # u /\ row.amount > 0)
        \/ (row.user = u /\ row.outcome = o /\ row.amount > 0 /\ payout > 0)
        \/ (row.user = u /\ row.outcome = o /\ row.amount < 0)
  BY DEF ReplayRow
<1> QED
  BY <1>5, <1>6, <1>7, <1>8, <1>9

(* What is unlocked is an integer, and is nothing unless the user bought that   *)
(* outcome and somebody else bought after that.                              *)
LEMMA UnlockedLots ==
    ASSUME NEW history \in Seq(Trade), NEW payouts,
           \A i \in 1..Len(history) : payouts[i] \in Int, NEW u, NEW o
    PROVE  /\ UnlockedFrom(history, payouts, u, o) \in Int
           /\ UnlockedFrom(history, payouts, u, o) > 0 =>
                \E j, k \in 1..Len(history) : Bought(history, u, o, j) /\ Followed(history, u, j, k)
<1> DEFINE n == Len(history)
<1>0. n \in Nat
  BY TradeFields
<1>1. PICK c : Replays(c, history, payouts, u, o)
               /\ UnlockedFrom(history, payouts, u, o) = Unlocked(c[n])
  BY ReplaysExist
<1>2. /\ c \in [0..n -> LotState] /\ c[0] = NoLots
      /\ \A k \in 1..n : c[k] = ReplayRow(c[k - 1], history[k], payouts[k], u, o)
  BY <1>1 DEF Replays
<1> DEFINE Good == {k \in 0..n : LotsStandForBuys(c[k], history, u, o, k)}
<1>3. 0 \in Good
  <2>1. LotsStandForBuys(NoLots, history, u, o, 0)
    BY DEF LotsStandForBuys, NoLots
  <2> QED
    BY <1>0, <1>2, <2>1
<1>4. ASSUME NEW k \in 0..n, k # n, k \in Good
      PROVE  k + 1 \in Good
  <2>1. /\ k + 1 \in 1..n /\ (k + 1) - 1 = k /\ k + 1 \in 0..n /\ c[k] \in LotState
        /\ payouts[k + 1] \in Int /\ LotsStandForBuys(c[k], history, u, o, k)
    BY <1>0, <1>2, <1>4
  <2>2. c[k + 1] = ReplayRow(c[k], history[k + 1], payouts[k + 1], u, o)
    BY <1>2, <2>1
  <2>3. LotsStandForBuys(c[k + 1], history, u, o, k + 1)
    BY <2>1, <2>2, ReplayKeeps
  <2> QED
    BY <2>1, <2>3
<1> HIDE DEF Good
<1>5. n \in Good
  BY <1>0, <1>3, <1>4, UpTo
<1> DEFINE s == c[n]
<1>6. LotsStandForBuys(s, history, u, o, n) /\ s \in LotState
  BY <1>0, <1>2, <1>5 DEF Good
<1> HIDE DEF s, n
<1>7. s.lots \in Seq(Int) /\ s.end \in Nat /\ s.end <= Len(s.lots)
  BY <1>6, LotFields DEF LotsStandForBuys
<1>8. Unlocked(s) = PrefixSum(s.lots, s.end)
  BY DEF Unlocked, PrefixSum
<1>9. PrefixSum(s.lots, s.end) \in Int
  <2>1. \A i \in 1..s.end : s.lots[i] \in Int
    BY <1>7
  <2> DEFINE g == s.lots
             e == s.end
  <2>2. e \in Nat /\ \A i \in 1..e : g[i] \in Int
    BY <1>7, <2>1
  <2> HIDE DEF g, e
  <2>3. PrefixSum(g, e) \in Int
    BY <2>2, PrefixSumType
  <2> QED
    BY <2>3 DEF g, e
<1>10. s.end = 0 => PrefixSum(s.lots, s.end) = 0
  BY PrefixSumNone
<1> QED
  BY <1>1, <1>6, <1>7, <1>8, <1>9, <1>10 DEF LotsStandForBuys, n, s

-----------------------------------------------------------------------------
(* What a sale may take. *)

LEMMA LesserOfTwo ==
    ASSUME NEW a \in Int, NEW b \in Int
    PROVE  Min({a, b}) = IF a <= b THEN a ELSE b
<1>1. \E x \in {a, b} : \A y \in {a, b} : x <= y
  OBVIOUS
<1>2. Min({a, b}) \in {a, b} /\ \A y \in {a, b} : Min({a, b}) <= y
  BY <1>1 DEF Min
<1> QED
  BY <1>2

LEMMA PositionType ==
    ASSUME NEW history \in Seq(Trade), history # <<>>, Priced(history), NEW u, NEW o \in Outcomes
    PROVE  /\ Position(history, u, "none")[o] \in Int
           /\ Position(history, u, "none").value \in Int
           /\ Position(history, u, "none")[o] > 0 =>
                /\ u \in RowUsers(history)
                /\ Position(history, u, "none").value = Valuations(history, "none")[u]
<1>1. CASE u \notin RowUsers(history)
  <2>1. Position(history, u, "none") = [YES |-> 0, NO |-> 0, value |-> 0]
    BY <1>1 DEF Position, PositionFrom
  <2> QED
    BY <2>1 DEF Outcomes
<1>2. CASE u \in RowUsers(history)
  <2> DEFINE v == Valuations(history, "none")[u]
             net == NetShares(history)
  <2>1. v \in Int
    BY <1>2, ValuesOfHistory DEF Results
  <2>2. net[u]["YES"] \in Int /\ net[u]["NO"] \in Int
    <3>1. net[u] \in [{"YES", "NO"} -> Nat]
      BY <1>2, NetSharesType
    <3> QED
      BY <3>1
  <2>3. Position(history, u, "none") = [YES |-> net[u]["YES"], NO |-> net[u]["NO"], value |-> v]
    BY <1>2 DEF Position, PositionFrom, Valuations
  <2> HIDE DEF v, net
  <2>4. /\ Position(history, u, "none")[o] \in Int
        /\ Position(history, u, "none").value = v
    BY <2>2, <2>3 DEF Outcomes
  <2> QED
    BY <1>2, <2>1, <2>4 DEF v
<1> QED
  BY <1>1, <1>2

LEMMA SellableBounds ==
    ASSUME NEW history \in Seq(Trade), history # <<>>, Priced(history), NEW u, NEW o \in Outcomes
    PROVE  /\ SellablePosition(history, u, o) \in [shares : Int, value : Int]
           /\ SellablePosition(history, u, o).shares > 0 =>
                /\ SellablePosition(history, u, o).value <= Valuations(history, "none")[u]
                /\ \E j, k \in 1..Len(history) : Bought(history, u, o, j) /\ Followed(history, u, j, k)
<1> DEFINE payouts  == FinalPayouts(history)
           held     == Position(history, u, "none")[o]
           value    == Position(history, u, "none").value
           unlocked == UnlockedFrom(history, payouts, u, o)
           s        == SellablePosition(history, u, o)
<1>1. s = SellableFrom(held, value, unlocked)
  BY DEF SellablePosition, SellableGiven, SellableOf, Position, NetShares
<1>2. held \in Int /\ value \in Int
  BY PositionType
<1>3. held > 0 => value = Valuations(history, "none")[u]
  BY PositionType
<1>4. /\ unlocked \in Int
      /\ unlocked > 0 =>
           \E j, k \in 1..Len(history) : Bought(history, u, o, j) /\ Followed(history, u, j, k)
  <2>1. \A i \in 1..Len(history) : payouts[i] \in Int
    BY FinalPayoutsType
  <2> HIDE DEF payouts
  <2> QED
    BY <2>1, UnlockedLots
<1> HIDE DEF payouts, held, value, unlocked, s
<1>5. CASE held <= 0 \/ value <= 0 \/ unlocked <= 0
  <2>1. s = [shares |-> 0, value |-> 0]
    BY <1>1, <1>5 DEF SellableFrom
  <2> QED
    BY <2>1 DEF s
<1>6. CASE ~(held <= 0 \/ value <= 0 \/ unlocked <= 0)
  <2>1. held > 0 /\ value > 0 /\ unlocked > 0
    BY <1>2, <1>4, <1>6
  <2> DEFINE shares == Min({unlocked, held})
             worth  == shares * (value \div held)
  <2>2. shares \in Int
    BY <1>2, <1>4, LesserOfTwo
  <2> HIDE DEF shares
  <2>3. worth \in Int
    <3>1. value \div held \in Int
      BY <1>2, <2>1, DivType
    <3> QED
      BY <2>2, <3>1, TimesType
  <2>4. s = [shares |-> shares, value |-> Min({worth, value})]
    BY <1>1, <1>6 DEF SellableFrom, shares
  <2> HIDE DEF worth
  <2>5. Min({worth, value}) \in Int /\ Min({worth, value}) <= value
    BY <1>2, <2>3, LesserOfTwo
  <2>6. s \in [shares : Int, value : Int] /\ s.value <= value
    BY <2>2, <2>4, <2>5
  <2> QED
    BY <1>3, <1>4, <2>1, <2>6 DEF s
<1> QED
  BY <1>5, <1>6

(* The rules the history sells by are those of SaleMath. *)
LEMMA SaleRulesAgree ==
    /\ \A held, sellable, requested, maxDust :
         SM!ExecutableQuote(held, sellable, requested, maxDust)
           = ExecutableQuote(held, sellable, requested, maxDust)
    /\ \A quote : SM!NetProceeds(quote) = NetProceeds(quote)
<1>1. SM!NoQuote = NoQuote
  BY DEF SM!NoQuote, NoQuote
<1>2. \A a, b : SM!NormalDust(a, b) = NormalDust(a, b) /\ SM!RawDust(a, b) = RawDust(a, b)
  BY DEF SM!NormalDust, NormalDust, SM!RawDust, RawDust
<1>3. \A value, owned, asked, dust : SM!Quote(value, owned, asked, dust) = Quote(value, owned, asked, dust)
  BY <1>1, <1>2 DEF SM!Quote, Quote
<1>4. \A quote, shares, value : SM!WithinInventory(quote, shares, value) = WithinInventory(quote, shares, value)
  BY DEF SM!WithinInventory, WithinInventory
<1>5. \A quote : SM!NetProceeds(quote) = NetProceeds(quote)
  BY DEF SM!NetProceeds, NetProceeds
<1>6. \A held, sellable, requested, maxDust :
        SM!ExecutableQuote(held, sellable, requested, maxDust)
          = ExecutableQuote(held, sellable, requested, maxDust)
  BY <1>1, <1>3, <1>4 DEF SM!ExecutableQuote, ExecutableQuote
<1> QED
  BY <1>5, <1>6

LEMMA QuoteBounds ==
    ASSUME NEW history \in Seq(Trade), history # <<>>, Priced(history),
           NEW u, NEW o \in Outcomes, NEW c \in SellRequests
    PROVE  LET quote == QuoteFor(history, u, o, c)
           IN /\ quote.shares \in Nat /\ SM!NetProceeds(quote) \in Int
              /\ quote.shares > 0 =>
                   /\ SM!NetProceeds(quote) <= Valuations(history, "none")[u]
                   /\ \E j, k \in 1..Len(history) : Bought(history, u, o, j) /\ Followed(history, u, j, k)
<1> DEFINE held     == Position(history, u, "none")[o]
           sellable == SellablePosition(history, u, o)
           quote    == QuoteFor(history, u, o, c)
<1>1. quote = ExecutableQuote(held, sellable, c, MaxDustPerSale)
  BY SaleRulesAgree DEF QuoteFor
<1>2. held \in Int
  BY PositionType
<1>3. /\ sellable \in [shares : Int, value : Int]
      /\ sellable.shares > 0 =>
           /\ sellable.value <= Valuations(history, "none")[u]
           /\ \E j, k \in 1..Len(history) : Bought(history, u, o, j) /\ Followed(history, u, j, k)
  BY SellableBounds
<1>4. c \in Nat /\ MaxDustPerSale \in Int
  BY HistoryAssumption
<1> HIDE DEF held, sellable, quote
<1>5. /\ quote \in QuoteType
      /\ quote.shares > 0 => /\ quote.shares <= sellable.shares
                             /\ quote.value <= sellable.value
  BY <1>1, <1>2, <1>3, <1>4, ExecutableQuoteBounds
<1>6. SM!NetProceeds(quote) \in Nat /\ SM!NetProceeds(quote) <= quote.value
  BY <1>5, NetProceedsBounds, SaleRulesAgree
<1>7. quote.shares \in Nat /\ quote.value \in Nat
  BY <1>5 DEF QuoteType
<1>8. Valuations(history, "none")[u] \in Int \/ quote.shares = 0
  <2>1. CASE u \in RowUsers(history)
    BY <2>1, ValuesOfHistory DEF Results
  <2>2. CASE u \notin RowUsers(history)
    <3>1. ~(held > 0)
      BY <2>2, PositionType DEF held
    <3>2. quote.shares > 0 => quote.shares <= held
      BY <1>1, <1>2, <1>3, <1>4, ExecutableQuoteBounds
    <3> QED
      BY <1>2, <1>7, <3>1, <3>2
  <2> QED
    BY <2>1, <2>2
<1>9. quote.shares > 0 => SM!NetProceeds(quote) <= Valuations(history, "none")[u]
  BY <1>3, <1>5, <1>6, <1>7, <1>8
<1>10. quote.shares > 0 =>
         \E j, k \in 1..Len(history) : Bought(history, u, o, j) /\ Followed(history, u, j, k)
  BY <1>3, <1>5, <1>7
<1> QED
  BY <1>6, <1>7, <1>9, <1>10 DEF quote

-----------------------------------------------------------------------------
(* Before the first sale. *)

(* A row appended leaves the rows before it as they were. *)
LEMMA Appended ==
    ASSUME NEW history \in Seq(Trade), NEW row
    PROVE  /\ Len(Append(history, row)) = Len(history) + 1
           /\ Append(history, row)[Len(history) + 1] = row
           /\ \A i \in 1..Len(history) : Append(history, row)[i] = history[i]
           /\ DOMAIN Append(history, row) = 1..(Len(history) + 1)
           /\ Len(history) \in Nat
  OBVIOUS

LEMMA SumsAgree ==
    ASSUME NEW n \in Nat, NEW g, NEW h, \A i \in 1..n : g[i] \in Int /\ h[i] = g[i],
           NEW m \in Nat, m <= n, NEW s, Sums(s, g, n), NEW t, Sums(t, h, m)
    PROVE  s[m] = t[m]
<1> DEFINE Good == {k \in 0..m : s[k] = t[k]}
<1>1. /\ \A i \in 0..n : s[i] = IF i = 0 THEN 0 ELSE s[i - 1] + g[i]
      /\ \A i \in 0..m : t[i] = IF i = 0 THEN 0 ELSE t[i - 1] + h[i]
  BY DEF Sums
<1>2. 0 \in Good
  BY <1>1
<1>3. ASSUME NEW k \in 0..m, k # m, k \in Good PROVE k + 1 \in Good
  <2>1. k + 1 \in 0..m /\ k + 1 \in 0..n /\ k + 1 \in 1..n /\ (k + 1) - 1 = k /\ k + 1 # 0
    BY <1>3
  <2> QED
    BY <1>1, <1>3, <2>1
<1> HIDE DEF Good
<1>4. m \in Good
  BY <1>2, <1>3, UpTo
<1> QED
  BY <1>4 DEF Good

LEMMA PrefixSumStep ==
    ASSUME NEW n \in Nat, NEW g, \A i \in 1..(n + 1) : g[i] \in Int
    PROVE  PrefixSum(g, n + 1) = PrefixSum(g, n) + g[n + 1]
<1>1. n + 1 \in Nat /\ \A i \in 1..n : g[i] \in Int /\ g[i] = g[i]
  OBVIOUS
<1>2. PICK s : Sums(s, g, n + 1) /\ PrefixSum(g, n + 1) = s[n + 1]
  BY <1>1, PrefixSums
<1>3. PICK t : Sums(t, g, n) /\ PrefixSum(g, n) = t[n]
  BY <1>1, PrefixSums
<1>4. s[n] = t[n]
  <2>1. n <= n + 1 /\ \A i \in 1..(n + 1) : g[i] \in Int /\ g[i] = g[i]
    OBVIOUS
  <2> QED
    BY <1>1, <1>2, <1>3, <2>1, SumsAgree
<1>5. s[n + 1] = s[n] + g[n + 1]
  BY <1>2 DEF Sums
<1> QED
  BY <1>2, <1>3, <1>4, <1>5

LEMMA PrefixSumSame ==
    ASSUME NEW n \in Nat, NEW g, NEW h, \A i \in 1..n : g[i] \in Int /\ h[i] = g[i]
    PROVE  PrefixSum(g, n) = PrefixSum(h, n)
<1>1. PICK s : Sums(s, g, n) /\ PrefixSum(g, n) = s[n]
  BY PrefixSums
<1>2. PICK t : Sums(t, h, n) /\ PrefixSum(h, n) = t[n]
  BY PrefixSums
<1> QED
  BY <1>1, <1>2, SumsAgree

(* The stake and the YES stake after i rows as sums of tables. *)
Amounts(history)    == [i \in 1..Len(history) |-> history[i].amount]
YesAmounts(history) ==
    [i \in 1..Len(history) |-> IF history[i].outcome = "YES" THEN history[i].amount ELSE 0]

LEMMA StakesAreSums ==
    ASSUME NEW history \in Seq(Trade), NEW n \in 0..Len(history)
    PROVE  /\ Stake(history, n) = PrefixSum(Amounts(history), n)
           /\ YesStake(history, n) = PrefixSum(YesAmounts(history), n)
           /\ \A i \in 1..n : Amounts(history)[i] \in Int /\ YesAmounts(history)[i] \in Int
<1> DEFINE g == Amounts(history)
           h == YesAmounts(history)
<1>1. /\ \A i \in 1..n : g[i] \in Int /\ h[i] \in Int
      /\ \A i \in 0..n : i # 0 =>
           /\ g[i] = history[i].amount
           /\ h[i] = IF history[i].outcome = "YES" THEN history[i].amount ELSE 0
  BY TradeFields DEF Amounts, YesAmounts
<1> HIDE DEF g, h
<1>2. PrefixSum(g, n) = Stake(history, n)
  BY <1>1, Zenon DEF PrefixSum, SumUpTo, Stake
<1>3. PrefixSum(h, n) = YesStake(history, n)
  BY <1>1, Zenon DEF PrefixSum, SumUpTo, YesStake
<1> QED
  BY <1>1, <1>2, <1>3 DEF g, h

LEMMA VolumeGrows ==
    ASSUME NEW history \in Seq(Trade), NEW row \in Trade
    PROVE  Volume(Append(history, row)) = Volume(history) + row.amount
<1> DEFINE n    == Len(history)
           more == Append(history, row)
<1>1. n \in Nat /\ more \in Seq(Trade) /\ Len(more) = n + 1 /\ n \in 0..n /\ n + 1 \in 0..(n + 1)
  BY TradeFields
<1>2. Volume(more) = PrefixSum(Amounts(more), n + 1) /\ \A i \in 1..(n + 1) : Amounts(more)[i] \in Int
  BY <1>1, StakesAreSums DEF Volume
<1>3. Volume(history) = PrefixSum(Amounts(history), n) /\ \A i \in 1..n : Amounts(history)[i] \in Int
  BY <1>1, StakesAreSums DEF Volume
<1>4. Amounts(more)[n + 1] = row.amount /\ \A i \in 1..n : Amounts(more)[i] = Amounts(history)[i]
  BY <1>1, Appended DEF Amounts
<1> HIDE DEF n, more
<1>5. PrefixSum(Amounts(more), n + 1) = PrefixSum(Amounts(more), n) + Amounts(more)[n + 1]
  BY <1>1, <1>2, PrefixSumStep
<1>6. PrefixSum(Amounts(history), n) = PrefixSum(Amounts(more), n)
  BY <1>1, <1>3, <1>4, PrefixSumSame
<1> QED
  BY <1>2, <1>3, <1>4, <1>5, <1>6 DEF more

(* Buys stake on YES part of what they stake. *)
LEMMA StakesOfBuys ==
    ASSUME NEW history \in Seq(Trade), \A i \in 1..Len(history) : IsBuy(history[i])
    PROVE  LET n == Len(history) IN 0 <= YesStake(history, n) /\ YesStake(history, n) <= Stake(history, n)
<1> DEFINE n == Len(history)
           g == Amounts(history)
           h == YesAmounts(history)
           Good == {k \in 0..n : 0 <= PrefixSum(h, k) /\ PrefixSum(h, k) <= PrefixSum(g, k)}
<1>1. n \in Nat /\ n \in 0..n
  BY TradeFields
<1>2. \A i \in 1..n : g[i] \in Int /\ h[i] \in Int /\ 0 <= h[i] /\ h[i] <= g[i]
  BY TradeFields DEF Amounts, YesAmounts, IsBuy
<1>3. Stake(history, n) = PrefixSum(g, n) /\ YesStake(history, n) = PrefixSum(h, n)
  BY <1>1, StakesAreSums
<1> HIDE DEF n, g, h
<1>4. 0 \in Good
  BY <1>1, PrefixSumNone
<1>5. ASSUME NEW k \in 0..n, k # n, k \in Good PROVE k + 1 \in Good
  <2>1. /\ k \in Nat /\ k + 1 \in 1..n /\ k + 1 \in 0..n
        /\ \A i \in 1..(k + 1) : g[i] \in Int /\ h[i] \in Int
        /\ \A i \in 1..k : g[i] \in Int /\ h[i] \in Int
    BY <1>1, <1>2, <1>5
  <2>2. /\ PrefixSum(g, k + 1) = PrefixSum(g, k) + g[k + 1]
        /\ PrefixSum(h, k + 1) = PrefixSum(h, k) + h[k + 1]
    BY <2>1, PrefixSumStep
  <2>3. PrefixSum(g, k) \in Int /\ PrefixSum(h, k) \in Int
    BY <2>1, PrefixSumType
  <2>4. 0 <= PrefixSum(h, k) /\ PrefixSum(h, k) <= PrefixSum(g, k)
    BY <1>5
  <2> HIDE DEF Good
  <2>5. 0 <= PrefixSum(h, k + 1) /\ PrefixSum(h, k + 1) <= PrefixSum(g, k + 1)
    BY <1>2, <2>1, <2>2, <2>3, <2>4
  <2> QED
    BY <2>1, <2>5 DEF Good
<1> HIDE DEF Good
<1>6. n \in Good
  BY <1>1, <1>4, <1>5, UpTo
<1> QED
  BY <1>3, <1>6 DEF Good, n

LEMMA SumMonotone ==
    ASSUME NEW S, IsFiniteSet(S), NEW g, NEW h, \A x \in S : g[x] \in Int /\ h[x] \in Int /\ g[x] <= h[x]
    PROVE  Sum(g, S) <= Sum(h, S)
<1> DEFINE T == {s \in SUBSET S : ~(Sum(g, s) <= Sum(h, s))}
<1>1. SUFFICES ASSUME T # {} PROVE FALSE
  OBVIOUS
<1>2. PICK s \in T : \A x \in s : s \ {x} \notin T
  <2>1. T \subseteq SUBSET S
    OBVIOUS
  <2> HIDE DEF T
  <2> QED
    BY <1>1, <2>1, LeastSet
<1>3. s \in SUBSET S /\ ~(Sum(g, s) <= Sum(h, s))
  OBVIOUS
<1>4. s # {}
  BY <1>3, SumEmpty
<1>5. PICK x \in s : TRUE
  BY <1>4
<1> DEFINE t == s \ {x}
<1>6. t \in SUBSET S /\ Sum(g, t) <= Sum(h, t) /\ x \in S
  <2>1. t \in SUBSET S /\ t \notin T /\ x \in S
    BY <1>2, <1>3
  <2> HIDE DEF t
  <2> QED
    BY <2>1
<1>7. IsFiniteSet(s) /\ IsFiniteSet(t)
  BY <1>3, <1>6, FS_Subset
<1>8. Sum(g, s) = g[x] + Sum(g, t) /\ Sum(h, s) = h[x] + Sum(h, t)
  <2>1. \A y \in s : g[y] \in Int /\ h[y] \in Int
    BY <1>3
  <2> QED
    BY <1>7, <2>1, SumTakes
<1>9. Sum(g, t) \in Int /\ Sum(h, t) \in Int
  <2>1. \A y \in t : g[y] \in Int /\ h[y] \in Int
    BY <1>6
  <2> QED
    BY <1>7, <2>1, SumType
<1> HIDE DEF t, T
<1> QED
  BY <1>3, <1>6, <1>8, <1>9

(* A part of at most the whole rounds to at most the whole. *)
LEMMA DivAtMost ==
    ASSUME NEW a \in Nat, NEW d \in Nat, d > 0, NEW s \in Nat, a <= s * d + (d - 1)
    PROVE  0 <= a \div d /\ a \div d <= s
<1>1. a \div d \in Nat /\ d * (a \div d) <= a
  BY Z3
<1> DEFINE q == a \div d
<1>2. q \in Nat /\ d * q <= a
  BY <1>1
<1> HIDE DEF q
<1>3. SUFFICES ASSUME q >= s + 1 PROVE FALSE
  BY <1>2 DEF q
<1>4. d * q >= d * (s + 1)
  BY <1>2, <1>3, Z3
<1>5. d * (s + 1) = s * d + d
  BY Z3
<1>6. s * d \in Int /\ d * q \in Int
  BY <1>2, TimesType
<1> QED
  BY <1>2, <1>4, <1>5, <1>6

LEMMA RoundShare ==
    ASSUME NEW s \in Nat, NEW w \in Nat, NEW d \in Nat, d > 0, w <= d
    PROVE  0 <= RoundDiv(s * w, d) /\ RoundDiv(s * w, d) <= s
<1>1. s * w \in Nat /\ s * w <= s * d /\ s * d \in Nat
  BY Z3
<1> DEFINE a == 2 * (s * w) + d
           e == 2 * d
<1>2. a \in Nat /\ e \in Nat /\ e > 0
  BY <1>1
<1>3. s * e = 2 * (s * d)
  BY Z3
<1>4. a <= s * e + (e - 1)
  BY <1>1, <1>3
<1>5. RoundDiv(s * w, d) = a \div e
  BY <1>1 DEF RoundDiv
<1> HIDE DEF a, e
<1> QED
  BY <1>2, <1>4, <1>5, DivAtMost

LEMMA OpenValueOfShares ==
    ASSUME NEW shares \in [{"YES", "NO"} -> Nat], NEW last, last.num \in Int, last.den \in Int,
           last.den > 0, 0 <= last.num, last.num <= 2 * last.den
    PROVE  /\ 0 <= PositionValue(shares, last, "none")
           /\ PositionValue(shares, last, "none") <= shares["YES"] + shares["NO"]
<1> DEFINE d == 2 * last.den
           w == Weight(last, "NO")
           y == shares["YES"]
           n == shares["NO"]
<1>1. d \in Nat /\ d > 0 /\ last.num \in Nat /\ last.num <= d /\ y \in Nat /\ n \in Nat
  OBVIOUS
<1>2. w \in Nat /\ w <= d
  BY DEF Weight
<1>3. PositionValue(shares, last, "none")
        = IF y > 0 THEN RoundDiv(y * last.num, d) ELSE RoundDiv(n * w, d)
  BY DEF PositionValue
<1> HIDE DEF d, w, y, n
<1>4. 0 <= RoundDiv(y * last.num, d) /\ RoundDiv(y * last.num, d) <= y
  BY <1>1, RoundShare
<1>5. 0 <= RoundDiv(n * w, d) /\ RoundDiv(n * w, d) <= n
  BY <1>1, <1>2, RoundShare
<1>6. RoundDiv(y * last.num, d) \in Int /\ RoundDiv(n * w, d) \in Int
  <2>1. y * last.num \in Int /\ n * w \in Int
    BY <1>1, <1>2, TimesType
  <2> QED
    BY <1>1, <2>1, RoundDivType
<1>7. PositionValue(shares, last, "none") >= 0 /\ PositionValue(shares, last, "none") <= y + n
  BY <1>1, <1>3, <1>4, <1>5, <1>6
<1> QED
  BY <1>7 DEF y, n

(* While the price is a probability nobody's position has a negative value in   *)
(* the open market: no value is rounded above its shares, so the adjustment    *)
(* only adds.                                                                *)
LEMMA OpenValuesNotNegative ==
    ASSUME NEW history \in Seq(Trade), history # <<>>, Priced(history),
           0 <= LastProbability(history).num,
           LastProbability(history).num <= 2 * LastProbability(history).den,
           NEW u \in RowUsers(history)
    PROVE  Valuations(history, "none")[u] >= 0
<1> DEFINE S    == RowUsers(history)
           net  == NetShares(history)
           last == LastProbability(history)
           raw  == RawValues(history, "none")
           W    == {v \in S : raw[v] > 0}
<1>1. \A v \in S : raw[v] = PositionValue(net[v], last, "none") /\ raw[v] \in Int
  BY RawValuesType DEF Results
<1>2. \A v \in S : 0 <= raw[v] /\ raw[v] <= net[v]["YES"] + net[v]["NO"]
  <2>1. last.num \in Int /\ last.den \in Int /\ last.den > 0 /\ 0 <= last.num /\ last.num <= 2 * last.den
    BY LastPriceType
  <2>2. \A v \in S : net[v] \in [{"YES", "NO"} -> Nat]
    BY NetSharesType
  <2> HIDE DEF net, last, raw, S
  <2>3. \A v \in S : 0 <= PositionValue(net[v], last, "none")
                     /\ PositionValue(net[v], last, "none") <= net[v]["YES"] + net[v]["NO"]
    BY <2>1, <2>2, OpenValueOfShares
  <2> QED
    BY <1>1, <2>3
<1>3. PICK g : /\ \A v \in S : g[v] = net[v]["YES"] + net[v]["NO"] /\ g[v] \in Int
               /\ TargetPool(history, net, "none") = Sum(g, S)
  BY OpenPool
<1>4. IsFiniteSet(S) /\ u \in S
  BY UsersFinite
<1>5. \A v \in S : raw[v] \in Int /\ g[v] \in Int /\ raw[v] <= g[v]
  <2> HIDE DEF raw, S, net
  <2> QED
    BY <1>1, <1>2, <1>3
<1>6. Sum(raw, S) <= Sum(g, S)
  <2> HIDE DEF raw, S, net
  <2> QED
    BY <1>4, <1>5, SumMonotone
<1>7. Sum(raw, S) = Sum(raw, W)
  <2>1. W \subseteq S /\ \A v \in S \ W : raw[v] = 0
    BY <1>1, <1>2
  <2> HIDE DEF raw, S, W
  <2> QED
    BY <1>4, <1>5, <2>1, SumSkipsZeros
<1>8. raw[u] <= Valuations(history, "none")[u]
  <2>1. Sum(raw, W) <= TargetPool(history, net, "none") =>
          \A v \in S : raw[v] <= Valuations(history, "none")[v]
    BY ValuesOfHistory DEF Results
  <2> HIDE DEF raw, S, W, net
  <2> QED
    BY <1>3, <1>4, <1>6, <1>7, <2>1
<1>9. Valuations(history, "none")[u] \in Int
  BY ValuesOfHistory DEF Results
<1> HIDE DEF raw, S
<1> QED
  BY <1>1, <1>2, <1>4, <1>8, <1>9

-----------------------------------------------------------------------------
(* The theorems. *)

LEMMA RowsAreTrades == ASSUME TypeOK PROVE rows \in Seq(Trade) /\ cash \in Int
  BY DEF TypeOK, Trade

(* A sale in the history, as SalesSellUnlockedLots says it of row i. *)
SoldUnlocked(history, i) ==
    ~IsBuy(history[i]) =>
      \E j \in 1..i, k \in 1..i :
        /\ j < k /\ IsBuy(history[j]) /\ IsBuy(history[k])
        /\ history[j].user = history[i].user /\ history[j].outcome = history[i].outcome
        /\ history[k].user # history[i].user

LEMMA BuyKeeps ==
    ASSUME TypeOK, NEW u \in Traders, NEW o \in Outcomes, NEW a \in BuyAmounts, Buy(u, o, a)
    PROVE  /\ rows' = Append(rows, [user |-> u, amount |-> a, outcome |-> o]) /\ a > 0
           /\ TypeOK'
<1>1. a \in Int /\ a > 0
  BY HistoryAssumption
<1>2. rows \in Seq(Trade) /\ cash \in Int
  BY RowsAreTrades
<1>3. [user |-> u, amount |-> a, outcome |-> o] \in Trade
  BY <1>1 DEF Trade
<1>4. rows' = Append(rows, [user |-> u, amount |-> a, outcome |-> o]) /\ cash' = cash + a
  BY DEF Buy
<1>5. rows' \in Seq(Trade) /\ cash' \in Int
  BY <1>1, <1>2, <1>3, <1>4
<1> QED
  BY <1>1, <1>4, <1>5 DEF TypeOK, Trade

LEMMA SellKeeps ==
    ASSUME TypeOK, Priced(rows), NEW u \in Traders, NEW o \in Outcomes, NEW c \in SellRequests,
           Sell(u, o, c)
    PROVE  /\ \E n \in Nat \ {0} : rows' = Append(rows, [user |-> u, amount |-> -n, outcome |-> o])
           /\ cash - cash' <= Valuations(rows, "none")[u]
           /\ \E j, k \in 1..Len(rows) : Bought(rows, u, o, j) /\ Followed(rows, u, j, k)
           /\ TypeOK'
<1> DEFINE quote == QuoteFor(rows, u, o, c)
           paid  == SM!NetProceeds(quote)
           n     == quote.shares
<1>1. rows \in Seq(Trade) /\ cash \in Int /\ rows # <<>>
  BY RowsAreTrades DEF Sell
<1>2. /\ n > 0
      /\ rows' = Append(rows, [user |-> u, amount |-> -n, outcome |-> o])
      /\ cash' = cash - paid
  BY DEF Sell, Execute
<1>3. /\ n \in Nat /\ paid \in Int
      /\ n > 0 => /\ paid <= Valuations(rows, "none")[u]
                  /\ \E j, k \in 1..Len(rows) : Bought(rows, u, o, j) /\ Followed(rows, u, j, k)
  BY <1>1, QuoteBounds
<1> HIDE DEF quote, paid, n
<1>4. n \in Nat \ {0} /\ -n \in Int \ {0}
  BY <1>2, <1>3
<1>5. [user |-> u, amount |-> -n, outcome |-> o] \in Trade
  BY <1>4 DEF Trade
<1>6. rows' \in Seq(Trade) /\ cash' \in Int /\ cash - cash' = paid
  BY <1>1, <1>2, <1>3, <1>5
<1> QED
  BY <1>2, <1>3, <1>4, <1>6 DEF TypeOK, Trade

LEMMA StepCases ==
    ASSUME Next
    PROVE  /\ Priced(rows)
           /\ \/ \E u \in Traders, o \in Outcomes, a \in BuyAmounts : Buy(u, o, a)
              \/ \E u \in Traders, o \in Outcomes, c \in SellRequests : Sell(u, o, c)
  BY DEF Next

(* Rows are buys of credits or sales of at least one share, and the cash of    *)
(* the market is an integer, whatever the sale was quoted.                    *)
THEOREM HistoryTypeCorrect == Spec => []TypeOK
<1>1. Init => TypeOK
  BY DEF Init, TypeOK
<1>2. TypeOK /\ [Next]_vars => TypeOK'
  <2> SUFFICES ASSUME TypeOK, [Next]_vars PROVE TypeOK'
    OBVIOUS
  <2>1. CASE UNCHANGED vars
    BY <2>1 DEF vars, TypeOK
  <2>2. CASE Next
    BY <2>2, StepCases, BuyKeeps, SellKeeps
  <2> QED
    BY <2>1, <2>2
<1> QED
  BY <1>1, <1>2, PTL DEF Spec

(* A sale is only ever executed by a user who bought that outcome and after     *)
(* whose purchase somebody else bought, however long the history.             *)
THEOREM SoldWhatOthersUnlocked == Spec => []SalesSellUnlockedLots
<1> DEFINE Inv == TypeOK /\ \A i \in 1..Len(rows) : SoldUnlocked(rows, i)
<1>1. Init => Inv
  <2> SUFFICES ASSUME Init PROVE Inv
    OBVIOUS
  <2>1. TypeOK
    BY DEF Init, TypeOK
  <2>2. 1..Len(rows) = {}
    BY DEF Init
  <2> QED
    BY <2>1, <2>2
<1>2. Inv /\ [Next]_vars => Inv'
  <2> SUFFICES ASSUME Inv, [Next]_vars PROVE Inv'
    OBVIOUS
  <2> USE DEF Inv
  <2>1. rows \in Seq(Trade)
    BY RowsAreTrades
  <2>2. CASE UNCHANGED vars
    BY <2>2 DEF vars, TypeOK
  <2>3. ASSUME NEW row, rows' = Append(rows, row), TypeOK', SoldUnlocked(rows', Len(rows) + 1)
        PROVE  Inv'
    <3>1. ASSUME NEW i \in 1..Len(rows) PROVE SoldUnlocked(rows', i)
      <4>1. \A j \in 1..i : rows'[j] = rows[j] /\ i \in 1..i
        BY <2>1, <2>3, Appended
      <4>2. SoldUnlocked(rows, i)
        OBVIOUS
      <4> QED
        BY <4>1, <4>2 DEF SoldUnlocked
    <3>2. \A i \in 1..Len(rows') : i \in 1..Len(rows) \/ i = Len(rows) + 1
      BY <2>1, <2>3, Appended
    <3> QED
      BY <2>3, <3>1, <3>2
  <2>4. ASSUME NEW u \in Traders, NEW o \in Outcomes, NEW a \in BuyAmounts, Buy(u, o, a)
        PROVE  Inv'
    <3> DEFINE row == [user |-> u, amount |-> a, outcome |-> o]
    <3>1. rows' = Append(rows, row) /\ a > 0 /\ TypeOK'
      BY <2>4, BuyKeeps
    <3>2. rows'[Len(rows) + 1] = row
      BY <2>1, <3>1, Appended
    <3>3. SoldUnlocked(rows', Len(rows) + 1)
      BY <3>1, <3>2 DEF SoldUnlocked, IsBuy
    <3> HIDE DEF row
    <3> QED
      BY <2>3, <3>1, <3>3
  <2>5. ASSUME Priced(rows), NEW u \in Traders, NEW o \in Outcomes, NEW c \in SellRequests, Sell(u, o, c)
        PROVE  Inv'
    <3>1. PICK n \in Nat \ {0} : rows' = Append(rows, [user |-> u, amount |-> -n, outcome |-> o])
      BY <2>5, SellKeeps
    <3> DEFINE row == [user |-> u, amount |-> -n, outcome |-> o]
    <3>2. TypeOK'
      BY <2>5, SellKeeps
    <3>3. PICK j, k \in 1..Len(rows) : Bought(rows, u, o, j) /\ Followed(rows, u, j, k)
      BY <2>5, SellKeeps
    <3>4. /\ rows'[Len(rows) + 1] = row /\ rows'[j] = rows[j] /\ rows'[k] = rows[k]
          /\ j \in 1..(Len(rows) + 1) /\ k \in 1..(Len(rows) + 1)
      BY <2>1, <3>1, <3>3, Appended
    <3>5. SoldUnlocked(rows', Len(rows) + 1)
      <4>1. row.user = u /\ row.outcome = o
        OBVIOUS
      <4> HIDE DEF row
      <4> QED
        BY <3>3, <3>4, <4>1 DEF SoldUnlocked, Bought, Followed
    <3> QED
      BY <2>3, <3>1, <3>2, <3>5
  <2> QED
    BY <2>2, <2>4, <2>5, StepCases
<1>3. Inv => SalesSellUnlockedLots
  <2> SUFFICES ASSUME Inv PROVE SalesSellUnlockedLots
    OBVIOUS
  <2>1. DOMAIN rows = 1..Len(rows)
    BY RowsAreTrades
  <2>2. \A i \in DOMAIN rows : SoldUnlocked(rows, i)
    BY <2>1
  <2> QED
    BY <2>2 DEF SalesSellUnlockedLots, SoldUnlocked
<1> QED
  BY <1>1, <1>2, <1>3, PTL DEF Spec

(* A sale pays the seller at most what the seller's position was worth in the   *)
(* history it was priced by.                                                 *)
THEOREM SalesPayWhatPositionsAreWorth == Spec => SalePaysAtMostThePosition
<1> DEFINE Fair == \A u \in Traders :
             (Len(rows') = Len(rows) + 1 /\ ~IsBuy(rows'[Len(rows')]) /\ rows'[Len(rows')].user = u)
               => cash - cash' <= Valuations(rows, "none")[u]
<1>1. TypeOK /\ [Next]_vars => [Fair]_vars
  <2> SUFFICES ASSUME TypeOK, Next PROVE Fair
    OBVIOUS
  <2>1. rows \in Seq(Trade)
    BY RowsAreTrades
  <2>2. ASSUME NEW u \in Traders, NEW o \in Outcomes, NEW a \in BuyAmounts, Buy(u, o, a)
        PROVE  Fair
    <3>1. rows'[Len(rows')] = [user |-> u, amount |-> a, outcome |-> o] /\ a > 0
      BY <2>1, <2>2, BuyKeeps, Appended
    <3>2. IsBuy(rows'[Len(rows')])
      BY <3>1 DEF IsBuy
    <3> QED
      BY <3>2
  <2>3. ASSUME Priced(rows), NEW u \in Traders, NEW o \in Outcomes, NEW c \in SellRequests, Sell(u, o, c)
        PROVE  Fair
    <3>1. PICK n \in Nat \ {0} : rows' = Append(rows, [user |-> u, amount |-> -n, outcome |-> o])
      BY <2>3, SellKeeps
    <3>2. rows'[Len(rows')].user = u
      BY <2>1, <3>1, Appended
    <3>3. cash - cash' <= Valuations(rows, "none")[u]
      BY <2>3, SellKeeps
    <3> QED
      BY <3>2, <3>3
  <2> QED
    BY <2>2, <2>3, StepCases
<1>2. Spec => []TypeOK
  BY HistoryTypeCorrect
<1> QED
  BY <1>1, <1>2, PTL DEF Spec, SalePaysAtMostThePosition

(* Whatever was bought and sold, the values of the positions add up to the     *)
(* pool they are paid from, unless nobody's value is positive: the rounding    *)
(* remainder is handed out whole, one credit per rank.                        *)
THEOREM ValuationsAddUp == Spec => []ValuationsFillThePool
<1>1. TypeOK => ValuationsFillThePool
  <2> SUFFICES ASSUME TypeOK, Live, NEW result \in Results
               PROVE  \/ \A u \in RowUsers(rows) : Valuations(rows, result)[u] <= 0
                      \/ Worth(result) = TargetPool(rows, NetShares(rows), result)
    BY DEF ValuationsFillThePool, Results
  <2>1. rows \in Seq(Trade) /\ rows # <<>> /\ Priced(rows)
    BY RowsAreTrades DEF Live
  <2>2. Worth(result) = Sum(Valuations(rows, result), RowUsers(rows))
    BY DEF Worth, Sum
  <2> QED
    BY <2>1, <2>2, ValuesOfHistory
<1> QED
  BY <1>1, HistoryTypeCorrect, PTL

(* Before the first sale the cash of the market is its volume. *)
CashIsVolume == (\A i \in 1..Len(rows) : IsBuy(rows[i])) => cash = Volume(rows)

LEMMA BuysAddUp == Spec => [](TypeOK /\ CashIsVolume)
<1>1. Init => TypeOK /\ CashIsVolume
  <2> SUFFICES ASSUME Init PROVE TypeOK /\ CashIsVolume
    OBVIOUS
  <2>1. TypeOK /\ rows = <<>> /\ cash = 0
    BY DEF Init, TypeOK
  <2>2. Volume(rows) = PrefixSum(Amounts(rows), 0)
    <3>1. rows \in Seq(Trade) /\ 0 \in 0..Len(rows) /\ Len(rows) = 0
      BY <2>1
    <3> QED
      BY <3>1, StakesAreSums DEF Volume
  <2> QED
    BY <2>1, <2>2, PrefixSumNone DEF CashIsVolume
<1>2. TypeOK /\ CashIsVolume /\ [Next]_vars => (TypeOK /\ CashIsVolume)'
  <2> SUFFICES ASSUME TypeOK, CashIsVolume, [Next]_vars PROVE TypeOK' /\ CashIsVolume'
    OBVIOUS
  <2>1. rows \in Seq(Trade) /\ cash \in Int
    BY RowsAreTrades
  <2>2. CASE UNCHANGED vars
    BY <2>2 DEF vars, TypeOK, CashIsVolume, Volume, Stake, SumUpTo
  <2>3. ASSUME NEW u \in Traders, NEW o \in Outcomes, NEW a \in BuyAmounts, Buy(u, o, a)
        PROVE  TypeOK' /\ CashIsVolume'
    <3> DEFINE row == [user |-> u, amount |-> a, outcome |-> o]
    <3>1. rows' = Append(rows, row) /\ cash' = cash + a /\ a \in Int /\ a > 0 /\ TypeOK'
      BY <2>3, BuyKeeps, HistoryAssumption DEF Buy
    <3>2. row \in Trade /\ row.amount = a
      BY <3>1 DEF Trade
    <3> HIDE DEF row
    <3>3. Volume(rows') = Volume(rows) + a
      BY <2>1, <3>1, <3>2, VolumeGrows
    <3>4. (\A i \in 1..Len(rows') : IsBuy(rows'[i])) => \A i \in 1..Len(rows) : IsBuy(rows[i])
      BY <2>1, <3>1, Appended
    <3> QED
      BY <3>1, <3>3, <3>4 DEF CashIsVolume
  <2>4. ASSUME Priced(rows), NEW u \in Traders, NEW o \in Outcomes, NEW c \in SellRequests, Sell(u, o, c)
        PROVE  TypeOK' /\ CashIsVolume'
    <3>1. PICK n \in Nat \ {0} : rows' = Append(rows, [user |-> u, amount |-> -n, outcome |-> o])
      BY <2>4, SellKeeps
    <3>2. Len(rows) + 1 \in 1..Len(rows') /\ ~IsBuy(rows'[Len(rows) + 1])
      BY <2>1, <3>1, Appended DEF IsBuy
    <3>3. TypeOK'
      BY <2>4, SellKeeps
    <3> QED
      BY <3>2, <3>3 DEF CashIsVolume
  <2> QED
    BY <2>2, <2>3, <2>4, StepCases
<1> QED
  BY <1>1, <1>2, PTL DEF Spec

(* As long as nobody has sold, the price is a probability, no position is worth *)
(* less than nothing in the open market, and the market's credits cover what    *)
(* the positions are worth under either result: for every seed, any buys and    *)
(* any number of them.                                                       *)
THEOREM BuysAloneAreSound == Spec => []SoundWhileOnlyBuys
<1>1. TypeOK /\ CashIsVolume => SoundWhileOnlyBuys
  <2> SUFFICES ASSUME TypeOK, CashIsVolume, Live, NoSaleYet
               PROVE  /\ 0 < LastProbability(rows).num
                      /\ LastProbability(rows).num < 2 * LastProbability(rows).den
                      /\ \A u \in RowUsers(rows) : Valuations(rows, "none")[u] >= 0
                      /\ \A result \in {"YES", "NO"} : Worth(result) <= cash
    BY DEF SoundWhileOnlyBuys
  <2> DEFINE n == Len(rows)
             S == RowUsers(rows)
  <2>1. rows \in Seq(Trade) /\ rows # <<>> /\ Priced(rows) /\ cash \in Int
    BY RowsAreTrades DEF Live
  <2>2. n \in 0..n /\ DOMAIN rows = 1..n
    BY <2>1, TradeFields
  <2>3. \A i \in 1..n : IsBuy(rows[i])
    BY <2>2 DEF NoSaleYet
  <2>4. cash = Volume(rows)
    BY <2>3 DEF CashIsVolume
  <2>5. 0 <= YesStake(rows, n) /\ YesStake(rows, n) <= Stake(rows, n)
    BY <2>1, <2>3, StakesOfBuys
  <2>6. YesStake(rows, n) \in Int /\ Stake(rows, n) \in Int
    BY <2>1, <2>2, StakeTypes
  <2>7. LastProbability(rows) = [num |-> Subsidization + 2 * YesStake(rows, n),
                                 den |-> Subsidization + Stake(rows, n)]
    BY <2>2 DEF LastProbability, Probabilities, Table
  <2>8. /\ 0 < LastProbability(rows).num
        /\ LastProbability(rows).num < 2 * LastProbability(rows).den
        /\ LastProbability(rows).num \in Int /\ LastProbability(rows).den \in Int
    BY <2>5, <2>6, <2>7, SubsidizationAssumption
  <2>9. \A u \in S : Valuations(rows, "none")[u] >= 0
    <3>1. 0 <= LastProbability(rows).num /\ LastProbability(rows).num <= 2 * LastProbability(rows).den
      BY <2>8
    <3> QED
      BY <2>1, <3>1, OpenValuesNotNegative
  <2>10. ASSUME NEW result \in {"YES", "NO"} PROVE Worth(result) <= cash
    <3> DEFINE val  == Valuations(rows, result)
               none == [u \in S |-> 0]
    <3>1. /\ \A u \in S : val[u] \in Int
          /\ (\A u \in S : val[u] <= 0) \/ Sum(val, S) = TargetPool(rows, NetShares(rows), result)
      BY <2>1, ValuesOfHistory DEF Results
    <3>2. Worth(result) = Sum(val, S)
      BY DEF Worth, Sum
    <3>3. TargetPool(rows, NetShares(rows), result) = cash
      BY <2>4 DEF TargetPool
    <3>4. IsFiniteSet(S) /\ \A u \in S : none[u] = 0
      BY <2>1, UsersFinite
    <3>5. cash >= 0
      BY <2>4, <2>5, <2>6 DEF Volume
    <3> HIDE DEF val, none, S
    <3>6. CASE \A u \in S : val[u] <= 0
      <4>1. Sum(val, S) <= Sum(none, S)
        BY <3>1, <3>4, <3>6, SumMonotone
      <4>2. Sum(none, S) = Sum(none, {})
        BY <3>4, SumSkipsZeros
      <4>3. Sum(none, S) = 0
        BY <4>2, SumEmpty
      <4>4. Sum(val, S) \in Int
        BY <3>1, <3>4, SumType
      <4> QED
        BY <2>1, <3>2, <3>5, <4>1, <4>3, <4>4
    <3>7. CASE Sum(val, S) = TargetPool(rows, NetShares(rows), result)
      BY <2>1, <3>2, <3>3, <3>7
    <3> QED
      BY <3>1, <3>6, <3>7
  <2> QED
    BY <2>8, <2>9, <2>10
<1> QED
  BY <1>1, BuysAddUp, PTL

=============================================================================
