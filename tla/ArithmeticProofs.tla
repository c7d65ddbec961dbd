-------------------------- MODULE ArithmeticProofs --------------------------
(***************************************************************************)
(* What a sale quote guarantees for every position and every request, and     *)
(* what the sums of the models compute for every finite set: MapThenSumSet    *)
(* picks the elements in an order nobody knows, so the induction is the       *)
(* descent to a smallest counterexample.                                     *)
(***************************************************************************)
EXTENDS SaleMath, FiniteSets, FiniteSetsExt, FiniteSetTheorems, WellFoundedInduction, TLAPS

QuoteType == [shares : Nat, value : Nat, dust : Nat, perShare : Nat]

(* The dust fee lies between zero and the configured cap. *)
LEMMA NormalDustBounds ==
    ASSUME NEW dust \in Int, NEW maxDust \in Int
    PROVE  /\ NormalDust(dust, maxDust) \in Nat
           /\ maxDust >= 0 => NormalDust(dust, maxDust) <= maxDust
  BY DEF NormalDust

(* Whole shares of at least one credit multiply to a natural value. *)
LEMMA ProductIsNat ==
    ASSUME NEW m \in Nat, NEW n \in Nat
    PROVE  m * n \in Nat
  OBVIOUS

(* Integer division of naturals gives a natural. *)
LEMMA DivIsNat ==
    ASSUME NEW m \in Nat, NEW n \in Nat \ {0}
    PROVE  m \div n \in Nat
  BY Z3

(* Rounding down: n whole shares of a value are worth at most the value. *)
LEMMA FloorPrice ==
    ASSUME NEW value \in Nat, NEW owned \in Nat \ {0},
           NEW shares \in Nat, shares <= owned
    PROVE  shares * (value \div owned) <= value
  <1> DEFINE perShare == value \div owned
  <1>1. perShare \in Nat /\ owned * perShare <= value
    BY Z3
  <1>2. shares * perShare <= owned * perShare
    BY <1>1, Z3
  <1> QED
    BY <1>1, <1>2

(* A quote is a record of naturals, never for more shares than the position  *)
(* holds and never for more than its value.                                  *)
THEOREM QuoteWithinPosition ==
    ASSUME NEW value \in Int, NEW owned \in Int, NEW requested \in Nat, NEW maxDust \in Int
    PROVE  /\ Quote(value, owned, requested, maxDust) \in QuoteType
           /\ Quote(value, owned, requested, maxDust).shares > 0 =>
                /\ Quote(value, owned, requested, maxDust).shares <= owned
                /\ Quote(value, owned, requested, maxDust).value <= value
  <1> DEFINE perShare == value \div owned
             wanted   == requested \div perShare
             shares   == IF wanted > owned THEN owned ELSE wanted
             dust     == NormalDust(RawDust(requested, shares * perShare), maxDust)
             quote    == Quote(value, owned, requested, maxDust)
  <1>1. CASE owned <= 0 \/ value <= 0
    BY <1>1 DEF Quote, NoQuote, QuoteType
  <1>2. CASE owned > 0 /\ value > 0
    <2>1. perShare \in Nat
      BY <1>2, DivIsNat
    <2>2. CASE perShare <= 0 \/ requested < perShare
      BY <1>2, <2>2 DEF Quote, NoQuote, QuoteType
    <2>3. CASE perShare > 0 /\ requested >= perShare
      <3>1. wanted \in Nat
        <4> HIDE DEF perShare
        <4> QED BY <2>1, <2>3, DivIsNat
      <3>2. shares \in Nat /\ shares <= owned
        BY <1>2, <3>1
      <3>3. shares * perShare \in Nat
        BY <2>1, <3>2, ProductIsNat
      <3>4. RawDust(requested, shares * perShare) \in Int
        BY <3>3 DEF RawDust
      <3>5. dust \in Nat
        BY <3>4, NormalDustBounds
      <3>6. quote = [shares |-> shares, value |-> shares * perShare,
                     dust |-> dust, perShare |-> perShare]
        BY <1>2, <2>3 DEF Quote
      <3>7. shares * perShare <= value
        <4> HIDE DEF shares
        <4> QED BY <1>2, <3>2, FloorPrice
      <3> HIDE DEF perShare, shares, dust
      <3> QED
        BY <2>1, <3>2, <3>3, <3>5, <3>6, <3>7 DEF QuoteType
    <2> QED
      BY <2>1, <2>2, <2>3
  <1> QED
    BY <1>1, <1>2

(* The proceeds of a quote are never negative and never above its value. *)
THEOREM NetProceedsBounds ==
    ASSUME NEW quote \in QuoteType
    PROVE  /\ NetProceeds(quote) \in Nat
           /\ NetProceeds(quote) <= quote.value
  BY DEF NetProceeds, QuoteType

(* The quote a sale is executed with is a record of naturals, for no more    *)
(* shares than are held and are sellable, and for no more than their value:  *)
(* the inventory check after Quote can refuse nothing that Quote accepts.    *)
THEOREM ExecutableQuoteBounds ==
    ASSUME NEW held \in Int, NEW sellable \in [shares : Int, value : Int],
           NEW requested \in Nat, NEW maxDust \in Int
    PROVE  LET quote == ExecutableQuote(held, sellable, requested, maxDust)
           IN /\ quote \in QuoteType
              /\ quote.shares > 0 => /\ quote.shares <= held
                                     /\ quote.shares <= sellable.shares
                                     /\ quote.value <= sellable.value
  <1> DEFINE shares == IF sellable.shares > held THEN held ELSE sellable.shares
             quote  == Quote(sellable.value, shares, requested, maxDust)
  <1>1. shares \in Int /\ shares <= held /\ shares <= sellable.shares
    OBVIOUS
  <1>2. /\ quote \in QuoteType
        /\ quote.shares > 0 => quote.shares <= shares /\ quote.value <= sellable.value
    <2> HIDE DEF shares
    <2> QED BY <1>1, QuoteWithinPosition
  <1>3. NoQuote \in QuoteType /\ NoQuote.shares = 0
    BY DEF NoQuote, QuoteType
  <1> QED
    BY <1>1, <1>2, <1>3 DEF ExecutableQuote, QuoteType

-----------------------------------------------------------------------------
(* Sums over finite sets. *)

(* Every set of natural numbers that is not empty has a least element. *)
LEMMA LeastNatural ==
    ASSUME NEW T, T \subseteq Nat, T # {}
    PROVE  \E x \in T : \A y \in T : x <= y
<1> DEFINE R == OpToRel(<, Nat)
<1>1. \E x \in T : \A y \in T : ~(<<y, x>> \in R)
  BY WFMin, NatLessThanWellFounded, Zenon
<1>2. \A x, y \in Nat : y < x => <<y, x>> \in R
  BY DEF OpToRel
<1> HIDE DEF R
<1>3. PICK x \in T : \A y \in T : ~(<<y, x>> \in R)
  BY <1>1
<1>4. ASSUME NEW y \in T PROVE x <= y
  <2>1. x \in Nat /\ y \in Nat
    OBVIOUS
  <2>2. ~(y < x)
    BY <1>2, <1>3, <2>1, Zenon
  <2> QED
    BY <2>1, <2>2, SMT
<1> QED
  BY <1>4

(* What holds of 0 and is handed on up to n holds of n. *)
LEMMA UpTo ==
    ASSUME NEW n \in Nat, NEW Good, 0 \in Good, \A m \in 0..n : m # n /\ m \in Good => m + 1 \in Good
    PROVE  n \in Good
<1> DEFINE Bad == {m \in 0..n : m \notin Good}
<1> SUFFICES ASSUME Bad # {}
             PROVE  FALSE
  OBVIOUS
<1>1. PICK x \in Bad : \A y \in Bad : x <= y
  <2>1. Bad \subseteq Nat
    OBVIOUS
  <2> HIDE DEF Bad
  <2> QED
    BY <2>1, LeastNatural
<1>2. x # 0 /\ x - 1 \in 0..n /\ x - 1 # n /\ x - 1 \notin Bad
  BY <1>1
<1> QED
  BY <1>1, <1>2

(* Of the sets in T, all of them finite, one has no set of T one element below it. *)
LEMMA LeastSet ==
    ASSUME NEW S, IsFiniteSet(S), NEW T, T \subseteq SUBSET S, T # {}
    PROVE  \E s \in T : \A x \in s : s \ {x} \notin T
<1> DEFINE Sizes == {Cardinality(s) : s \in T}
<1>1. \A s \in T : IsFiniteSet(s) /\ Cardinality(s) \in Nat
  BY FS_Subset, FS_CardinalityType
<1>2. PICK n \in Sizes : \A m \in Sizes : n <= m
  <2>1. Sizes \subseteq Nat /\ Sizes # {}
    BY <1>1
  <2> HIDE DEF Sizes
  <2> QED
    BY <2>1, LeastNatural
<1>3. PICK s \in T : n = Cardinality(s)
  OBVIOUS
<1>4. ASSUME NEW x \in s, s \ {x} \in T
      PROVE  FALSE
  <2>1. Cardinality(s \ {x}) = Cardinality(s) - 1
    BY <1>1, <1>3, FS_RemoveElement
  <2>2. Cardinality(s) <= Cardinality(s \ {x})
    BY <1>2, <1>3, <1>4
  <2> QED
    BY <1>1, <1>3, <2>1, <2>2
<1> QED
  BY <1>3, <1>4

-----------------------------------------------------------------------------
Pick(s) == CHOOSE x \in s : TRUE

(* f sums g over the subsets of S, in the order of Pick. *)
Adds(f, g, S) ==
    f = [s \in SUBSET S |-> IF s = {} THEN 0 ELSE g[Pick(s)] + f[s \ {Pick(s)}]]

LEMMA Picked == ASSUME NEW s, s # {} PROVE Pick(s) \in s
  BY DEF Pick

LEMMA AddsExists ==
    ASSUME NEW S, IsFiniteSet(S), NEW g, \A x \in S : g[x] \in Int
    PROVE  \E f \in [SUBSET S -> Int] : Adds(f, g, S)
<1> DEFINE Body(f, s) == IF s = {} THEN 0 ELSE g[Pick(s)] + f[s \ {Pick(s)}]
           Good == {n \in Nat : \E f \in [SUBSET S -> Int] :
                                    \A s \in SUBSET S : Cardinality(s) <= n => f[s] = Body(f, s)}
<1>0. \A s \in SUBSET S : IsFiniteSet(s) /\ Cardinality(s) \in Nat /\ Cardinality(s) <= Cardinality(S)
  BY FS_Subset, FS_CardinalityType
<1>1. 0 \in Good
  <2>1. [s \in SUBSET S |-> 0] \in [SUBSET S -> Int]
    OBVIOUS
  <2>2. \A s \in SUBSET S : Cardinality(s) <= 0 => s = {}
    BY <1>0, FS_EmptySet
  <2> QED
    BY <2>1, <2>2
<1>2. ASSUME NEW n \in Nat, n \in Good
      PROVE  n + 1 \in Good
  <2>1. PICK f \in [SUBSET S -> Int] : \A s \in SUBSET S : Cardinality(s) <= n => f[s] = Body(f, s)
    BY <1>2
  <2> DEFINE h == [s \in SUBSET S |-> IF Cardinality(s) = n + 1 THEN Body(f, s) ELSE f[s]]
  <2>2. \A s \in SUBSET S : s # {} => /\ Pick(s) \in s /\ s \ {Pick(s)} \in SUBSET S
                                      /\ Cardinality(s \ {Pick(s)}) = Cardinality(s) - 1
    BY <1>0, Picked, FS_RemoveElement
  <2>3. ASSUME NEW s \in SUBSET S PROVE Body(f, s) \in Int
    <3>1. s # {} => g[Pick(s)] \in Int /\ f[s \ {Pick(s)}] \in Int
      BY <2>2
    <3> QED
      BY <3>1
  <2>4. h \in [SUBSET S -> Int]
    BY <2>3
  <2>5. ASSUME NEW s \in SUBSET S, Cardinality(s) <= n + 1
        PROVE  h[s] = Body(h, s)
    <3>1. h[s] = Body(f, s)
      BY <1>0, <2>1, <2>5
    <3>2. CASE s = {}
      BY <3>1, <3>2
    <3>3. CASE s # {}
      <4>1. Cardinality(s \ {Pick(s)}) # n + 1 /\ s \ {Pick(s)} \in SUBSET S
        BY <1>0, <2>2, <2>5, <3>3
      <4>2. h[s \ {Pick(s)}] = f[s \ {Pick(s)}]
        BY <4>1
      <4> QED
        BY <3>1, <3>3, <4>2
    <3> QED
      BY <3>2, <3>3
  <2> HIDE DEF h, Body
  <2> QED
    BY <2>4, <2>5
<1> HIDE DEF Good
<1>3. Cardinality(S) \in Good
  <2>1. Cardinality(S) \in Nat
    BY FS_CardinalityType
  <2> QED
    BY <1>1, <1>2, <2>1, UpTo
<1>4. PICK f \in [SUBSET S -> Int] :
          \A s \in SUBSET S : Cardinality(s) <= Cardinality(S) => f[s] = Body(f, s)
  BY <1>3 DEF Good
<1>5. f = [s \in SUBSET S |-> Body(f, s)]
  BY <1>0, <1>4
<1> QED
  BY <1>5 DEF Adds

LEMMA AddsType ==
    ASSUME NEW S, IsFiniteSet(S), NEW g, \A x \in S : g[x] \in Int, NEW f, Adds(f, g, S)
    PROVE  f \in [SUBSET S -> Int] /\ f[{}] = 0
<1> DEFINE Bad == {s \in SUBSET S : f[s] \notin Int}
<1>1. \A s \in SUBSET S : f[s] = IF s = {} THEN 0 ELSE g[Pick(s)] + f[s \ {Pick(s)}]
  BY DEF Adds
<1>2. ASSUME Bad # {} PROVE FALSE
  <2>1. PICK s \in Bad : \A x \in s : s \ {x} \notin Bad
    <3>1. Bad \subseteq SUBSET S
      OBVIOUS
    <3> HIDE DEF Bad
    <3> QED
      BY <1>2, <3>1, LeastSet
  <2>2. s # {}
    BY <1>1
  <2>3. Pick(s) \in s /\ s \in SUBSET S /\ s \ {Pick(s)} \in SUBSET S
    BY <2>2, Picked
  <2>4. g[Pick(s)] \in Int /\ f[s \ {Pick(s)}] \in Int
    BY <2>1, <2>3
  <2>5. f[s] = g[Pick(s)] + f[s \ {Pick(s)}]
    BY <1>1, <2>2, <2>3
  <2>6. f[s] \in Int
    BY <2>4, <2>5
  <2> QED
    BY <2>6
<1>3. f = [s \in SUBSET S |-> f[s]]
  BY DEF Adds
<1> QED
  BY <1>1, <1>2, <1>3

(* Two such sums agree where what they add does, whatever else they are defined on. *)
LEMMA AddsAgree ==
    ASSUME NEW S, IsFiniteSet(S), NEW R, S \subseteq R, NEW g, NEW h,
           \A x \in S : g[x] = h[x],
           NEW f, Adds(f, g, S), NEW e, Adds(e, h, R)
    PROVE  \A s \in SUBSET S : f[s] = e[s]
<1> DEFINE Bad == {s \in SUBSET S : f[s] # e[s]}
<1>1. /\ \A s \in SUBSET S : f[s] = IF s = {} THEN 0 ELSE g[Pick(s)] + f[s \ {Pick(s)}]
      /\ \A s \in SUBSET R : e[s] = IF s = {} THEN 0 ELSE h[Pick(s)] + e[s \ {Pick(s)}]
  BY DEF Adds
<1>2. ASSUME Bad # {} PROVE FALSE
  <2>1. PICK s \in Bad : \A x \in s : s \ {x} \notin Bad
    <3>1. Bad \subseteq SUBSET S
      OBVIOUS
    <3> HIDE DEF Bad
    <3> QED
      BY <1>2, <3>1, LeastSet
  <2>2. s \in SUBSET S /\ s \in SUBSET R /\ s # {}
    BY <1>1
  <2>3. Pick(s) \in s /\ s \ {Pick(s)} \in SUBSET S
    BY <2>2, Picked
  <2>4. f[s \ {Pick(s)}] = e[s \ {Pick(s)}] /\ g[Pick(s)] = h[Pick(s)]
    BY <2>1, <2>2, <2>3
  <2> QED
    BY <1>1, <2>2, <2>4
<1> QED
  BY <1>2

(* Any element may be taken first. *)
LEMMA AddsTakes ==
    ASSUME NEW S, IsFiniteSet(S), NEW g, \A x \in S : g[x] \in Int, NEW f, Adds(f, g, S),
           NEW t \in SUBSET S, NEW z \in t
    PROVE  f[t] = g[z] + f[t \ {z}]
<1> DEFINE Bad == {s \in SUBSET S : \E x \in s : f[s] # g[x] + f[s \ {x}]}
<1>1. \A s \in SUBSET S : s # {} => f[s] = g[Pick(s)] + f[s \ {Pick(s)}]
  BY DEF Adds
<1>2. ASSUME Bad # {} PROVE FALSE
  <2>1. PICK s \in Bad : \A x \in s : s \ {x} \notin Bad
    <3>1. Bad \subseteq SUBSET S
      OBVIOUS
    <3> HIDE DEF Bad
    <3> QED
      BY <1>2, <3>1, LeastSet
  <2>2. PICK x \in s : f[s] # g[x] + f[s \ {x}]
    OBVIOUS
  <2> DEFINE y == Pick(s)
             r == (s \ {x}) \ {y}
  <2>3. /\ s \in SUBSET S /\ y \in s /\ x \in S /\ y \in S /\ f[s] = g[y] + f[s \ {y}]
        /\ s \ {x} \in SUBSET S /\ s \ {y} \in SUBSET S /\ r \in SUBSET S
    BY <1>1, <2>2, Picked
  <2>4. x # y
    BY <2>2, <2>3
  <2>5. r = (s \ {y}) \ {x} /\ y \in s \ {x} /\ x \in s \ {y}
    BY <2>3, <2>4
  <2>6. f[s \ {x}] = g[y] + f[r] /\ f[s \ {y}] = g[x] + f[r]
    BY <2>1, <2>3, <2>5
  <2>7. g[x] \in Int /\ g[y] \in Int /\ f[r] \in Int
    <3>1. f \in [SUBSET S -> Int]
      BY AddsType
    <3> HIDE DEF y, r
    <3> QED
      BY <2>3, <3>1
  <2> HIDE DEF y, r
  <2> QED
    BY <2>2, <2>3, <2>6, <2>7
<1> QED
  BY <1>2

-----------------------------------------------------------------------------
Sum(g, S) == MapThenSumSet(LAMBDA x : g[x], S)

(* The sum is the one of the library. *)
LEMMA SumAdds ==
    ASSUME NEW S, IsFiniteSet(S), NEW g, \A x \in S : g[x] \in Int
    PROVE  \E f : Adds(f, g, S) /\ Sum(g, S) = f[S]
<1> DEFINE f == CHOOSE h : h = [s \in SUBSET S |-> IF s = {} THEN 0
                                ELSE g[CHOOSE x \in s : TRUE] + h[s \ {CHOOSE x \in s : TRUE}]]
<1>1. \E h : h = [s \in SUBSET S |-> IF s = {} THEN 0
                    ELSE g[CHOOSE x \in s : TRUE] + h[s \ {CHOOSE x \in s : TRUE}]]
  <2>1. PICK e : Adds(e, g, S)
    BY AddsExists
  <2> QED
    BY <2>1 DEF Adds, Pick
<1>2. f = [s \in SUBSET S |-> IF s = {} THEN 0
             ELSE g[CHOOSE x \in s : TRUE] + f[s \ {CHOOSE x \in s : TRUE}]]
  BY <1>1
<1>3. Sum(g, S) = f[S]
  BY DEF Sum, MapThenSumSet, MapThenFoldSet
<1>4. Adds(f, g, S)
  BY <1>2 DEF Adds, Pick
<1> QED
  BY <1>3, <1>4

(* The sum over no elements. *)
LEMMA SumEmpty == ASSUME NEW g PROVE Sum(g, {}) = 0
<1>1. IsFiniteSet({})
  BY FS_EmptySet
<1>2. PICK f : Adds(f, g, {}) /\ Sum(g, {}) = f[{}]
  BY <1>1, SumAdds
<1> QED
  BY <1>2 DEF Adds

LEMMA SumType ==
    ASSUME NEW S, IsFiniteSet(S), NEW g, \A x \in S : g[x] \in Int
    PROVE  Sum(g, S) \in Int
<1>1. PICK f : Adds(f, g, S) /\ Sum(g, S) = f[S]
  BY SumAdds
<1>2. f \in [SUBSET S -> Int]
  BY <1>1, AddsType
<1> QED
  BY <1>1, <1>2

(* A sum depends only on what it adds. *)
LEMMA SumSame ==
    ASSUME NEW S, IsFiniteSet(S), NEW g, NEW h, \A x \in S : g[x] \in Int /\ h[x] = g[x]
    PROVE  Sum(g, S) = Sum(h, S)
<1>1. PICK f : Adds(f, g, S) /\ Sum(g, S) = f[S]
  BY SumAdds
<1>2. PICK e : Adds(e, h, S) /\ Sum(h, S) = e[S]
  BY SumAdds
<1>3. \A s \in SUBSET S : f[s] = e[s]
  BY <1>1, <1>2, AddsAgree
<1> QED
  BY <1>1, <1>2, <1>3

(* Any element may be taken out of a sum first. *)
LEMMA SumTakes ==
    ASSUME NEW S, IsFiniteSet(S), NEW g, \A y \in S : g[y] \in Int, NEW x \in S
    PROVE  Sum(g, S) = g[x] + Sum(g, S \ {x})
<1>1. PICK f : Adds(f, g, S) /\ Sum(g, S) = f[S]
  BY SumAdds
<1>2. \A s \in SUBSET S : \A y \in s : f[s] = g[y] + f[s \ {y}]
  <2>1. ASSUME NEW s \in SUBSET S, NEW y \in s PROVE f[s] = g[y] + f[s \ {y}]
    BY <1>1, AddsTakes
  <2> QED
    BY <2>1
<1>3. f[S \ {x}] = Sum(g, S \ {x})
  <2> DEFINE T == S \ {x}
  <2>1. IsFiniteSet(T) /\ T \subseteq S
    BY FS_RemoveElement
  <2> HIDE DEF T
  <2>2. \A y \in T : g[y] \in Int
    BY <2>1
  <2>3. PICK e : Adds(e, g, T) /\ Sum(g, T) = e[T]
    BY <2>1, <2>2, SumAdds
  <2>4. \A s \in SUBSET T : e[s] = f[s]
    BY <1>1, <2>1, <2>3, AddsAgree
  <2> QED
    BY <2>3, <2>4 DEF T
<1> QED
  BY <1>1, <1>2, <1>3

(* One element more adds its value, wherever the library's order takes it: the *)
(* sums by which Betting states what a user's rows come to.                  *)
THEOREM SumOneMore ==
    ASSUME NEW S, IsFiniteSet(S), NEW x, x \notin S,
           NEW g, \A y \in S \union {x} : g[y] \in Int
    PROVE  Sum(g, S \union {x}) = g[x] + Sum(g, S)
<1> DEFINE R == S \union {x}
<1>1. IsFiniteSet(R)
  BY FS_AddElement
<1>2. x \in R /\ R \ {x} = S /\ \A y \in R : g[y] \in Int
  OBVIOUS
<1> HIDE DEF R
<1>3. Sum(g, R) = g[x] + Sum(g, R \ {x})
  BY <1>1, <1>2, SumTakes
<1> QED
  BY <1>2, <1>3 DEF R

=============================================================================
