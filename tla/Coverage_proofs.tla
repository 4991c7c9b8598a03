--------------------------- MODULE Coverage_proofs ---------------------------
(***************************************************************************)
(* Proofs that the statistics of a coverage group stay consistent, for any *)
(* groups, samples and sizes of the counters.                              *)
(***************************************************************************)
EXTENDS Coverage, PatternExecutor_proofs, FiniteSetTheorems

-----------------------------------------------------------------------------
(* The definition of a group                                               *)

LEMMA GroupFacts ==
  ASSUME group \in Groups
  PROVE  /\ Len(points) \in Nat \ {0} /\ Points = 1..Len(points)
         /\ Len(bins) \in Nat \ {0} /\ Bins = 1..Len(bins)
         /\ IsFiniteSet(Bins) /\ group.diagnostic_capacity \in Nat \ {0}
<1>1. /\ points # << >> /\ points \in Seq(Range(points))
      /\ bins # << >> /\ bins \in Seq(Range(bins)) /\ group.diagnostic_capacity \in Nat \ {0}
  BY GroupsAssumption DEF points, bins
<1>2. /\ Len(points) \in Nat \ {0} /\ Points = 1..Len(points)
  BY <1>1, LenProperties, EmptySeq DEF Points
<1>3. /\ Len(bins) \in Nat \ {0} /\ Bins = 1..Len(bins)
  BY <1>1, LenProperties, EmptySeq DEF Bins
<1>4. IsFiniteSet(Bins)
  BY <1>3, FS_Interval
<1> QED BY <1>1, <1>2, <1>3, <1>4

LEMMA PointFacts ==
  ASSUME group \in Groups, NEW p \in Points
  PROVE  /\ points[p].kind \in {"Value", "Pattern", "Cross"}
         /\ (points[p].kind = "Cross") = (points[p].dims # << >>)
         /\ Len(points[p].dims) \in Nat /\ DOMAIN points[p].dims = 1..Len(points[p].dims)
         /\ \A n \in 1..Len(points[p].dims) : points[p].dims[n] \in Points
<1>1. ValidPoint(group, p)
  BY GroupsAssumption DEF Points, points
<1>2. /\ points[p].kind \in {"Value", "Pattern", "Cross"} /\ points[p].dims \in Seq(Points)
      /\ (points[p].kind = "Cross") = (points[p].dims # << >>)
  BY <1>1 DEF ValidPoint, points, Points
<1> QED BY <1>2, LenProperties, ElementOfSeq

LEMMA BinFacts ==
  ASSUME group \in Groups, NEW b \in Bins
  PROVE  /\ PointOf(b) \in Points /\ bins[b].kind \in Kinds
         /\ IsPattern(b) => bins[b].kind # "Default"
         /\ ~IsPattern(b) => bins[b].terminals = {} /\ bins[b].program.kind # "Fsm"
         /\ IF IsPattern(b) \/ IsSequence(b)
            THEN ValidProgram(bins[b].program, bins[b].overlap, bins[b].max_active, Roots)
            ELSE bins[b].program.kind = "Expr"
<1>1. ValidBin(group, b)
  BY GroupsAssumption DEF Bins, bins
<1> QED BY <1>1 DEF ValidBin, points, Points, bins, Bins, PointOf, IsPattern, KindOf, IsSequence

LEMMA BinSets ==
  ASSUME group \in Groups, NEW S \in SUBSET Bins
  PROVE  /\ IsFiniteSet(S) /\ Cardinality(S) \in Nat
         /\ Cardinality(S) = 0 <=> S = {}
<1>1. IsFiniteSet(S)
  BY GroupFacts, FS_Subset
<1> QED BY <1>1, FS_CardinalityType, FS_EmptySet

-----------------------------------------------------------------------------
(* Cross points: the number of combinations is a product.                  *)
NextProduct(p, product, n) ==
  IF n = 0 THEN 1 ELSE Cardinality(Matched(points[p].dims[n])) * product[n - 1]

LEMMA ProductExists ==
  ASSUME NEW p, NEW n \in Nat
  PROVE  \E product : product = [k \in 0..n |-> NextProduct(p, product, k)]
<1> DEFINE Works(m) == \E product : product = [k \in 0..m |-> NextProduct(p, product, k)]
           Failing == {m \in Nat : ~Works(m)}
<1>1. SUFFICES ASSUME Failing # {} PROVE FALSE
  OBVIOUS
<1>2. PICK m \in Failing : \A k \in Failing : m <= k
  <2>1. Failing \in SUBSET Nat
    OBVIOUS
  <2> HIDE DEF Failing
  <2> QED BY <1>1, <2>1, LeastNumber
<1>3. m # 0
  <2> DEFINE one == [k \in 0..0 |-> 1]
  <2>1. one = [k \in 0..0 |-> NextProduct(p, one, k)]
    BY DEF NextProduct
  <2>2. Works(0)
    BY <2>1
  <2> QED BY <2>2
<1>4. PICK product : product = [k \in 0..m - 1 |-> NextProduct(p, product, k)]
  <2>1. m - 1 \in Nat /\ m - 1 \notin Failing
    BY <1>2, <1>3
  <2> QED BY <2>1
<1> DEFINE more == [k \in 0..m |-> NextProduct(p, product, k)]
<1>5. more = [k \in 0..m |-> NextProduct(p, more, k)]
  <2>1. \A k \in 0..m - 1 : more[k] = product[k]
    BY <1>4
  <2>2. ASSUME NEW k \in 0..m
        PROVE  NextProduct(p, product, k) = NextProduct(p, more, k)
    <3>1. k # 0 => more[k - 1] = product[k - 1]
      <4>1. k # 0 => k - 1 \in 0..m - 1
        OBVIOUS
      <4> QED BY <4>1, <2>1
    <3> HIDE DEF more
    <3> QED BY <3>1 DEF NextProduct
  <2> QED BY <2>2
<1> QED BY <1>5

LEMMA ProductIs ==
  ASSUME group \in Groups, NEW p \in Points, NEW n \in 0..Len(points[p].dims)
  PROVE  Products(p)[n] = NextProduct(p, Products(p), n)
<1> DEFINE len == Len(points[p].dims)
           P(product) == product = [k \in 0..len |-> NextProduct(p, product, k)]
           products == Products(p)
<1>1. P(products)
  <2>1. \E product : P(product)
    <3>1. len \in Nat
      BY PointFacts
    <3> HIDE DEF len
    <3> QED BY <3>1, ProductExists
  <2>2. products = CHOOSE product : P(product)
    BY Zenon DEF Products, NextProduct
  <2> HIDE DEF P, products
  <2> QED BY <2>1, <2>2
<1> HIDE DEF products
<1>2. products[n] = NextProduct(p, products, n)
  BY <1>1
<1> QED BY <1>2 DEF products

LEMMA MatchedTyped ==
  ASSUME NEW p
  PROVE  /\ Matched(p) \subseteq BinsOf(p) /\ Classified(p) \subseteq BinsOf(p)
         /\ BinsOf(p) \subseteq Bins
BY DEF Matched, Classified, Highest, BinsOf

LEMMA ProductTyped ==
  ASSUME group \in Groups, NEW p \in Points
  PROVE  /\ \A n \in 0..Len(points[p].dims) : Products(p)[n] \in Nat
         /\ Combinations(p) \in Nat
<1> DEFINE len == Len(points[p].dims)
           Failing == {n \in 0..len : Products(p)[n] \notin Nat}
<1>1. len \in Nat /\ \A n \in 1..len : points[p].dims[n] \in Points
  BY PointFacts
<1>2. Failing = {}
  <2>1. SUFFICES ASSUME Failing # {} PROVE FALSE
    OBVIOUS
  <2>2. PICK n \in Failing : \A k \in Failing : n <= k
    <3>1. Failing \in SUBSET Nat
      OBVIOUS
    <3> HIDE DEF Failing
    <3> QED BY <2>1, <3>1, LeastNumber
  <2>3. Products(p)[n] = NextProduct(p, Products(p), n)
    BY <2>2, ProductIs
  <2>4. n # 0
    BY <2>2, <2>3 DEF NextProduct
  <2>5. Products(p)[n - 1] \in Nat
    <3>1. n - 1 \in 0..len /\ n - 1 \notin Failing
      BY <1>1, <2>2, <2>4
    <3> QED BY <3>1
  <2>6. Cardinality(Matched(points[p].dims[n])) \in Nat
    BY MatchedTyped, BinSets
  <2> QED BY <2>2, <2>3, <2>4, <2>5, <2>6 DEF NextProduct
<1> QED BY <1>1, <1>2 DEF Combinations

(* Without an overflow the product is a counter's value.                   *)
LEMMA CombinationsFit ==
  ASSUME group \in Groups, NEW p \in Points, points[p].kind = "Cross", ~CrossOverflows(p)
  PROVE  Combinations(p) \in 0..MaxCounter
<1>1. /\ Len(points[p].dims) \in Nat /\ DOMAIN points[p].dims = 1..Len(points[p].dims)
      /\ points[p].dims # << >>
  BY PointFacts
<1>2. Len(points[p].dims) \in DOMAIN points[p].dims
  BY <1>1, EmptySeq
<1> QED BY <1>2, ProductTyped, BoundsAssumption DEF CrossOverflows, Combinations

-----------------------------------------------------------------------------
(* Matchers: attempts are named by finitely many numbers, so there is a    *)
(* number for the next one.                                                *)
LEMMA FiniteIsBounded ==
  ASSUME NEW S \in SUBSET Nat, IsFiniteSet(S)
  PROVE  \E n \in Nat : \A x \in S : x <= n
<1> DEFINE Bounded(T) == \E n \in Nat : \A x \in T : x <= n
           Failing == {k \in Nat : \E T \in SUBSET Nat : /\ IsFiniteSet(T) /\ Cardinality(T) = k
                                                         /\ ~Bounded(T)}
<1>1. Cardinality(S) \in Nat
  BY FS_CardinalityType
<1>2. Failing = {}
  <2>1. SUFFICES ASSUME Failing # {} PROVE FALSE
    OBVIOUS
  <2>2. PICK k \in Failing : \A j \in Failing : k <= j
    <3>1. Failing \in SUBSET Nat
      OBVIOUS
    <3> HIDE DEF Failing
    <3> QED BY <2>1, <3>1, LeastNumber
  <2>3. PICK T \in SUBSET Nat : IsFiniteSet(T) /\ Cardinality(T) = k /\ ~Bounded(T)
    BY <2>2
  <2>4. PICK x \in T : TRUE
    <3>1. Bounded({})
      OBVIOUS
    <3> HIDE DEF Bounded
    <3> QED BY <2>3, <3>1
  <2>5. IsFiniteSet(T \ {x}) /\ Cardinality(T \ {x}) = k - 1 /\ k # 0
    BY <2>3, <2>4, FS_RemoveElement, FS_EmptySet
  <2>6. Bounded(T \ {x})
    <3>1. k - 1 \in Nat /\ k - 1 \notin Failing
      BY <2>2, <2>5
    <3> HIDE DEF Bounded
    <3> QED BY <2>3, <2>5, <3>1
  <2>7. PICK n \in Nat : \A y \in T \ {x} : y <= n
    BY <2>6
  <2>8. x \in Nat
    BY <2>3, <2>4
  <2>9. CASE x <= n
    <3>1. \A y \in T : y <= n
      BY <2>7, <2>9
    <3> QED BY <2>3, <3>1
  <2>10. CASE ~(x <= n)
    <3>1. \A y \in T : y <= x
      BY <2>3, <2>7, <2>8, <2>10
    <3> QED BY <2>3, <2>8, <3>1
  <2> QED BY <2>9, <2>10
<1> QED BY <1>1, <1>2

HistoryOK(m) == /\ DOMAIN m.attempts \subseteq Nat \ {0} /\ IsFiniteSet(DOMAIN m.attempts)
                /\ m.last_condition \in BOOLEAN

LEMMA NextName ==
  ASSUME NEW limits, NEW m, HistoryOK(m)
  PROVE  /\ Matcher(limits, m)!now \in Nat \ {0}
         /\ Matcher(limits, m)!now \notin DOMAIN m.attempts
<1> DEFINE S == {0} \cup DOMAIN m.attempts
<1>1. S \in SUBSET Nat /\ IsFiniteSet(S) /\ S # {}
  <2>1. IsFiniteSet({0}) /\ IsFiniteSet(DOMAIN m.attempts)
    BY FS_Singleton DEF HistoryOK
  <2>2. IsFiniteSet(S)
    BY <2>1, FS_Union, Zenon
  <2> QED BY <2>2 DEF HistoryOK
<1> HIDE DEF S
<1>2. Max(S) \in S /\ \A x \in S : Max(S) >= x
  <2>1. PICK n \in Nat : \A x \in S : x <= n
    BY <1>1, FiniteIsBounded
  <2>2. \E x \in S : \A y \in S : x >= y
    BY <1>1, <2>1, GreatestNumber
  <2> QED BY <2>2 DEF Max
<1>3. Max(S) \in Nat
  BY <1>1, <1>2
<1>4. Len(Fresh(m)) = Max(S)
  BY <1>3 DEF Fresh, S
<1>5. Matcher(limits, m)!now = Max(S) + 1
  BY <1>4, Zenon DEF Matcher!now
<1>6. \A x \in DOMAIN m.attempts : Max(S) >= x /\ x \in Nat
  BY <1>2 DEF S, HistoryOK
<1> QED BY <1>3, <1>5, <1>6

LEMMA NoHistoryOK == HistoryOK(NoHistory)
BY EmptySeq, FS_EmptySet DEF HistoryOK, NoHistory

(* A sample leaves a matcher with a history.                               *)
LEMMA AdvancedOK ==
  ASSUME NEW limits, NEW m, HistoryOK(m)
  PROVE  HistoryOK(AdvanceMatcher(limits, m))
<1> DEFINE A == DOMAIN Matcher(limits, m)!Advanced(look.holds)
           now_ == Matcher(limits, m)!now
<1>1. A \subseteq DOMAIN m.attempts \cup {now_}
  <2>1. A = Matcher(limits, m)!ActiveAfter(look.holds)
    BY DEF Matcher!Advanced
  <2>2. Matcher(limits, m)!Kept(look.holds) \subseteq DOMAIN m.attempts
    BY DEF Matcher!Kept, Matcher!Ends, Matcher!Active
  <2> QED BY <2>1, <2>2, Zenon DEF Matcher!ActiveAfter
<1>2. IsFiniteSet(DOMAIN m.attempts \cup {now_})
  <2>1. IsFiniteSet({now_})
    BY FS_Singleton
  <2> QED BY <2>1, FS_Union DEF HistoryOK
<1>3. IsFiniteSet(A)
  BY <1>1, <1>2, FS_Subset
<1>4. A \subseteq Nat \ {0}
  BY <1>1, NextName DEF HistoryOK
<1> HIDE DEF A
<1>5. Matcher(limits, m)!Condition(look).previous \in BOOLEAN
  <2> DEFINE root == Matcher(limits, m)!Program.root
             previous == Matcher(limits, m)!Condition(look).previous
  <2>1. previous = IF root \in look.known THEN root \in look.holds ELSE m.last_condition
    BY Zenon DEF Matcher!Condition, Matcher!MatchCondition
  <2> HIDE DEF root, previous
  <2>2. (root \in look.holds) \in BOOLEAN /\ m.last_condition \in BOOLEAN
    BY DEF HistoryOK
  <2>3. ASSUME root \in look.known PROVE previous \in BOOLEAN
    BY <2>1, <2>2, <2>3, Zenon
  <2>4. ASSUME root \notin look.known PROVE previous \in BOOLEAN
    BY <2>1, <2>2, <2>4, Zenon
  <2> QED BY <2>3, <2>4, Zenon DEF previous
<1>6. CASE limits.program.kind = "Expr"
  <2>1. AdvanceMatcher(limits, m) =
          [attempts |-> m.attempts, last_condition |-> Matcher(limits, m)!Condition(look).previous]
    BY <1>6, Zenon DEF AdvanceMatcher
  <2> HIDE DEF AdvanceMatcher
  <2> QED BY <1>5, <2>1 DEF HistoryOK
<1>7. CASE limits.program.kind # "Expr"
  <2>1. AdvanceMatcher(limits, m) =
          [attempts |-> Matcher(limits, m)!Advanced(look.holds), last_condition |-> m.last_condition]
    BY <1>7, Zenon DEF AdvanceMatcher
  <2> QED BY <1>3, <1>4, <2>1 DEF HistoryOK, A
<1> QED BY <1>6, <1>7

(* The completions of a matcher are a number.                              *)
LEMMA OneTyped == \A x : One(x) \in {0, 1}
BY DEF One

LEMMA CompletedTyped ==
  ASSUME NEW limits, NEW m, HistoryOK(m), NEW terminals
  PROVE  Completed(limits, m, terminals) \in Nat
<1> DEFINE S == {i \in DOMAIN m.attempts :
                   Selected(Matcher(limits, m)!Result(i, look.holds), terminals)}
           b == Matcher(limits, m)!Starts(look.holds)
                  /\ Selected(Matcher(limits, m)!Candidate(look.holds), terminals)
           h == Matcher(limits, m)!Condition(look).hit
<1>1. S \in SUBSET DOMAIN m.attempts
  BY Zenon
<1>2. Cardinality(S) \in Nat
  <2> HIDE DEF S
  <2>1. IsFiniteSet(S)
    BY <1>1, FS_Subset DEF HistoryOK
  <2> QED BY <2>1, FS_CardinalityType
<1>3. One(h) \in {0, 1} /\ One(b) \in {0, 1}
  BY OneTyped, Zenon
<1>4. Completed(limits, m, terminals) =
        IF limits.program.kind = "Expr" THEN One(h) ELSE Cardinality(S) + One(b)
  BY Zenon DEF Completed
<1> HIDE DEF S, b, h
<1> QED BY <1>2, <1>3, <1>4

-----------------------------------------------------------------------------
(* What a sample adds to each counter                                      *)

HistoriesOK == HistoryOK(source) /\ DOMAIN matchers = Bins /\ \A b \in Bins : HistoryOK(matchers[b])

(* A bin and its owner run the same execution.                             *)
LEMMA OwnerFacts ==
  ASSUME group \in Groups, NEW b \in Bins
  PROVE  OwnerOf(b) \in Bins /\ SameCoverageExecution(OwnerOf(b), b)
<1>1. Bins = 1..Len(bins) /\ Len(bins) \in Nat
  BY GroupFacts
<1>2. SameCoverageExecution(b, b)
  BY DEF SameCoverageExecution
<1>3. CASE ~IsPattern(b)
  BY <1>2, <1>3 DEF OwnerOf
<1>4. CASE IsPattern(b)
  <2> DEFINE S == {a \in 1..b : SameCoverageExecution(a, b)}
  <2>1. b \in S /\ S \in SUBSET Nat
    BY <1>1, <1>2
  <2>2. \E a \in S : \A c \in S : a <= c
    <3> HIDE DEF S
    <3> QED BY <2>1, LeastNumber
  <2>3. Min(S) \in S
    <3> HIDE DEF S
    <3> QED BY <2>2 DEF Min
  <2>4. OwnerOf(b) = Min(S)
    BY <1>4 DEF OwnerOf
  <2> QED BY <1>1, <2>3, <2>4
<1> QED BY <1>3, <1>4

LEMMA CompletionsTyped ==
  ASSUME group \in Groups, HistoriesOK, NEW b \in Bins
  PROVE  Completions(b) \in Nat
BY OwnerFacts, CompletedTyped DEF Completions, HistoriesOK

LEMMA CountTyped ==
  ASSUME group \in Groups, HistoriesOK, NEW b \in Bins
  PROVE  /\ Count(b) \in Nat
         /\ Count(b) > 0 <=> b \in HitBins(PointOf(b))
<1>1. PointOf(b) \in Points
  BY BinFacts
<1>2. CASE IsPattern(b)
  <2>1. HitBins(PointOf(b)) = {c \in BinsOf(PointOf(b)) : Completions(c) > 0}
    BY <1>2 DEF HitBins, IsPattern, KindOf
  <2>2. b \in BinsOf(PointOf(b)) /\ Count(b) = Completions(b)
    BY <1>2 DEF BinsOf, PointOf, Count
  <2> QED BY <2>1, <2>2, CompletionsTyped
<1>3. CASE ~IsPattern(b)
  BY <1>3 DEF Count, One
<1> QED BY <1>2, <1>3

LEMMA HitBinsTyped ==
  ASSUME group \in Groups, NEW p \in Points
  PROVE  HitBins(p) \subseteq BinsOf(p) /\ HitBins(p) \in SUBSET Bins
<1>1. HitBins(p) \subseteq BinsOf(p)
  BY PointFacts, MatchedTyped DEF HitBins, CrossHits
<1> QED BY <1>1 DEF BinsOf

LEMMA UnmatchedTyped ==
  ASSUME group \in Groups, NEW p \in Points
  PROVE  /\ CrossUnmatched(p, HitBins(p)) \in 0..MaxCounter
         /\ points[p].kind = "Cross" /\ ~CrossOverflows(p) /\ HitBins(p) = {} =>
              CrossUnmatched(p, HitBins(p)) > 0
<1> DEFINE h == Cardinality(HitBins(p))
           c == Combinations(p)
           u == CrossUnmatched(p, HitBins(p))
<1>1. h \in Nat /\ (h = 0 <=> HitBins(p) = {}) /\ c \in Nat
  BY HitBinsTyped, BinSets, ProductTyped
<1>2. u = IF c = 0 THEN 1 ELSE (c - h) % (MaxCounter + 1)
  BY DEF CrossUnmatched
<1>3. points[p].kind = "Cross" /\ ~CrossOverflows(p) => c \in 0..MaxCounter
  BY CombinationsFit
<1> HIDE DEF h, c, u
<1>4. u \in 0..MaxCounter
  BY <1>1, <1>2, BoundsAssumption
<1>5. c \in 0..MaxCounter /\ h = 0 => u > 0
  <2> SUFFICES ASSUME c \in 0..MaxCounter, h = 0 PROVE u > 0
    OBVIOUS
  <2>1. c - h = c /\ c % (MaxCounter + 1) = c
    BY <1>1, BoundsAssumption
  <2> QED BY <1>1, <1>2, <2>1
<1> QED BY <1>1, <1>3, <1>4, <1>5 DEF h, c, u

LEMMA PointDeltaTyped ==
  ASSUME group \in Groups, NEW p \in Points
  PROVE  LET delta == PointDelta(p) IN
         /\ \A field \in Fields : delta[field] \in Nat
         /\ Eligible(p) => delta["samples"] = 1 /\ delta["gated"] = 0 /\ delta["unknown"] = 0
         /\ ~Eligible(p) => /\ delta["samples"] = 0 /\ delta["gated"] = 1
                            /\ delta["unknown"] <= 1 /\ delta["unmatched"] = 0
         /\ Eligible(p) /\ points[p].kind # "Cross" =>
              delta["unmatched"] = One(HitBins(p) = {})
         /\ Eligible(p) /\ points[p].kind = "Cross" =>
              delta["unmatched"] = CrossUnmatched(p, HitBins(p))
<1> DEFINE delta == PointDelta(p)
           ignored == {b \in HitBins(p) : bins[b].kind = "Ignore"}
<1>1. Cardinality(ignored) \in Nat
  BY HitBinsTyped, BinSets
<1>2. CrossUnmatched(p, HitBins(p)) \in Nat
  BY UnmatchedTyped, BoundsAssumption
<1>3. CASE Eligible(p)
  <2>1. delta = [samples |-> 1, gated |-> 0, unknown |-> 0,
                 ignored   |-> IF points[p].kind = "Cross" THEN Cardinality(ignored)
                               ELSE One(ignored # {}),
                 unmatched |-> IF points[p].kind = "Cross" THEN CrossUnmatched(p, HitBins(p))
                               ELSE One(HitBins(p) = {})]
    BY <1>3 DEF PointDelta, TakenDelta
  <2>2. One(ignored # {}) \in Nat /\ One(HitBins(p) = {}) \in Nat
    BY DEF One
  <2> HIDE DEF delta, ignored
  <2>3. /\ delta["samples"] = 1 /\ delta["gated"] = 0 /\ delta["unknown"] = 0
        /\ delta["ignored"] = IF points[p].kind = "Cross" THEN Cardinality(ignored)
                              ELSE One(ignored # {})
        /\ delta["unmatched"] = IF points[p].kind = "Cross" THEN CrossUnmatched(p, HitBins(p))
                                ELSE One(HitBins(p) = {})
    BY <2>1
  <2> QED BY <1>1, <1>2, <1>3, <2>2, <2>3 DEF Fields, delta
<1>4. CASE ~Eligible(p)
  <2>1. delta = [samples |-> 0, gated |-> 1, unknown |-> One(Open(p)), ignored |-> 0,
                 unmatched |-> 0]
    BY <1>4 DEF PointDelta, GatedDelta
  <2>2. One(Open(p)) \in {0, 1}
    BY DEF One
  <2> HIDE DEF delta
  <2>3. /\ delta["samples"] = 0 /\ delta["gated"] = 1 /\ delta["unknown"] \in {0, 1}
        /\ delta["ignored"] = 0 /\ delta["unmatched"] = 0
    BY <2>1, <2>2
  <2> QED BY <1>4, <2>3 DEF Fields, delta
<1> QED BY <1>3, <1>4

(* The names of the counters, and what a sample adds to each.              *)
LEMMA NameFacts ==
  ASSUME group \in Groups
  PROVE  /\ <<0, "samples">> \in Names /\ <<0, "gated">> \in Names
         /\ \A p \in Points : p # 0 /\ \A field \in Fields : <<p, field>> \in Names
         /\ \A b \in Bins : b # 0 /\ <<b, "count">> \in Names
         /\ \A name \in Names :
              \/ name = <<0, "samples">> \/ name = <<0, "gated">>
              \/ \E p \in Points, field \in Fields : name = <<p, field>>
              \/ \E b \in Bins : name = <<b, "count">>
BY GroupFacts DEF Names

LEMMA DeltaFacts ==
  ASSUME group \in Groups
  PROVE  /\ Delta[<<0, "samples">>] = One(GroupOpen) /\ Delta[<<0, "gated">>] = One(~GroupOpen)
         /\ \A p \in Points : \A field \in Fields :
              Delta[<<p, field>>] = IF GroupOpen THEN PointDelta(p)[field] ELSE 0
         /\ \A b \in Bins :
              Delta[<<b, "count">>] = IF GroupOpen /\ Eligible(PointOf(b)) THEN Count(b) ELSE 0
<1>1. ASSUME NEW name \in Names
      PROVE  Delta[name] =
               IF name[1] = 0 THEN One(name[2] = "samples" <=> GroupOpen)
               ELSE IF ~GroupOpen THEN 0
               ELSE IF name[2] = "count" THEN BinDelta(name[1]) ELSE PointDelta(name[1])[name[2]]
  BY Zenon DEF Delta
<1>2. Delta[<<0, "samples">>] = One(GroupOpen) /\ Delta[<<0, "gated">>] = One(~GroupOpen)
  <2>1. /\ Delta[<<0, "samples">>] = One("samples" = "samples" <=> GroupOpen)
        /\ Delta[<<0, "gated">>] = One("gated" = "samples" <=> GroupOpen)
    BY <1>1, NameFacts
  <2>2. GroupOpen \/ ~GroupOpen
    OBVIOUS
  <2> QED BY <2>1, <2>2 DEF One
<1>3. ASSUME NEW p \in Points, NEW field \in Fields
      PROVE  Delta[<<p, field>>] = IF GroupOpen THEN PointDelta(p)[field] ELSE 0
  <2>1. <<p, field>> \in Names /\ p # 0 /\ field # "count"
    BY NameFacts DEF Fields
  <2> QED BY <1>1, <2>1
<1>4. ASSUME NEW b \in Bins
      PROVE  Delta[<<b, "count">>] = IF GroupOpen /\ Eligible(PointOf(b)) THEN Count(b) ELSE 0
  BY <1>1, NameFacts DEF BinDelta
<1> QED BY <1>2, <1>3, <1>4

LEMMA DeltaTyped ==
  ASSUME group \in Groups, HistoriesOK
  PROVE  \A name \in Names : Delta[name] \in Nat
<1> TAKE name \in Names
<1>1. CASE name = <<0, "samples">> \/ name = <<0, "gated">>
  BY <1>1, DeltaFacts, OneTyped
<1>2. ASSUME NEW p \in Points, NEW field \in Fields, name = <<p, field>> PROVE Delta[name] \in Nat
  BY <1>2, DeltaFacts, PointDeltaTyped
<1>3. ASSUME NEW b \in Bins, name = <<b, "count">> PROVE Delta[name] \in Nat
  BY <1>3, DeltaFacts, CountTyped
<1> QED BY <1>1, <1>2, <1>3, NameFacts

-----------------------------------------------------------------------------
(* Types                                                                   *)
LEMMA Histories == TypeOK => HistoriesOK
BY DEF TypeOK, HistoriesOK, HistoryOK, Range

LEMMA GroupStays ==
  ASSUME [Next]_vars
  PROVE  /\ group' = group /\ points' = points /\ bins' = bins /\ Points' = Points /\ Bins' = Bins
         /\ Names' = Names /\ Transitions' = Transitions
<1>1. group' = group
  BY DEF Next, vars, Tick, Abort, AdvanceSource, EvaluateSource, SampleFails, SampleDoesNotFit,
         SampleCounts, Look, ResetHistory, ResetCounters, MayReset
<1>2. points' = points /\ bins' = bins
  BY <1>1 DEF points, bins
<1>3. Points' = Points /\ Bins' = Bins
  BY <1>2 DEF Points, Bins
<1>4. Names' = Names
  BY <1>3 DEF Names
<1>5. Transitions' = Transitions
  BY <1>2, <1>3 DEF Transitions, Adjacent, KindOf, PointOf, IsSequence
<1> QED BY <1>1, <1>2, <1>3, <1>4, <1>5

LEMMA LastOfTyped ==
  ASSUME NEW S, NEW s \in Seq(S), NEW n \in Nat
  PROVE  LastOf(s, n) \in Seq(S)
<1>1. Len(s) \in Nat
  BY LenProperties
<1> DEFINE first == IF Len(s) < n THEN 1 ELSE Len(s) - n + 1
<1>2. first \in 1..Len(s) + 1
  BY <1>1
<1> HIDE DEF first
<1>3. SubSeq(s, first, Len(s)) \in Seq(S)
  BY <1>1, <1>2, SubSeqProperties
<1> QED BY <1>3 DEF LastOf, first

(* Transitions are valid sequences that start with Wait.                   *)
LEMMA TransitionFacts ==
  ASSUME group \in Groups, NEW b \in Transitions
  PROVE  LET steps == bins[b].program.steps IN
         /\ b \in Bins /\ b \in Owners /\ OwnerOf(b) = b /\ PointOf(b) \in Points
         /\ steps \in Seq(SequenceStep(Roots)) /\ Len(steps) \in Nat \ {0}
         /\ DOMAIN steps = 1..Len(steps)
         /\ steps[1].kind = "Wait" /\ \A k \in 2..Len(steps) : steps[k].kind = "Next"
         /\ bins[b].program.kind = "Sequence" /\ bins[b].overlap /\ bins[b].terminals = {}
         /\ ~IsPattern(b) /\ KindOf(b) = "Value" /\ bins[b].kind # "Default"
<1> DEFINE steps == bins[b].program.steps
<1>1. /\ b \in Bins /\ KindOf(b) = "Value" /\ bins[b].kind # "Default"
      /\ bins[b].program.kind = "Sequence" /\ bins[b].overlap /\ Adjacent(b)
  BY DEF Transitions, IsSequence
<1>2. ~IsPattern(b) /\ OwnerOf(b) = b /\ b \in Owners
  BY <1>1 DEF IsPattern, OwnerOf, Owners
<1>3. ValidProgram(bins[b].program, bins[b].overlap, bins[b].max_active, Roots)
  BY <1>1, BinFacts DEF IsSequence
<1>4. steps \in Seq(SequenceStep(Roots)) /\ steps # << >> /\ steps[1].kind = "Wait"
  BY <1>1, <1>3 DEF ValidProgram, ValidSequence, ValidOverlap
<1>5. PointOf(b) \in Points /\ bins[b].terminals = {}
  BY <1>1, <1>2, BinFacts
<1>6. \A k \in 2..Len(steps) : steps[k].kind = "Next"
  BY <1>1 DEF Adjacent
<1> QED BY <1>1, <1>2, <1>4, <1>5, <1>6, LenProperties, EmptySeq

(* What is left of the histories and the samples seen after a look.        *)
LEMMA LookTyped ==
  ASSUME TypeOK, Look
  PROVE  /\ matchers' = [b \in Bins |-> AdvancedBin(b)] /\ \A b \in Bins : HistoryOK(AdvancedBin(b))
         /\ recent' \in [Transitions -> Seq(SUBSET Roots)]
         /\ source' = source /\ group' = group /\ epoch' = epoch /\ sampled' = sampled /\ ticks' = ticks
<1>1. group \in Groups /\ HistoriesOK /\ look.holds \in SUBSET Roots
  <2>1. look.holds \in SUBSET Roots
    BY LooksAssumption DEF TypeOK, Nothing
  <2> QED BY <2>1, Histories DEF TypeOK
<1>2. ASSUME NEW b \in Bins PROVE HistoryOK(AdvancedBin(b))
  BY <1>1, AdvancedOK, NoHistoryOK DEF AdvancedBin, HistoriesOK
<1>3. ASSUME NEW b \in Transitions PROVE Seen(b) \in Seq(SUBSET Roots)
  <2>1. recent[b] \in Seq(SUBSET Roots)
    BY DEF TypeOK
  <2>2. Append(recent[b], look.holds) \in Seq(SUBSET Roots)
    BY <1>1, <2>1, AppendProperties
  <2>3. Len(bins[b].program.steps) \in Nat
    BY <1>1, TransitionFacts
  <2>4. LastOf(Append(recent[b], look.holds), Len(bins[b].program.steps)) \in Seq(SUBSET Roots)
    BY <2>2, <2>3, LastOfTyped
  <2>5. << >> \in Seq(SUBSET Roots)
    BY EmptySeq
  <2> QED BY <2>1, <2>4, <2>5 DEF Seen
<1> QED BY <1>2, <1>3, Zenon DEF Look

(* Counting a sample: the counters and the record.                         *)
LEMMA ListingTyped ==
  ASSUME group \in Groups, NEW S \in SUBSET Bins, NEW list \in Listings(S)
  PROVE  list \in Seq(Bins) /\ Len(list) = Cardinality(S)
<1>1. Cardinality(S) \in Nat
  BY BinSets
<1>2. list \in [1..Cardinality(S) -> S]
  BY DEF Listings
<1> QED BY <1>1, <1>2

LEMMA CountsTyped ==
  ASSUME TypeOK, SampleCounts
  PROVE  /\ \A name \in Names : /\ counters'[name] = counters[name] + Delta[name]
                                /\ counters'[name] \in 0..MaxCounter
         /\ DOMAIN counters' = Names
         /\ \E list \in Listings(IllegalHits) : illegal' = illegal \o list
         /\ illegal' \in Seq(Bins)
<1>1. group \in Groups /\ HistoriesOK /\ counters \in [Names -> 0..MaxCounter] /\ illegal \in Seq(Bins)
  BY Histories DEF TypeOK
<1>2. /\ counters' = [name \in Names |-> (counters[name] + Delta[name]) % (MaxCounter + 1)]
      /\ \A name \in Names : MaxCounter - counters[name] >= Delta[name]
      /\ \E list \in Listings(IllegalHits) : illegal' = illegal \o list
  BY DEF SampleCounts, Fits
<1>3. ASSUME NEW name \in Names
      PROVE  /\ counters'[name] = counters[name] + Delta[name]
             /\ counters'[name] \in 0..MaxCounter
  <2> DEFINE sum == counters[name] + Delta[name]
  <2>1. sum \in 0..MaxCounter
    BY <1>1, <1>2, DeltaTyped, BoundsAssumption
  <2>2. counters'[name] = sum % (MaxCounter + 1)
    BY <1>2
  <2> HIDE DEF sum
  <2>3. counters'[name] = sum
    BY <2>1, <2>2, BoundsAssumption
  <2> QED BY <2>1, <2>3 DEF sum
<1>4. illegal' \in Seq(Bins)
  <2>1. PICK list \in Listings(IllegalHits) : illegal' = illegal \o list
    BY <1>2
  <2>2. list \in Seq(Bins)
    BY <1>1, ListingTyped DEF IllegalHits
  <2> QED BY <1>1, <2>1, <2>2, ConcatProperties
<1> QED BY <1>2, <1>3, <1>4

LEMMA ClearedTyped ==
  ASSUME group \in Groups, ClearHistory
  PROVE  /\ HistoryOK(source') /\ matchers' = [b \in Bins |-> NoHistory]
         /\ recent' \in [Transitions -> Seq(SUBSET Roots)]
<1>1. << >> \in Seq(SUBSET Roots)
  BY EmptySeq
<1> QED BY <1>1, NoHistoryOK DEF ClearHistory

LEMMA ResetTyped ==
  ASSUME group \in Groups, MayReset
  PROVE  /\ HistoryOK(source') /\ matchers' = [b \in Bins |-> NoHistory]
         /\ recent' \in [Transitions -> Seq(SUBSET Roots)]
         /\ UNCHANGED <<look, sampled, pending, ticks>>
BY ClearedTyped DEF MayReset

LEMMA ZeroTyped ==
  ZeroCounters \in [Names -> 0..MaxCounter] /\ \A name \in Names : ZeroCounters[name] = 0
BY BoundsAssumption DEF ZeroCounters

(* The parts of the type that actions may change, over the old definition. *)
Typed(src, mat, cnt, rec, ep, inc, lk, smp, pnd, tck, rct) ==
  /\ HistoryOK(src) /\ DOMAIN mat = Bins /\ \A b \in Bins : HistoryOK(mat[b])
  /\ cnt \in [Names -> 0..MaxCounter] /\ rec \in Seq(Bins)
  /\ ep \in 0..MaxEpoch /\ inc \in BOOLEAN
  /\ lk \in Looks \cup {Nothing} /\ smp \in BOOLEAN /\ pnd \in Nat /\ tck \in 0..MaxTicks
  /\ rct \in [Transitions -> Seq(SUBSET Roots)]

LEMMA TypedNow ==
  TypeOK => Typed(source, matchers, counters, illegal, epoch, incomplete, look, sampled, pending,
                  ticks, recent)
BY Histories, Zenon DEF TypeOK, HistoriesOK, Typed

LEMMA NextTyped ==
  ASSUME TypeOK, [Next]_vars
  PROVE  Typed(source', matchers', counters', illegal', epoch', incomplete', look', sampled',
               pending', ticks', recent')
<1>1. /\ group \in Groups
      /\ Typed(source, matchers, counters, illegal, epoch, incomplete, look, sampled, pending,
               ticks, recent)
  BY TypedNow DEF TypeOK
<1>2. MaxEpoch \in Nat /\ MaxTicks \in Nat
  BY BoundsAssumption
<1>3. CASE Tick
  <2>1. look' \in Looks \cup {Nothing} /\ sampled' \in BOOLEAN /\ ticks' \in 0..MaxTicks
    <3>1. ticks \in 0..MaxTicks /\ ticks < MaxTicks /\ ticks' = ticks + 1
      BY <1>1, <1>3 DEF Tick, Typed
    <3>2. ticks' \in 0..MaxTicks
      BY <1>2, <3>1
    <3> QED BY <1>3, <3>2 DEF Tick
  <2> QED BY <1>1, <1>3, <2>1, Zenon DEF Tick, Typed
<1>4. CASE Abort
  <2>1. ClearHistory
    BY <1>4 DEF Abort
  <2> QED BY <1>1, <1>4, <2>1, ClearedTyped, NoHistoryOK DEF Abort, BeginSample, Rest, Typed
<1>5. CASE AdvanceSource
  <2>1. HistoryOK(source) /\ Completed(group.source, source, {}) \in Nat
    BY <1>1, CompletedTyped DEF Typed
  <2>2. HistoryOK(source') /\ pending' \in Nat
    BY <1>5, <2>1, AdvancedOK DEF AdvanceSource
  <2>3. Exhausted(group.source, source) \in BOOLEAN
    BY DEF Exhausted
  <2> QED BY <1>1, <1>5, <2>2, <2>3 DEF AdvanceSource, BeginSample, Rest, Typed
<1>6. ASSUME NEW found \in 0..1, EvaluateSource(found)
      PROVE  Typed(source', matchers', counters', illegal', epoch', incomplete', look', sampled',
                   pending', ticks', recent')
  BY <1>1, <1>6 DEF EvaluateSource, BeginSample, Rest, Typed
<1>7. ASSUME Look, counters' \in [Names -> 0..MaxCounter], illegal' \in Seq(Bins),
             incomplete' \in BOOLEAN, pending' \in Nat
      PROVE  Typed(source', matchers', counters', illegal', epoch', incomplete', look', sampled',
                   pending', ticks', recent')
  <2>1. look' \in {look, Nothing}
    BY <1>7 DEF Look, Rest
  <2>2. /\ matchers' = [b \in Bins |-> AdvancedBin(b)] /\ \A b \in Bins : HistoryOK(AdvancedBin(b))
        /\ recent' \in [Transitions -> Seq(SUBSET Roots)]
        /\ source' = source /\ epoch' = epoch /\ sampled' = sampled /\ ticks' = ticks
    BY <1>7, LookTyped
  <2>3. DOMAIN matchers' = Bins /\ \A b \in Bins : HistoryOK(matchers'[b])
    BY <2>2
  <2> QED BY <1>1, <1>7, <2>1, <2>2, <2>3, Zenon DEF Typed
<1>8. CASE SampleFails
  <2>1. FailsInMatcher \in BOOLEAN
    BY DEF FailsInMatcher
  <2> QED BY <1>1, <1>7, <1>8, <2>1 DEF SampleFails, Typed
<1>9. CASE SampleDoesNotFit
  BY <1>1, <1>7, <1>9 DEF SampleDoesNotFit, Typed
<1>10. CASE SampleCounts
  <2>1. illegal' \in Seq(Bins) /\ counters' \in [Names -> 0..MaxCounter]
    <3>1. counters' = [name \in Names |-> (counters[name] + Delta[name]) % (MaxCounter + 1)]
      BY <1>10 DEF SampleCounts
    <3>2. \A name \in Names : counters'[name] \in 0..MaxCounter
      BY <1>10, CountsTyped
    <3>3. counters' \in [Names -> 0..MaxCounter]
      BY <3>1, <3>2
    <3> QED BY <1>10, <3>3, CountsTyped
  <2>2. pending' \in Nat /\ Look /\ incomplete' = incomplete
    BY <1>1, <1>10 DEF SampleCounts, Look, Typed
  <2> QED BY <1>1, <1>7, <2>1, <2>2 DEF Typed
<1>11. CASE ResetHistory
  BY <1>1, <1>11, ResetTyped, NoHistoryOK DEF ResetHistory, Typed
<1>12. CASE ResetCounters
  <2>1. epoch' \in 0..MaxEpoch /\ incomplete' \in BOOLEAN
    <3>1. epoch \in 0..MaxEpoch /\ epoch < MaxEpoch /\ epoch' = epoch + 1
      BY <1>1, <1>12 DEF ResetCounters, Typed
    <3>2. epoch' \in 0..MaxEpoch
      BY <1>2, <3>1
    <3> QED BY <1>12, <3>2 DEF ResetCounters
  <2>2. counters' \in [Names -> 0..MaxCounter] /\ illegal' \in Seq(Bins)
    BY <1>12, ZeroTyped, EmptySeq DEF ResetCounters
  <2>3. MayReset
    BY <1>12 DEF ResetCounters
  <2> QED BY <1>1, <2>1, <2>2, <2>3, ResetTyped, NoHistoryOK DEF Typed
<1>13. CASE UNCHANGED vars
  BY <1>1, <1>13, Zenon DEF vars
<1> QED BY <1>3, <1>4, <1>5, <1>6, <1>8, <1>9, <1>10, <1>11, <1>12, <1>13 DEF Next

LEMMA NextTypeOK == TypeOK /\ [Next]_vars => TypeOK'
<1> SUFFICES ASSUME TypeOK, [Next]_vars PROVE TypeOK'
  OBVIOUS
<1>1. /\ group' = group /\ Bins' = Bins /\ Names' = Names /\ Transitions' = Transitions
      /\ group \in Groups
  BY GroupStays DEF TypeOK
<1>2. Typed(source', matchers', counters', illegal', epoch', incomplete', look', sampled',
            pending', ticks', recent')
  BY NextTyped
<1>3. \A m \in {source'} \cup Range(matchers') : HistoryOK(m)
  BY <1>2 DEF Typed, Range
<1> QED BY <1>1, <1>2, <1>3 DEF TypeOK, Typed, HistoryOK, Range

LEMMA InitTypeOK == Init => TypeOK
<1> SUFFICES ASSUME Init PROVE TypeOK
  OBVIOUS
<1>1. /\ group \in Groups /\ source = NoHistory /\ matchers = [b \in Bins |-> NoHistory]
      /\ illegal = << >> /\ illegal \in Seq(Bins)
      /\ epoch = 0 /\ incomplete = FALSE
  BY EmptySeq DEF Init
<1>2. \A m \in {source} \cup Range(matchers) : HistoryOK(m)
  BY <1>1, NoHistoryOK DEF Range
<1>3. counters \in [Names -> 0..MaxCounter]
  BY ZeroTyped DEF Init
<1>4. recent \in [Transitions -> Seq(SUBSET Roots)]
  <2>1. << >> \in Seq(SUBSET Roots)
    BY EmptySeq
  <2> QED BY <2>1 DEF Init
<1>5. look \in Looks \cup {Nothing} /\ sampled \in BOOLEAN /\ pending \in Nat /\ ticks \in 0..MaxTicks
  BY BoundsAssumption DEF Init
<1>6. DOMAIN matchers = Bins /\ incomplete \in BOOLEAN
  BY <1>1
<1>7. epoch \in 0..MaxEpoch
  BY <1>1, BoundsAssumption
<1> QED BY <1>1, <1>2, <1>3, <1>4, <1>5, <1>6, <1>7, Zenon DEF TypeOK, HistoryOK

(* The variables keep their types; no counter leaves its range, and the    *)
(* attempts of a matcher stay finitely many.  (CoverageState.)             *)
THEOREM TypeCorrect == Spec => []TypeOK
BY InitTypeOK, NextTypeOK, PTL DEF Spec

-----------------------------------------------------------------------------
(* Only a counted sample and a reset touch the counters and the record.    *)
LEMMA CounterSteps ==
  ASSUME [Next]_vars
  PROVE  SampleCounts \/ ResetCounters \/ UNCHANGED <<counters, illegal, epoch>>
BY DEF Next, vars, Tick, Abort, ClearHistory, AdvanceSource, EvaluateSource, SampleFails,
       SampleDoesNotFit, Look, ResetHistory, MayReset

LEMMA ResetsCounters ==
  ASSUME TypeOK, ResetCounters
  PROVE  /\ \A name \in Names : counters'[name] = 0
         /\ illegal' = << >> /\ epoch' = epoch + 1
BY ZeroTyped DEF ResetCounters

(* Numbers that every counter's value is among.                            *)
LEMMA CounterTyped ==
  TypeOK => \A name \in Names : counters[name] \in Nat /\ counters[name] <= MaxCounter
BY BoundsAssumption DEF TypeOK

-----------------------------------------------------------------------------
(* Every point accounts for every sample                                   *)

LEMMA MarksFinite ==
  ASSUME group \in Groups, NEW p
  PROVE  /\ IsFiniteSet(BinsOf(p) \X (1..MaxCounter))
         /\ IsFiniteSet(Marks(p)) /\ Cardinality(Marks(p)) \in Nat
<1>1. IsFiniteSet(BinsOf(p)) /\ IsFiniteSet(1..MaxCounter)
  BY MatchedTyped, BinSets, FS_Interval, BoundsAssumption
<1>2. IsFiniteSet(BinsOf(p) \X (1..MaxCounter))
  BY <1>1, FS_Product
<1>3. Marks(p) \subseteq BinsOf(p) \X (1..MaxCounter)
  BY DEF Marks
<1> QED BY <1>2, <1>3, FS_Subset, FS_CardinalityType

(* The hits a point has counted only grow, and a hit adds one to them.     *)
LEMMA MarksGrow ==
  ASSUME TypeOK, [Next]_vars, SampleCounts, NEW p \in Points
  PROVE  /\ Cardinality(Marks(p)') \in Nat /\ Cardinality(Marks(p)) \in Nat
         /\ Cardinality(Marks(p)) <= Cardinality(Marks(p)')
         /\ GroupOpen /\ Eligible(p) /\ HitBins(p) # {} =>
              Cardinality(Marks(p)) + 1 <= Cardinality(Marks(p)')
<1> DEFINE All == BinsOf(p) \X (1..MaxCounter)
           old == Marks(p)
           new == {mark \in All : mark[2] <= counters'[<<mark[1], "count">>]}
<1>1. group \in Groups /\ HistoriesOK
  BY Histories DEF TypeOK
<1>2. Marks(p)' = new
  BY GroupStays DEF Marks, BinsOf
<1>3. ASSUME NEW b \in Bins
      PROVE  /\ <<b, "count">> \in Names /\ Delta[<<b, "count">>] \in Nat
             /\ counters'[<<b, "count">>] = counters[<<b, "count">>] + Delta[<<b, "count">>]
             /\ counters'[<<b, "count">>] \in 0..MaxCounter
             /\ counters[<<b, "count">>] \in 0..MaxCounter
  BY <1>1, NameFacts, CountsTyped, DeltaTyped DEF TypeOK
<1>4. old \subseteq new
  <2> SUFFICES ASSUME NEW mark \in old PROVE mark \in new
    OBVIOUS
  <2>1. mark \in All /\ mark[2] <= counters[<<mark[1], "count">>] /\ mark[1] \in Bins
        /\ mark[2] \in 1..MaxCounter
    BY MatchedTyped DEF Marks
  <2>2. mark[2] <= counters'[<<mark[1], "count">>]
    BY <1>3, <2>1, BoundsAssumption
  <2> QED BY <2>1, <2>2
<1>5. IsFiniteSet(new) /\ IsFiniteSet(old)
  <2>1. new \subseteq All
    OBVIOUS
  <2> HIDE DEF new, old
  <2> QED BY <1>1, <2>1, MarksFinite, FS_Subset DEF old
<1>6. ASSUME GroupOpen, Eligible(p), HitBins(p) # {}
      PROVE  \E mark \in new : mark \notin old
  <2>1. PICK b \in HitBins(p) : TRUE
    BY <1>6
  <2>2. b \in Bins /\ PointOf(b) = p /\ b \in BinsOf(p)
    BY <1>1, HitBinsTyped DEF BinsOf, PointOf
  <2>3. Delta[<<b, "count">>] > 0
    BY <1>1, <1>6, <2>1, <2>2, DeltaFacts, CountTyped
  <2> DEFINE c == counters'[<<b, "count">>]
  <2>4. c \in 1..MaxCounter /\ ~(c <= counters[<<b, "count">>])
    BY <1>3, <2>2, <2>3, BoundsAssumption
  <2>5. <<b, c>> \in new /\ <<b, c>> \notin old
    <3>1. c <= c
      BY <2>4
    <3> HIDE DEF c
    <3>2. <<b, c>> \in All /\ <<b, c>>[1] = b /\ <<b, c>>[2] = c
      BY <2>2, <2>4
    <3> QED BY <2>4, <3>1, <3>2 DEF Marks, c
  <2> QED BY <2>5
<1> HIDE DEF old, new, All
<1>7. Cardinality(new) \in Nat /\ Cardinality(old) \in Nat /\ Cardinality(old) <= Cardinality(new)
  BY <1>4, <1>5, FS_CardinalityType, FS_Subset
<1>8. ASSUME GroupOpen, Eligible(p), HitBins(p) # {}
      PROVE  Cardinality(old) + 1 <= Cardinality(new)
  <2>1. old # new
    BY <1>6, <1>8
  <2>2. Cardinality(old) # Cardinality(new)
    BY <1>4, <1>5, <2>1, FS_Subset
  <2> QED BY <1>7, <2>2
<1> QED BY <1>2, <1>7, <1>8 DEF old

(* The account of one point, and what a sample adds to it.                 *)
Accounts(p, cnt, marks) ==
  /\ cnt[<<0, "samples">>] = cnt[<<p, "samples">>] + cnt[<<p, "gated">>]
  /\ cnt[<<p, "unknown">>] <= cnt[<<p, "gated">>]
  /\ cnt[<<p, "samples">>] <= cnt[<<p, "unmatched">>] + Cardinality(marks)
  /\ points[p].kind # "Cross" => cnt[<<p, "unmatched">>] <= cnt[<<p, "samples">>]

LEMMA SampleAccounts ==
  ASSUME TypeOK, [Next]_vars, SampleCounts, NEW p \in Points, Accounts(p, counters, Marks(p))
  PROVE  Accounts(p, counters', Marks(p)')
<1> DEFINE ofGroup == <<0, "samples">>
           of(field) == <<p, field>>
           delta == PointDelta(p)
           old == Cardinality(Marks(p))
           new == Cardinality(Marks(p)')
<1>1. group \in Groups /\ HistoriesOK
  BY Histories DEF TypeOK
<1>2. /\ ofGroup \in Names /\ \A field \in Fields : of(field) \in Names
      /\ {"samples", "gated", "unmatched", "unknown"} \subseteq Fields
  BY <1>1, NameFacts DEF Fields
<1>3. \A name \in Names : /\ counters'[name] = counters[name] + Delta[name]
                          /\ counters[name] \in Nat /\ Delta[name] \in Nat
  BY <1>1, CountsTyped, CounterTyped, DeltaTyped
<1>4. /\ Delta[ofGroup] = One(GroupOpen)
      /\ \A field \in Fields : Delta[of(field)] = IF GroupOpen THEN delta[field] ELSE 0
  BY <1>1, DeltaFacts
<1>5. GroupOpen /\ Eligible(p) => ~CrossOverflows(p)
  <2> SUFFICES ASSUME GroupOpen, Eligible(p), CrossOverflows(p) PROVE FALSE
    OBVIOUS
  <2>1. <<p, 0>> \in Failures
    BY DEF Failures
  <2>2. ~(GroupOpen /\ Failures # {})
    BY DEF SampleCounts, Fails
  <2>3. Failures # {}
    BY <2>1
  <2> QED BY <2>2, <2>3, Zenon
<1>6. /\ \A field \in Fields : delta[field] \in Nat
      /\ Eligible(p) => delta["samples"] = 1 /\ delta["gated"] = 0 /\ delta["unknown"] = 0
      /\ ~Eligible(p) => /\ delta["samples"] = 0 /\ delta["gated"] = 1
                         /\ delta["unknown"] <= 1 /\ delta["unmatched"] = 0
      /\ GroupOpen /\ Eligible(p) => delta["unmatched"] > 0 \/ HitBins(p) # {}
      /\ Eligible(p) /\ points[p].kind # "Cross" => delta["unmatched"] <= 1
  <2>1. ASSUME Eligible(p), points[p].kind # "Cross"
        PROVE  /\ delta["unmatched"] = One(HitBins(p) = {})
               /\ delta["unmatched"] <= 1 /\ (delta["unmatched"] > 0 \/ HitBins(p) # {})
    BY <1>1, <2>1, PointDeltaTyped DEF One
  <2>2. ASSUME GroupOpen, Eligible(p), points[p].kind = "Cross"
        PROVE  delta["unmatched"] > 0 \/ HitBins(p) # {}
    BY <1>1, <1>5, <2>2, PointDeltaTyped, UnmatchedTyped
  <2> QED BY <1>1, <2>1, <2>2, PointDeltaTyped
<1>7. /\ old \in Nat /\ new \in Nat /\ old <= new
      /\ GroupOpen /\ Eligible(p) /\ HitBins(p) # {} => old + 1 <= new
  BY MarksGrow
<1> HIDE DEF old, new, delta
<1>8. CASE ~GroupOpen
  <2>1. \A field \in Fields : counters'[of(field)] = counters[of(field)]
    BY <1>2, <1>3, <1>4, <1>8
  <2>2. counters'[ofGroup] = counters[ofGroup]
    BY <1>2, <1>3, <1>4, <1>8 DEF One
  <2> QED BY <1>2, <1>3, <1>7, <2>1, <2>2 DEF Accounts, old, new
<1>9. CASE GroupOpen
  <2>1. \A field \in Fields : counters'[of(field)] = counters[of(field)] + delta[field]
    BY <1>2, <1>3, <1>4, <1>9
  <2>2. counters'[ofGroup] = counters[ofGroup] + 1
    BY <1>2, <1>3, <1>4, <1>9 DEF One
  <2>3. /\ \A field \in Fields : counters[of(field)] \in Nat
        /\ counters[ofGroup] \in Nat
    BY <1>2, <1>3
  <2> HIDE DEF of, ofGroup
  <2>4. CASE Eligible(p)
    <3>1. /\ counters'[of("samples")] = counters[of("samples")] + 1
          /\ counters'[of("gated")] = counters[of("gated")]
          /\ counters'[of("unknown")] = counters[of("unknown")]
          /\ counters'[of("unmatched")] = counters[of("unmatched")] + delta["unmatched"]
          /\ delta["unmatched"] \in Nat
      BY <1>2, <1>6, <2>1, <2>3, <2>4
    <3>2. delta["unmatched"] > 0 \/ old + 1 <= new
      BY <1>6, <1>7, <1>9, <2>4
    <3> QED BY <1>2, <1>6, <1>7, <2>2, <2>3, <2>4, <3>1, <3>2 DEF Accounts, old, new, of, ofGroup
  <2>5. CASE ~Eligible(p)
    <3>1. /\ counters'[of("samples")] = counters[of("samples")]
          /\ counters'[of("gated")] = counters[of("gated")] + 1
          /\ counters'[of("unknown")] = counters[of("unknown")] + delta["unknown"]
          /\ counters'[of("unmatched")] = counters[of("unmatched")]
          /\ delta["unknown"] \in Nat /\ delta["unknown"] <= 1
      BY <1>2, <1>6, <2>1, <2>3, <2>5
    <3> QED BY <1>2, <1>7, <2>2, <2>3, <3>1 DEF Accounts, old, new, of, ofGroup
  <2> QED BY <2>4, <2>5
<1> QED BY <1>8, <1>9

(* Counters that are all 0 account for no sample.                          *)
LEMMA ZeroAccounts ==
  ASSUME group \in Groups, NEW p \in Points, NEW cnt, \A name \in Names : cnt[name] = 0
  PROVE  Accounts(p, cnt, {})
<1>1. /\ <<0, "samples">> \in Names
      /\ \A field \in Fields : <<p, field>> \in Names
      /\ {"samples", "gated", "unmatched", "unknown"} \subseteq Fields
  BY NameFacts DEF Fields
<1> QED BY <1>1, FS_EmptySet DEF Accounts

LEMMA NoMarks ==
  ASSUME group \in Groups, NEW p \in Points, \A name \in Names : counters[name] = 0
  PROVE  Marks(p) = {}
BY NameFacts DEF Marks, BinsOf

(* Every point accounts for every sample of the group, however the samples *)
(* are gated, unknown, unmatched or raise: CoverageState::Sample updates   *)
(* the counters of all points together or not at all.                      *)
THEOREM SamplesAccounted == Spec => []PointsAccountForSamples
<1> DEFINE Inv == \A p \in Points : Accounts(p, counters, Marks(p))
<1>1. Init => Inv
  <2> SUFFICES ASSUME Init, NEW p \in Points PROVE Accounts(p, counters, Marks(p))
    OBVIOUS
  <2>1. group \in Groups /\ \A name \in Names : counters[name] = 0
    BY ZeroTyped DEF Init
  <2> QED BY <2>1, ZeroAccounts, NoMarks
<1>2. TypeOK /\ Inv /\ [Next]_vars => Inv'
  <2> SUFFICES ASSUME TypeOK, Inv, [Next]_vars, NEW p \in Points
               PROVE  Accounts(p, counters', Marks(p)')
    BY GroupStays DEF Accounts
  <2>1. Accounts(p, counters, Marks(p)) /\ group \in Groups
    BY DEF TypeOK
  <2>2. CASE SampleCounts
    BY <2>1, <2>2, SampleAccounts
  <2>3. CASE ResetCounters
    <3>1. \A name \in Names : counters'[name] = 0
      BY <2>3, ResetsCounters
    <3>2. Marks(p)' = {}
      BY <2>1, <3>1, GroupStays, NameFacts DEF Marks, BinsOf
    <3> QED BY <2>1, <3>1, <3>2, ZeroAccounts
  <2>4. CASE UNCHANGED <<counters, illegal, epoch>>
    <3>1. counters' = counters /\ Marks(p)' = Marks(p)
      BY <2>4, GroupStays DEF Marks, BinsOf
    <3> QED BY <2>1, <3>1
  <2> QED BY <2>2, <2>3, <2>4, CounterSteps
<1>3. Inv => PointsAccountForSamples
  BY DEF Accounts, PointsAccountForSamples
<1> QED BY <1>1, <1>2, <1>3, TypeCorrect, PTL DEF Spec

-----------------------------------------------------------------------------
(* Illegal bins are on record                                              *)

At(s, b) == {i \in DOMAIN s : s[i] = b}

(* A listing of a set has each of its members once.                        *)
ListsOnce(list, S) ==
  /\ \A k, j \in 1..Cardinality(S) : list[k] = list[j] => k = j
  /\ \A b \in S : \E k \in 1..Cardinality(S) : list[k] = b

LEMMA ListingIsBijective ==
  ASSUME group \in Groups, NEW S \in SUBSET Bins, NEW list \in Listings(S)
  PROVE  ListsOnce(list, S)
<1> DEFINE n == Cardinality(S)
<1>1. n \in Nat /\ IsFiniteSet(S) /\ S \subseteq Nat
  BY BinSets, GroupFacts
<1>2. /\ list \in [1..n -> S] /\ DOMAIN list = 1..n
      /\ \A k, j \in 1..n : k < j => list[k] < list[j]
  BY DEF Listings
<1> HIDE DEF n
<1>3. ASSUME NEW k \in 1..n, NEW j \in 1..n, list[k] = list[j] PROVE k = j
  <2>1. list[k] \in Nat /\ list[j] \in Nat
    BY <1>1, <1>2
  <2> QED BY <1>1, <1>2, <1>3, <2>1
<1>4. list \in Injection(1..n, S)
  BY <1>2, <1>3 DEF Injection, IsInjective
<1>5. Cardinality(1..n) = Cardinality(S)
  BY <1>1, FS_Interval DEF n
<1>6. list \in Surjection(1..n, S)
  BY <1>1, <1>4, <1>5, FS_Injection
<1> QED BY <1>3, <1>6 DEF Surjection, ListsOnce, n

LEMMA RecordsTyped ==
  ASSUME NEW s \in Seq(Bins), NEW b
  PROVE  /\ IsFiniteSet(At(s, b)) /\ Cardinality(At(s, b)) \in Nat
         /\ At(s, b) \subseteq 1..Len(s)
<1>1. Len(s) \in Nat /\ DOMAIN s = 1..Len(s)
  BY LenProperties
<1>2. At(s, b) \subseteq 1..Len(s) /\ IsFiniteSet(1..Len(s))
  BY <1>1, FS_Interval DEF At
<1> QED BY <1>2, FS_Subset, FS_CardinalityType

(* Appending a listing puts its members on record once more.               *)
LEMMA RecordsGrow ==
  ASSUME group \in Groups, NEW s \in Seq(Bins), NEW S \in SUBSET Bins, NEW list \in Listings(S),
         NEW b \in Bins
  PROVE  Cardinality(At(s \o list, b)) = Cardinality(At(s, b)) + One(b \in S)
<1> DEFINE n == Len(s)
           m == Cardinality(S)
           t == s \o list
<1>1. n \in Nat /\ m \in Nat /\ list \in Seq(Bins) /\ Len(list) = m /\ DOMAIN s = 1..n
  BY ListingTyped, LenProperties, BinSets
<1>2. /\ t \in Seq(Bins) /\ Len(t) = n + m /\ DOMAIN t = 1..n + m
      /\ \A i \in 1..n : t[i] = s[i]
      /\ \A k \in 1..m : t[n + k] = list[k]
  <2>1. t \in Seq(Bins) /\ Len(t) = n + m
    BY <1>1, ConcatProperties
  <2>2. /\ \A i \in 1..n : t[i] = s[i]
        /\ \A k \in 1..m : t[n + k] = list[k]
    BY <1>1
  <2> QED BY <2>1, <2>2, LenProperties
<1>3. /\ \A k \in 1..m : list[k] \in S
      /\ \A k, j \in 1..m : list[k] = list[j] => k = j
      /\ b \in S => \E k \in 1..m : list[k] = b
  <2>1. list \in [1..m -> S]
    BY DEF Listings
  <2>2. \A k \in 1..m : list[k] \in S
    BY <2>1
  <2>3. ListsOnce(list, S)
    BY ListingIsBijective
  <2> QED BY <2>2, <2>3 DEF ListsOnce
<1> HIDE DEF n, m, t
<1>4. CASE b \notin S
  <2>1. At(t, b) = At(s, b)
    <3>1. ASSUME NEW i \in At(t, b) PROVE i \in At(s, b)
      <4>1. i \in 1..n + m /\ t[i] = b
        BY <1>2 DEF At
      <4>2. i \in 1..n
        <5>1. SUFFICES ASSUME i > n PROVE FALSE
          BY <1>1, <4>1
        <5>2. i - n \in 1..m /\ i = n + (i - n)
          BY <1>1, <4>1, <5>1
        <5>3. t[i] = list[i - n]
          BY <1>2, <5>2
        <5> QED BY <1>3, <1>4, <4>1, <5>2, <5>3
      <4> QED BY <1>1, <1>2, <4>1, <4>2 DEF At
    <3>2. ASSUME NEW i \in At(s, b) PROVE i \in At(t, b)
      <4>1. i \in 1..n /\ s[i] = b
        BY <1>1 DEF At
      <4>2. i \in 1..n + m
        BY <1>1, <4>1
      <4> QED BY <1>2, <4>1, <4>2 DEF At
    <3> QED BY <3>1, <3>2
  <2> QED BY <1>4, <2>1, RecordsTyped DEF One, t
<1>5. CASE b \in S
  <2>1. PICK k \in 1..m : list[k] = b
    BY <1>3, <1>5
  <2>2. At(t, b) = At(s, b) \cup {n + k}
    <3>1. ASSUME NEW i \in At(t, b) PROVE i \in At(s, b) \cup {n + k}
      <4>1. i \in 1..n + m /\ t[i] = b
        BY <1>2 DEF At
      <4>2. CASE i \in 1..n
        BY <1>1, <1>2, <4>1, <4>2 DEF At
      <4>3. CASE i \notin 1..n
        <5>1. i - n \in 1..m /\ i = n + (i - n)
          BY <1>1, <4>1, <4>3
        <5>2. list[i - n] = b
          BY <1>2, <4>1, <5>1
        <5>3. i - n = k
          BY <1>3, <2>1, <5>1, <5>2
        <5> QED BY <5>1, <5>3
      <4> QED BY <4>2, <4>3
    <3>2. ASSUME NEW i \in At(s, b) PROVE i \in At(t, b)
      <4>1. i \in 1..n /\ s[i] = b
        BY <1>1 DEF At
      <4>2. i \in 1..n + m
        BY <1>1, <4>1
      <4> QED BY <1>2, <4>1, <4>2 DEF At
    <3>3. n + k \in At(t, b)
      <4>1. n + k \in 1..n + m
        BY <1>1
      <4> QED BY <1>2, <2>1, <4>1 DEF At
    <3> QED BY <3>1, <3>2, <3>3
  <2>3. n + k \notin At(s, b) /\ IsFiniteSet(At(s, b)) /\ Cardinality(At(s, b)) \in Nat
    <3>1. n + k \notin 1..n
      BY <1>1
    <3> QED BY <3>1, RecordsTyped DEF n
  <2>4. Cardinality(At(t, b)) = Cardinality(At(s, b)) + 1
    BY <2>2, <2>3, FS_AddElement
  <2> QED BY <1>5, <2>4 DEF One, t
<1> QED BY <1>4, <1>5

(* The record of one bin.                                                  *)
OnRecord(b, cnt, records) ==
  IF bins[b].kind # "Illegal" THEN records = 0
  ELSE /\ records <= cnt[<<b, "count">>]
       /\ records = 0 => cnt[<<b, "count">>] = 0
       /\ ~IsPattern(b) => records = cnt[<<b, "count">>]

LEMMA SampleOnRecord ==
  ASSUME TypeOK, SampleCounts, NEW b \in Bins, OnRecord(b, counters, Cardinality(At(illegal, b)))
  PROVE  OnRecord(b, counters', Cardinality(At(illegal', b)))
<1> DEFINE delta == Delta[<<b, "count">>]
           old == Cardinality(At(illegal, b))
           new == Cardinality(At(illegal', b))
           count == counters[<<b, "count">>]
<1>1. group \in Groups /\ HistoriesOK /\ illegal \in Seq(Bins)
  BY Histories DEF TypeOK
<1>2. new = old + One(b \in IllegalHits) /\ old \in Nat
  <2>1. PICK list \in Listings(IllegalHits) : illegal' = illegal \o list
    BY CountsTyped
  <2>2. IllegalHits \in SUBSET Bins
    BY DEF IllegalHits
  <2> QED BY <1>1, <2>1, <2>2, RecordsGrow, RecordsTyped
<1>3. /\ counters'[<<b, "count">>] = count + delta
      /\ count \in Nat /\ delta \in Nat
  BY <1>1, CountsTyped, CounterTyped, DeltaTyped, NameFacts
<1>4. b \in IllegalHits <=> bins[b].kind = "Illegal" /\ delta > 0
  BY DEF IllegalHits
<1>5. ~IsPattern(b) => delta \in {0, 1}
  BY <1>1, DeltaFacts, OneTyped DEF Count
<1> HIDE DEF delta, old, new, count
<1>6. CASE bins[b].kind # "Illegal"
  BY <1>2, <1>4, <1>6 DEF OnRecord, One, old, new
<1>7. CASE bins[b].kind = "Illegal" /\ delta = 0
  BY <1>2, <1>3, <1>4, <1>7 DEF OnRecord, One, old, new, count
<1>8. CASE bins[b].kind = "Illegal" /\ delta # 0
  <2>1. new = old + 1
    BY <1>2, <1>3, <1>4, <1>8 DEF One
  <2> QED BY <1>2, <1>3, <1>5, <1>8, <2>1 DEF OnRecord, old, new, count
<1> QED BY <1>6, <1>7, <1>8

(* An illegal bin is on record as often as a sample hit it, and the record *)
(* never outgrows diagnostic_capacity: CoverageState::Sample checks the    *)
(* capacity before it updates counters and record.                         *)
THEOREM IllegalRecorded == Spec => []IllegalOnRecord
<1> DEFINE Inv == /\ Len(illegal) <= group.diagnostic_capacity
                  /\ \A b \in Bins : OnRecord(b, counters, Cardinality(At(illegal, b)))
<1>1. ASSUME group \in Groups, NEW b \in Bins, NEW cnt, \A name \in Names : cnt[name] = 0
      PROVE  OnRecord(b, cnt, Cardinality(At(<< >>, b)))
  <2>1. At(<< >>, b) = {}
    BY DEF At
  <2>2. cnt[<<b, "count">>] = 0
    BY <1>1, NameFacts
  <2> DEFINE records == Cardinality(At(<< >>, b))
  <2>3. records = 0
    BY <2>1, FS_EmptySet
  <2> HIDE DEF records
  <2>4. OnRecord(b, cnt, records)
    BY <2>2, <2>3 DEF OnRecord
  <2> QED BY <2>4 DEF records
<1>2. Init => Inv
  <2> SUFFICES ASSUME Init PROVE Inv
    OBVIOUS
  <2>1. group \in Groups /\ illegal = << >> /\ \A name \in Names : counters[name] = 0
    BY ZeroTyped DEF Init
  <2>2. Len(illegal) <= group.diagnostic_capacity
    BY <2>1, GroupFacts
  <2> QED BY <1>1, <2>1, <2>2
<1>3. TypeOK /\ Inv /\ [Next]_vars => Inv'
  <2> SUFFICES ASSUME TypeOK, Inv, [Next]_vars
               PROVE  /\ Len(illegal') <= group.diagnostic_capacity
                      /\ \A b \in Bins : OnRecord(b, counters', Cardinality(At(illegal', b)))
    BY GroupStays DEF OnRecord, At, IsPattern, KindOf, PointOf
  <2>1. group \in Groups
    BY DEF TypeOK
  <2>2. CASE SampleCounts
    <3>1. PICK list \in Listings(IllegalHits) : illegal' = illegal \o list
      BY <2>2, CountsTyped
    <3>2. illegal \in Seq(Bins) /\ list \in Seq(Bins) /\ Len(list) = Cardinality(IllegalHits)
      BY <2>1, <3>1, ListingTyped DEF TypeOK, IllegalHits
    <3>3. Len(illegal') = Len(illegal) + Cardinality(IllegalHits)
      <4>1. Len(illegal \o list) = Len(illegal) + Len(list)
        BY <3>2, ConcatProperties, Zenon
      <4> QED BY <3>1, <3>2, <4>1, Zenon
    <3>4. Len(illegal) + Cardinality(IllegalHits) <= group.diagnostic_capacity
      BY <2>2 DEF SampleCounts, Fits
    <3> QED BY <2>2, <3>3, <3>4, SampleOnRecord
  <2>3. CASE ResetCounters
    <3>1. illegal' = << >> /\ \A name \in Names : counters'[name] = 0
      BY <2>3, ResetsCounters
    <3> QED BY <1>1, <2>1, <3>1, GroupFacts
  <2>4. CASE UNCHANGED <<counters, illegal, epoch>>
    BY <2>4
  <2> QED BY <2>2, <2>3, <2>4, CounterSteps
<1>4. Inv => IllegalOnRecord
  BY DEF OnRecord, At, IllegalOnRecord, Records
<1> QED BY <1>2, <1>3, <1>4, TypeCorrect, PTL DEF Spec

-----------------------------------------------------------------------------
(* Bins that share an execution                                            *)

(* More completions are selected by all terminals than by some.            *)
LEMMA SelectedByAll ==
  ASSUME NEW limits, NEW m, HistoryOK(m), NEW terminals
  PROVE  Completed(limits, m, terminals) <= Completed(limits, m, {})
<1> DEFINE S(T) == {i \in DOMAIN m.attempts :
                      Selected(Matcher(limits, m)!Result(i, look.holds), T)}
           b(T) == Matcher(limits, m)!Starts(look.holds)
                     /\ Selected(Matcher(limits, m)!Candidate(look.holds), T)
           h == Matcher(limits, m)!Condition(look).hit
<1>1. \A T : Completed(limits, m, T) =
               IF limits.program.kind = "Expr" THEN One(h) ELSE Cardinality(S(T)) + One(b(T))
  BY Zenon DEF Completed
<1>2. \A r : Selected(r, terminals) => Selected(r, {})
  BY DEF Selected
<1>3. S(terminals) \subseteq S({})
  BY <1>2, Zenon
<1>4. S({}) \subseteq DOMAIN m.attempts
  BY Zenon
<1>5. b(terminals) => b({})
  BY <1>2, Zenon
<1>6. One(h) \in {0, 1} /\ One(b(terminals)) \in {0, 1} /\ One(b({})) \in {0, 1}
  BY OneTyped, Zenon
<1> HIDE DEF S, b, h
<1>7. /\ Cardinality(S(terminals)) \in Nat /\ Cardinality(S({})) \in Nat
      /\ Cardinality(S(terminals)) <= Cardinality(S({}))
  <2>1. IsFiniteSet(S({}))
    BY <1>4, FS_Subset DEF HistoryOK
  <2> QED BY <1>3, <2>1, FS_Subset, FS_CardinalityType
<1>8. One(b(terminals)) <= One(b({}))
  BY <1>5 DEF One
<1> QED BY <1>1, <1>6, <1>7, <1>8

(* What a sample adds to the counts of bins that share an execution.       *)
LEMMA SharedDelta ==
  ASSUME group \in Groups, HistoriesOK, NEW b \in Bins, NEW c \in Bins, OwnerOf(b) = OwnerOf(c)
  PROVE  LET db == Delta[<<b, "count">>]
             dc == Delta[<<c, "count">>]
         IN /\ db \in Nat /\ dc \in Nat
            /\ bins[b].terminals = {} => dc <= db
            /\ bins[b].terminals = bins[c].terminals => dc = db
<1> DEFINE a == OwnerOf(b)
           db == Delta[<<b, "count">>]
           dc == Delta[<<c, "count">>]
<1>1. a \in Bins /\ SameCoverageExecution(a, b) /\ SameCoverageExecution(a, c)
  BY OwnerFacts
<1>2. db \in Nat /\ dc \in Nat
  BY DeltaTyped, NameFacts
<1>3. PointOf(b) = PointOf(c) /\ (IsPattern(b) <=> IsPattern(c))
  BY <1>1 DEF SameCoverageExecution, PointOf, IsPattern, KindOf
<1>4. CASE ~IsPattern(b)
  <2>1. b = c
    BY <1>3, <1>4 DEF OwnerOf
  <2> QED BY <1>2, <2>1
<1>5. CASE IsPattern(b)
  <2>1. Limits(b) = Limits(c)
    BY <1>1, <1>3, <1>5 DEF Limits, SameCoverageExecution
  <2>2. /\ Completions(b) = Completed(Limits(b), matchers[a], bins[b].terminals)
        /\ Completions(c) = Completed(Limits(b), matchers[a], bins[c].terminals)
    BY <2>1 DEF Completions
  <2>3. Completed(Limits(b), matchers[a], bins[c].terminals) <= Completed(Limits(b), matchers[a], {})
    BY <1>1, SelectedByAll DEF HistoriesOK
  <2>4. /\ db = IF GroupOpen /\ Eligible(PointOf(b)) THEN Completions(b) ELSE 0
        /\ dc = IF GroupOpen /\ Eligible(PointOf(b)) THEN Completions(c) ELSE 0
    BY <1>3, <1>5, DeltaFacts DEF Count
  <2> HIDE DEF a, db, dc
  <2> QED BY <1>2, <2>2, <2>3, <2>4 DEF db, dc
<1> QED BY <1>4, <1>5

(* Bins of one pattern point that declare the same program agree, however  *)
(* often it completes: SamplePatternPoint advances one execution for all.  *)
THEOREM SharedAgree == Spec => []SharedExecutionsAgree
<1> DEFINE Agree(cnt, b, c) ==
             OwnerOf(b) = OwnerOf(c) =>
               /\ bins[b].terminals = {} => cnt[<<c, "count">>] <= cnt[<<b, "count">>]
               /\ bins[b].terminals = bins[c].terminals =>
                    cnt[<<b, "count">>] = cnt[<<c, "count">>]
           AllAgree(cnt) == \A b, c \in Bins : Agree(cnt, b, c)
<1>1. ASSUME group \in Groups, NEW cnt, \A name \in Names : cnt[name] = 0
      PROVE  AllAgree(cnt)
  BY <1>1, NameFacts
<1>2. Init => AllAgree(counters)
  <2> SUFFICES ASSUME Init PROVE AllAgree(counters)
    OBVIOUS
  <2>1. group \in Groups /\ \A name \in Names : counters[name] = 0
    BY ZeroTyped DEF Init
  <2> HIDE DEF AllAgree
  <2> QED BY <1>1, <2>1
<1>3. ASSUME TypeOK, AllAgree(counters), [Next]_vars PROVE AllAgree(counters')
  <2>1. group \in Groups /\ HistoriesOK
    BY <1>3, Histories DEF TypeOK
  <2>2. ASSUME SampleCounts, NEW b \in Bins, NEW c \in Bins PROVE Agree(counters', b, c)
    <3>1. /\ counters'[<<b, "count">>] = counters[<<b, "count">>] + Delta[<<b, "count">>]
          /\ counters'[<<c, "count">>] = counters[<<c, "count">>] + Delta[<<c, "count">>]
          /\ counters[<<b, "count">>] \in Nat /\ counters[<<c, "count">>] \in Nat
      BY <1>3, <2>1, <2>2, CountsTyped, CounterTyped, NameFacts
    <3>2. OwnerOf(b) = OwnerOf(c) =>
            /\ Delta[<<b, "count">>] \in Nat /\ Delta[<<c, "count">>] \in Nat
            /\ bins[b].terminals = {} => Delta[<<c, "count">>] <= Delta[<<b, "count">>]
            /\ bins[b].terminals = bins[c].terminals => Delta[<<c, "count">>] = Delta[<<b, "count">>]
      BY <2>1, SharedDelta
    <3>3. Agree(counters, b, c)
      BY <1>3
    <3> QED BY <3>1, <3>2, <3>3
  <2>3. CASE SampleCounts
    BY <2>2, <2>3
  <2>4. CASE ResetCounters
    <3>1. \A name \in Names : counters'[name] = 0
      BY <1>3, <2>4, ResetsCounters
    <3> HIDE DEF AllAgree
    <3> QED BY <1>1, <2>1, <3>1
  <2>5. CASE UNCHANGED <<counters, illegal, epoch>>
    BY <1>3, <2>5
  <2> QED BY <1>3, <2>3, <2>4, <2>5, CounterSteps
<1>4. ASSUME TypeOK, SharedExecutionsAgree, [Next]_vars PROVE SharedExecutionsAgree'
  <2>1. AllAgree(counters')
    <3>1. AllAgree(counters)
      BY <1>4 DEF SharedExecutionsAgree
    <3> HIDE DEF AllAgree
    <3> QED BY <1>3, <1>4, <3>1
  <2>2. \A b \in Bins : OwnerOf(b)' = OwnerOf(b)
    BY <1>4, GroupStays DEF OwnerOf, IsPattern, KindOf, PointOf, SameCoverageExecution
  <2>3. bins' = bins /\ Bins' = Bins
    BY <1>4, GroupStays
  <2>4. ASSUME NEW b \in Bins, NEW c \in Bins, OwnerOf(b)' = OwnerOf(c)'
        PROVE  Agree(counters', b, c) /\ OwnerOf(b) = OwnerOf(c)
    BY <2>1, <2>2, <2>4
  <2> QED BY <2>3, <2>4 DEF SharedExecutionsAgree
<1>5. Init => SharedExecutionsAgree
  BY <1>2 DEF SharedExecutionsAgree
<1> QED BY <1>4, <1>5, TypeCorrect, PTL DEF Spec

(* Between two resets the counters and the record only grow, and nothing   *)
(* counts without its group counting one sample, taken or gated:           *)
(* CoverageState::Sample raises before it updates anything.                *)
THEOREM CountersGrow == Spec => NeverDecreases
<1> DEFINE total  == counters[<<0, "samples">>] + counters[<<0, "gated">>]
           total_ == counters'[<<0, "samples">>] + counters'[<<0, "gated">>]
           Grows == /\ \A name \in Names : counters[name] <= counters'[name]
                    /\ IsPrefix(illegal, illegal')
                    /\ counters' # counters => total_ = total + 1
<1>1. ASSUME TypeOK, [Next]_vars, epoch' = epoch PROVE Grows
  <2>1. group \in Groups /\ HistoriesOK /\ illegal \in Seq(Bins) /\ epoch \in Nat
    BY <1>1, Histories, BoundsAssumption DEF TypeOK
  <2>2. CASE SampleCounts
    <3>1. \A name \in Names : /\ counters'[name] = counters[name] + Delta[name]
                              /\ counters[name] \in Nat /\ Delta[name] \in Nat
      BY <1>1, <2>1, <2>2, CountsTyped, CounterTyped, DeltaTyped
    <3>2. \A name \in Names : counters[name] <= counters'[name]
      BY <3>1
    <3>3. IsPrefix(illegal, illegal')
      <4>1. PICK list \in Listings(IllegalHits) : illegal' = illegal \o list
        BY <1>1, <2>2, CountsTyped
      <4>2. list \in Seq(Bins)
        BY <2>1, <4>1, ListingTyped DEF IllegalHits
      <4> QED BY <2>1, <4>1, <4>2 DEF IsPrefix
    <3>4. /\ Delta[<<0, "samples">>] = One(GroupOpen) /\ Delta[<<0, "gated">>] = One(~GroupOpen)
          /\ <<0, "samples">> \in Names /\ <<0, "gated">> \in Names
      BY <2>1, DeltaFacts, NameFacts
    <3>5. One(GroupOpen) + One(~GroupOpen) = 1
      BY DEF One
    <3> QED BY <3>1, <3>2, <3>3, <3>4, <3>5
  <2>3. CASE ResetCounters
    BY <1>1, <2>1, <2>3, ResetsCounters
  <2>4. CASE UNCHANGED <<counters, illegal, epoch>>
    <3>1. \A name \in Names : counters[name] <= counters'[name]
      BY <1>1, <2>4, CounterTyped
    <3>2. IsPrefix(illegal, illegal')
      BY <2>1, <2>4 DEF IsPrefix
    <3> QED BY <2>4, <3>1, <3>2
  <2> QED BY <1>1, <2>2, <2>3, <2>4, CounterSteps
<1> QED BY <1>1, TypeCorrect, PTL DEF Spec, NeverDecreases

-----------------------------------------------------------------------------
(* Transitions count runs of consecutive samples                           *)

(* A Next step is the matter of one sample.                                *)
LEMMA NextResult ==
  ASSUME NEW steps, NEW state \in PatternState, NEW holds,
         steps[state.index + 1].kind = "Next"
  PROVE  LET r == AdvanceSequence(steps, state, holds)
             done == steps[state.index + 1].root \in holds
             last == state.index + 1 = Len(steps)
         IN  /\ r.failed <=> ~done
             /\ ~r.expired
             /\ r.completed <=> done /\ last
             /\ done /\ ~last => r.state = AtStep(state.index + 1, state)
<1> DEFINE r == AdvanceSequence(steps, state, holds)
           step == steps[state.index + 1]
           done == step.root \in holds
           last == state.index + 1 = Len(steps)
<1>1. /\ Breaks(step, state, holds) <=> ~done
      /\ IsDone(step, state, holds) <=> done
      /\ ~IsLate(step, state, holds)
  BY DEF Breaks, IsDone, IsLate, StepFails, StepExpires, StepCompletes
<1>2. /\ r.failed <=> Breaks(step, state, holds)
      /\ r.expired <=> IsLate(step, state, holds)
      /\ r.completed <=> IsDone(step, state, holds) /\ last
      /\ IsDone(step, state, holds) => r.state = AtStep(IF last THEN 0 ELSE state.index + 1, state)
  BY SequenceResult, Zenon
<1> HIDE DEF r, step, done, last
<1> QED BY <1>1, <1>2, Zenon DEF r, step, done, last

Begin == [index |-> 0, age |-> 0, held |-> 0, fsm |-> 0]

(* An attempt begins when its Wait step is satisfied.                      *)
LEMMA WaitResult ==
  ASSUME NEW steps, NEW holds, steps[1].kind = "Wait"
  PROVE  LET r == AdvanceSequence(steps, Begin, holds)
             done == steps[1].root \in holds
         IN  /\ r.completed <=> done /\ 1 = Len(steps)
             /\ ~done => r.state = Begin
             /\ done /\ 1 # Len(steps) => r.state = AtStep(1, Begin)
<1> DEFINE r == AdvanceSequence(steps, Begin, holds)
           step == steps[1]
           done == step.root \in holds
<1>1. Begin \in PatternState /\ Begin.index + 1 = 1
  BY DEF Begin, PatternState
<1>2. /\ ~Breaks(step, Begin, holds) /\ Counted(step, Begin, holds) = Begin
      /\ IsDone(step, Begin, holds) <=> done
  BY DEF Breaks, IsDone, StepFails, StepExpires, StepCompletes, Counted
<1>3. /\ r.completed <=> IsDone(step, Begin, holds) /\ Begin.index + 1 = Len(steps)
      /\ IsDone(step, Begin, holds) =>
           r.state = AtStep(IF Begin.index + 1 = Len(steps) THEN 0 ELSE Begin.index + 1, Begin)
      /\ ~Breaks(step, Begin, holds) /\ ~IsDone(step, Begin, holds) =>
           r.state = Counted(step, Begin, holds)
  BY <1>1, SequenceResult, Zenon
<1> HIDE DEF r, step, done
<1> QED BY <1>1, <1>2, <1>3, Zenon DEF r, step, done

(* The last k samples satisfy the first k steps.                           *)
Matches(seen, steps, k) ==
  k <= Len(seen) /\ \A j \in 1..k : steps[j].root \in seen[Len(seen) - k + j]

LEMMA MatchesLast ==
  ASSUME NEW S, NEW seen \in Seq(S), NEW n \in Nat, NEW k \in 0..n, NEW steps
  PROVE  Matches(LastOf(seen, n), steps, k) <=> Matches(seen, steps, k)
<1> DEFINE len == Len(seen)
           last == LastOf(seen, n)
<1>1. len \in Nat
  BY LenProperties
<1>2. CASE len < n
  <2>1. last = seen
    BY <1>1, <1>2, SubSeqProperties DEF LastOf
  <2> QED BY <2>1
<1>3. CASE ~(len < n)
  <2> DEFINE first == len - n + 1
  <2>1. first \in 1..len + 1 /\ last = SubSeq(seen, first, len)
    BY <1>1, <1>3 DEF LastOf
  <2>2. /\ Len(last) = n
        /\ \A i \in 1..n : last[i] = seen[len - n + i]
    BY <1>1, <1>3, <2>1, SubSeqProperties
  <2>3. ASSUME NEW j \in 1..k
        PROVE  last[n - k + j] = seen[len - k + j]
    <3>1. n - k + j \in 1..n /\ len - n + (n - k + j) = len - k + j
      BY <1>1
    <3> QED BY <2>2, <3>1
  <2>4. k <= n /\ k <= len
    BY <1>1, <1>3
  <2> HIDE DEF last, len, first
  <2>5. Matches(last, steps, k) <=> \A j \in 1..k : steps[j].root \in last[n - k + j]
    BY <2>2, <2>4 DEF Matches
  <2>6. Matches(seen, steps, k) <=> \A j \in 1..k : steps[j].root \in seen[len - k + j]
    BY <2>4 DEF Matches, len
  <2> QED BY <2>3, <2>5, <2>6 DEF last
<1> QED BY <1>2, <1>3

LEMMA MatchesLonger ==
  ASSUME NEW S, NEW seen \in Seq(S), NEW holds \in S, NEW k \in Nat, NEW steps
  PROVE  Matches(Append(seen, holds), steps, k + 1) <=>
           Matches(seen, steps, k) /\ steps[k + 1].root \in holds
<1> DEFINE len == Len(seen)
           longer == Append(seen, holds)
<1>1. /\ len \in Nat /\ Len(longer) = len + 1
      /\ \A i \in 1..len : longer[i] = seen[i]
      /\ longer[len + 1] = holds
  BY LenProperties, AppendProperties
<1> HIDE DEF len, longer
<1>2. ASSUME k <= len, NEW j \in 1..k
      PROVE  longer[len + 1 - (k + 1) + j] = seen[len - k + j]
  <2>1. len + 1 - (k + 1) + j = len - k + j /\ len - k + j \in 1..len
    BY <1>1, <1>2
  <2> QED BY <1>1, <2>1
<1>3. longer[len + 1 - (k + 1) + (k + 1)] = holds
  <2>1. len + 1 - (k + 1) + (k + 1) = len + 1
    BY <1>1
  <2> QED BY <1>1, <2>1
<1>4. Matches(longer, steps, k + 1) <=>
        k + 1 <= len + 1 /\ \A j \in 1..k + 1 : steps[j].root \in longer[len + 1 - (k + 1) + j]
  BY <1>1 DEF Matches
<1>5. Matches(seen, steps, k) <=> k <= len /\ \A j \in 1..k : steps[j].root \in seen[len - k + j]
  BY DEF Matches, len
<1>6. k + 1 <= len + 1 <=> k <= len
  BY <1>1
<1>7. 1..k + 1 = 1..k \cup {k + 1}
  OBVIOUS
<1>8. ASSUME k <= len
      PROVE  (\A j \in 1..k + 1 : steps[j].root \in longer[len + 1 - (k + 1) + j])
               <=> /\ \A j \in 1..k : steps[j].root \in seen[len - k + j]
                   /\ steps[k + 1].root \in holds
  BY <1>2, <1>3, <1>7, <1>8
<1> QED BY <1>4, <1>5, <1>6, <1>8 DEF longer

LEMMA MatchesSample ==
  ASSUME NEW S, NEW seen \in Seq(S), NEW holds \in S, NEW n \in Nat, NEW k \in 1..n, NEW steps
  PROVE  Matches(LastOf(Append(seen, holds), n), steps, k) <=>
           Matches(seen, steps, k - 1) /\ steps[k].root \in holds
<1> DEFINE longer == Append(seen, holds)
<1>1. longer \in Seq(S)
  BY AppendProperties
<1>2. Matches(LastOf(longer, n), steps, k) <=> Matches(longer, steps, k)
  <2> HIDE DEF longer
  <2>1. k \in 0..n
    OBVIOUS
  <2> QED BY <1>1, <2>1, MatchesLast
<1>3. k - 1 \in Nat /\ (k - 1) + 1 = k
  OBVIOUS
<1>4. Matches(longer, steps, (k - 1) + 1) <=>
        Matches(seen, steps, k - 1) /\ steps[(k - 1) + 1].root \in holds
  BY <1>3, MatchesLonger
<1> QED BY <1>2, <1>3, <1>4

(* The programs that count runs, and the attempts at them: one for each    *)
(* beginning of a run that the samples seen end with.                      *)
CountsRuns(limits) ==
  LET steps == limits.program.steps IN
  /\ limits.program.kind = "Sequence" /\ limits.overlap /\ limits.max_active = Len(steps)
  /\ Len(steps) \in Nat \ {0} /\ steps[1].kind = "Wait"
  /\ \A k \in 2..Len(steps) : steps[k].kind = "Next"

InARow(m, steps, seen) ==
  /\ \A i \in DOMAIN m.attempts : /\ m.attempts[i] \in PatternState
                                  /\ m.attempts[i].index \in 1..Len(steps) - 1
  /\ \A i, j \in DOMAIN m.attempts : m.attempts[i].index = m.attempts[j].index => i = j
  /\ \A k \in 1..Len(steps) - 1 :
       (\E i \in DOMAIN m.attempts : m.attempts[i].index = k) <=> Matches(seen, steps, k)

(* The matchers of a group run the executor.                               *)
LEMMA SameSequence ==
  ASSUME NEW limits, NEW m, NEW program, NEW state, NEW holds, program.kind = "Sequence"
  PROVE  Matcher(limits, m)!Advance(program, state, holds)
           = AdvanceSequence(program.steps, state, holds)
<1>1. Matcher(limits, m)!AdvanceSequence(program.steps, state, holds)
        = AdvanceSequence(program.steps, state, holds)
  BY Zenon DEF Matcher!AdvanceSequence, Matcher!Counted, Matcher!WithinAge, Matcher!StepFails,
       Matcher!StepExpires, Matcher!StepCompletes, AdvanceSequence, Counted, WithinAge, StepFails,
       StepExpires, StepCompletes
<1> QED BY <1>1 DEF Matcher!Advance

LEMMA AttemptInARow ==
  ASSUME NEW limits, CountsRuns(limits), NEW m, NEW seen,
         InARow(m, limits.program.steps, seen), NEW i \in DOMAIN m.attempts
  PROVE  LET steps == limits.program.steps
             k == m.attempts[i].index
             met == steps[k + 1].root \in look.holds
         IN  /\ i \in Matcher(limits, m)!Kept(look.holds) <=> met /\ k + 1 # Len(steps)
             /\ Selected(Matcher(limits, m)!Result(i, look.holds), {}) <=> met /\ k + 1 = Len(steps)
             /\ met /\ k + 1 # Len(steps) =>
                  Matcher(limits, m)!Result(i, look.holds).state = AtStep(k + 1, m.attempts[i])
<1> DEFINE steps == limits.program.steps
           state == m.attempts[i]
           k == state.index
           met == steps[k + 1].root \in look.holds
           last == k + 1 = Len(steps)
           r == AdvanceSequence(steps, state, look.holds)
<1>1. state \in PatternState /\ k \in 1..Len(steps) - 1
  BY DEF InARow
<1>2. steps[k + 1].kind = "Next"
  <2>1. k + 1 \in 2..Len(steps)
    BY <1>1 DEF CountsRuns
  <2> QED BY <2>1 DEF CountsRuns
<1>3. /\ r.failed <=> ~met
      /\ ~r.expired
      /\ r.completed <=> met /\ last
      /\ met /\ ~last => r.state = AtStep(k + 1, state)
  BY <1>1, <1>2, NextResult, Zenon
<1>4. Matcher(limits, m)!Result(i, look.holds) = r
  <2>1. Matcher(limits, m)!Result(i, look.holds)
          = Matcher(limits, m)!Advance(limits.program, state, look.holds)
    BY Zenon DEF Matcher!Result, Matcher!Program
  <2>2. limits.program.kind = "Sequence"
    BY DEF CountsRuns
  <2> HIDE DEF state
  <2>3. Matcher(limits, m)!Advance(limits.program, state, look.holds)
          = AdvanceSequence(limits.program.steps, state, look.holds)
    BY <2>2, SameSequence
  <2> QED BY <2>1, <2>3, Zenon DEF state
<1>5. i \in Matcher(limits, m)!Kept(look.holds) <=>
        Matcher(limits, m)!HowEnds(Matcher(limits, m)!Result(i, look.holds)) = "continues"
  BY Zenon DEF Matcher!Kept, Matcher!Ends, Matcher!Active
<1> HIDE DEF r, met, last, k, state, steps
<1>6. Matcher(limits, m)!HowEnds(r) = "continues" <=> ~r.completed /\ ~r.expired /\ ~r.failed
  BY DEF Matcher!HowEnds
<1>7. Selected(r, {}) <=> r.completed
  BY DEF Selected
<1>8. i \in Matcher(limits, m)!Kept(look.holds) <=> met /\ ~last
  BY <1>3, <1>4, <1>5, <1>6, Zenon
<1> QED BY <1>3, <1>4, <1>7, <1>8, Zenon DEF met, last, k, state, steps

LEMMA CandidateInARow ==
  ASSUME NEW limits, CountsRuns(limits), NEW m
  PROVE  LET steps == limits.program.steps
             met == steps[1].root \in look.holds
             candidate == Matcher(limits, m)!Candidate(look.holds)
         IN  /\ Matcher(limits, m)!Proceeds(look.holds) <=> met
             /\ candidate.completed <=> met /\ 1 = Len(steps)
             /\ met /\ 1 # Len(steps) => candidate.state = AtStep(1, Begin)
<1> DEFINE steps == limits.program.steps
           met == steps[1].root \in look.holds
           r == AdvanceSequence(steps, Begin, look.holds)
           single == 1 = Len(steps)
<1>1. /\ r.completed <=> met /\ single
      /\ ~met => r.state = Begin
      /\ met /\ ~single => r.state = AtStep(1, Begin)
  BY WaitResult DEF CountsRuns
<1>2. Matcher(limits, m)!Candidate(look.holds) = r
  <2>1. Matcher(limits, m)!StartState(limits.program) = Begin
    BY DEF Matcher!StartState, Begin, CountsRuns
  <2>2. Matcher(limits, m)!Candidate(look.holds)
          = Matcher(limits, m)!Advance(limits.program, Begin, look.holds)
    BY <2>1, Zenon DEF Matcher!Candidate, Matcher!Program
  <2>3. limits.program.kind = "Sequence"
    BY DEF CountsRuns
  <2>4. Matcher(limits, m)!Advance(limits.program, Begin, look.holds)
          = AdvanceSequence(limits.program.steps, Begin, look.holds)
    BY <2>3, SameSequence
  <2> QED BY <2>2, <2>4, Zenon
<1>3. Matcher(limits, m)!Proceeds(look.holds) <=>
        r.completed \/ Matcher(limits, m)!HasLeft(r.state)
  BY <1>2 DEF Matcher!Proceeds, Matcher!Tries, CountsRuns
<1>4. /\ ~Matcher(limits, m)!HasLeft(Begin)
      /\ Matcher(limits, m)!HasLeft(AtStep(1, Begin))
  BY DEF Matcher!HasLeft, Matcher!Program, CountsRuns, AtStep, Begin
<1> HIDE DEF r, met, single, steps
<1>5. Matcher(limits, m)!Proceeds(look.holds) <=> met
  BY <1>1, <1>3, <1>4, Zenon
<1> QED BY <1>1, <1>2, <1>5, Zenon DEF met, single, steps

LEMMA SameCardinality ==
  ASSUME NEW limits, NEW m, NEW S
  PROVE  Matcher(limits, m)!Cardinality(S) = Cardinality(S)
BY Zenon DEF Matcher!Cardinality, Cardinality

(* There is always room for the attempt that a sample begins.              *)
LEMMA RoomInARow ==
  ASSUME NEW limits, CountsRuns(limits), NEW m, HistoryOK(m), NEW seen,
         InARow(m, limits.program.steps, seen)
  PROVE  Matcher(limits, m)!HasRoom(look.holds)
<1> DEFINE n == Len(limits.program.steps)
           kept == Matcher(limits, m)!Kept(look.holds)
           index == [i \in kept |-> m.attempts[i].index]
<1>1. n - 1 \in Nat /\ n \in Nat /\ limits.max_active = n
  BY DEF CountsRuns
<1>2. kept \subseteq DOMAIN m.attempts
  BY DEF Matcher!Kept, Matcher!Ends, Matcher!Active
<1> HIDE DEF kept
<1>3. index \in Injection(kept, 1..n - 1)
  <2>1. ASSUME NEW i \in kept PROVE index[i] = m.attempts[i].index /\ index[i] \in 1..n - 1
    BY <1>2 DEF InARow
  <2>2. ASSUME NEW i \in kept, NEW j \in kept, index[i] = index[j] PROVE i = j
    BY <1>2, <2>2 DEF InARow
  <2> HIDE DEF n
  <2> QED BY <2>1, <2>2 DEF Injection, IsInjective
<1> HIDE DEF index, n
<1>4. IsFiniteSet(1..n - 1) /\ Cardinality(1..n - 1) = n - 1
  BY <1>1, FS_Interval
<1>5. IsFiniteSet(kept) /\ Cardinality(kept) <= n - 1
  BY <1>3, <1>4, FS_Injection
<1>6. Cardinality(kept) \in Nat
  BY <1>5, FS_CardinalityType
<1>7. Cardinality(kept) < n
  BY <1>1, <1>5, <1>6
<1>8. Matcher(limits, m)!HasRoom(look.holds) <=> Cardinality(kept) < limits.max_active
  BY SameCardinality, Zenon DEF Matcher!HasRoom, kept
<1> QED BY <1>1, <1>7, <1>8

(* What the attempts are after a sample.                                   *)
LEMMA AttemptsInARow ==
  ASSUME NEW limits, CountsRuns(limits), NEW m, HistoryOK(m), NEW seen,
         InARow(m, limits.program.steps, seen)
  PROVE  LET steps == limits.program.steps
             after == AdvanceMatcher(limits, m).attempts
             now_ == Matcher(limits, m)!now
             stays == steps[1].root \in look.holds /\ 1 # Len(steps)
             kept(i) == LET k == m.attempts[i].index
                        IN k + 1 # Len(steps) /\ steps[k + 1].root \in look.holds
         IN  /\ \A i : i \in DOMAIN after <=> \/ i \in DOMAIN m.attempts /\ kept(i)
                                              \/ i = now_ /\ stays
             /\ \A i \in DOMAIN m.attempts :
                  kept(i) => after[i] = AtStep(m.attempts[i].index + 1, m.attempts[i])
             /\ stays => after[now_] = AtStep(1, Begin)
             /\ now_ \notin DOMAIN m.attempts
<1> DEFINE steps == limits.program.steps
           after == AdvanceMatcher(limits, m).attempts
           now_ == Matcher(limits, m)!now
           stays == steps[1].root \in look.holds /\ 1 # Len(steps)
           keeps(i) == LET k == m.attempts[i].index
                       IN k + 1 # Len(steps) /\ steps[k + 1].root \in look.holds
           kept == Matcher(limits, m)!Kept(look.holds)
           candidate == Matcher(limits, m)!Candidate(look.holds)
           result(i) == Matcher(limits, m)!Result(i, look.holds)
           changed == Matcher(limits, m)!Advanced(look.holds)
<1>1. after = changed
  <2>1. limits.program.kind # "Expr"
    BY DEF CountsRuns
  <2>2. AdvanceMatcher(limits, m) = [attempts |-> changed, last_condition |-> m.last_condition]
    BY <2>1, Zenon DEF AdvanceMatcher
  <2> HIDE DEF changed
  <2> QED BY <2>2
<1>2. now_ \notin DOMAIN m.attempts
  BY NextName
<1>3. Matcher(limits, m)!Stays(look.holds) <=> stays
  <2>1. Matcher(limits, m)!Stays(look.holds) <=>
          /\ Matcher(limits, m)!Proceeds(look.holds) /\ Matcher(limits, m)!HasRoom(look.holds)
          /\ ~candidate.completed
    BY Zenon DEF Matcher!Stays, Matcher!Starts
  <2>2. /\ Matcher(limits, m)!Proceeds(look.holds) <=> steps[1].root \in look.holds
        /\ candidate.completed <=> steps[1].root \in look.holds /\ 1 = Len(steps)
    BY CandidateInARow
  <2> HIDE DEF candidate
  <2> QED BY <2>1, <2>2, RoomInARow, Zenon
<1>4. stays => candidate.state = AtStep(1, Begin)
  BY CandidateInARow
<1>5. ASSUME NEW i \in DOMAIN m.attempts
      PROVE  /\ i \in kept <=> keeps(i)
             /\ keeps(i) => result(i).state = AtStep(m.attempts[i].index + 1, m.attempts[i])
  BY AttemptInARow
<1>6. kept \subseteq DOMAIN m.attempts
  BY DEF Matcher!Kept, Matcher!Ends, Matcher!Active
<1>7. changed = [i \in kept \cup (IF Matcher(limits, m)!Stays(look.holds) THEN {now_} ELSE {}) |->
                   IF i \in DOMAIN m.attempts THEN result(i).state ELSE candidate.state]
  BY Zenon DEF Matcher!Advanced, Matcher!ActiveAfter, Matcher!Active
<1> HIDE DEF after, now_, stays, keeps, kept, candidate, result, changed
<1>8. /\ DOMAIN changed = kept \cup (IF stays THEN {now_} ELSE {})
      /\ \A i \in DOMAIN changed :
           changed[i] = IF i \in DOMAIN m.attempts THEN result(i).state ELSE candidate.state
  BY <1>3, <1>7
<1>9. \A i : i \in DOMAIN after <=> (i \in DOMAIN m.attempts /\ keeps(i)) \/ (i = now_ /\ stays)
  BY <1>1, <1>5, <1>6, <1>8
<1>10. ASSUME NEW i \in DOMAIN m.attempts, keeps(i)
       PROVE  after[i] = AtStep(m.attempts[i].index + 1, m.attempts[i])
  BY <1>1, <1>5, <1>8, <1>9, <1>10, Zenon
<1>11. stays => after[now_] = AtStep(1, Begin)
  BY <1>1, <1>2, <1>4, <1>8, <1>9, Zenon
<1> QED BY <1>2, <1>9, <1>10, <1>11 DEF after, now_, stays, keeps

(* They are again one for each beginning of a run.                         *)
LEMMA AdvancedInARow ==
  ASSUME NEW limits, CountsRuns(limits), NEW m, HistoryOK(m), NEW S, NEW seen \in Seq(S),
         look.holds \in S, InARow(m, limits.program.steps, seen)
  PROVE  InARow(AdvanceMatcher(limits, m), limits.program.steps,
                LastOf(Append(seen, look.holds), Len(limits.program.steps)))
<1> DEFINE steps == limits.program.steps
           n == Len(steps)
           longer == Append(seen, look.holds)
           new == LastOf(longer, n)
           old == m.attempts
           after == AdvanceMatcher(limits, m).attempts
           now_ == Matcher(limits, m)!now
           met(k) == steps[k].root \in look.holds
           stays == met(1) /\ 1 # n
           kept(i) == old[i].index + 1 # n /\ met(old[i].index + 1)
<1>1. /\ \A i : i \in DOMAIN after <=> (i \in DOMAIN old /\ kept(i)) \/ (i = now_ /\ stays)
      /\ \A i \in DOMAIN old : kept(i) => after[i] = AtStep(old[i].index + 1, old[i])
      /\ stays => after[now_] = AtStep(1, Begin)
      /\ now_ \notin DOMAIN old
  BY AttemptsInARow
<1>2. /\ \A i \in DOMAIN old : old[i] \in PatternState /\ old[i].index \in 1..n - 1
      /\ \A i, j \in DOMAIN old : old[i].index = old[j].index => i = j
      /\ \A k \in 1..n - 1 : (\E i \in DOMAIN old : old[i].index = k) <=> Matches(seen, steps, k)
  BY DEF InARow
<1>3. n \in Nat \ {0}
  BY DEF CountsRuns
<1>4. ASSUME NEW k \in 1..n
      PROVE  Matches(new, steps, k) <=> Matches(seen, steps, k - 1) /\ met(k)
  <2>1. n \in Nat
    BY <1>3
  <2> HIDE DEF n, steps
  <2> QED BY <1>4, <2>1, MatchesSample
<1>5. Matches(seen, steps, 0)
  BY LenProperties DEF Matches
<1> HIDE DEF steps, n, new, longer, old, after, now_, met
<1>6. ASSUME NEW i \in DOMAIN old, kept(i)
      PROVE  /\ after[i] \in PatternState /\ after[i].index = old[i].index + 1
             /\ old[i].index + 1 \in 2..n - 1
  <2> DEFINE k == old[i].index
  <2>1. old[i] \in PatternState /\ k \in 1..n - 1 /\ k + 1 # n
    BY <1>2, <1>6
  <2>2. after[i] = [index |-> k + 1, age |-> 0, held |-> 0, fsm |-> old[i].fsm]
    BY <1>1, <1>6 DEF AtStep
  <2>3. k + 1 \in 2..n - 1
    <3> HIDE DEF k
    <3> QED BY <1>3, <2>1
  <2> QED BY <2>1, <2>2, <2>3 DEF PatternState
<1>7. ASSUME stays
      PROVE  after[now_] \in PatternState /\ after[now_].index = 1 /\ 1 \in 1..n - 1
  <2>1. after[now_] = [index |-> 1, age |-> 0, held |-> 0, fsm |-> 0]
    BY <1>1, <1>7 DEF AtStep, Begin
  <2> QED BY <1>3, <1>7, <2>1 DEF PatternState
<1>8. ASSUME NEW i \in DOMAIN after
      PROVE  after[i] \in PatternState /\ after[i].index \in 1..n - 1
  BY <1>1, <1>3, <1>6, <1>7
<1>9. ASSUME NEW i \in DOMAIN after, NEW j \in DOMAIN after, after[i].index = after[j].index
      PROVE  i = j
  <2>1. CASE i = now_ /\ j = now_
    BY <2>1
  <2>2. CASE i # now_ /\ j # now_
    <3>1. i \in DOMAIN old /\ kept(i) /\ j \in DOMAIN old /\ kept(j)
      BY <1>1, <2>2
    <3>2. after[i].index = old[i].index + 1 /\ after[j].index = old[j].index + 1
      BY <1>6, <3>1
    <3>3. old[i].index = old[j].index
      <4> DEFINE x == old[i].index
                 y == old[j].index
      <4>1. x \in Nat /\ y \in Nat /\ x + 1 = y + 1
        <5>1. x \in 1..n - 1 /\ y \in 1..n - 1
          BY <1>2, <3>1
        <5>2. x + 1 = y + 1
          BY <1>9, <3>2, Zenon
        <5> HIDE DEF x, y
        <5> QED BY <5>1, <5>2
      <4> HIDE DEF x, y
      <4>2. x = y
        BY <4>1
      <4> QED BY <4>2 DEF x, y
    <3> QED BY <1>2, <3>1, <3>3
  <2>3. ASSUME NEW x \in DOMAIN after, NEW y \in DOMAIN after, x = now_, y # now_
        PROVE  after[x].index # after[y].index
    <3>1. stays /\ y \in DOMAIN old /\ kept(y)
      BY <1>1, <2>3
    <3>2. after[x].index = 1 /\ after[y].index = old[y].index + 1 /\ old[y].index + 1 \in 2..n - 1
      BY <1>6, <1>7, <2>3, <3>1
    <3> QED BY <3>2
  <2> QED BY <1>9, <2>1, <2>2, <2>3
<1>10. ASSUME NEW k \in 1..n - 1
       PROVE  (\E i \in DOMAIN after : after[i].index = k) <=> Matches(new, steps, k)
  <2>1. k \in 1..n /\ k # n
    BY <1>3
  <2>2. CASE k = 1
    <3>1. Matches(new, steps, k) <=> met(1)
      BY <1>4, <1>5, <2>1, <2>2
    <3>2. stays <=> met(1)
      BY <2>1, <2>2
    <3>3. ASSUME stays PROVE \E i \in DOMAIN after : after[i].index = k
      BY <1>1, <1>7, <2>2, <3>3
    <3>4. ASSUME NEW i \in DOMAIN after, after[i].index = k PROVE stays
      <4>1. CASE i = now_
        BY <1>1, <4>1
      <4>2. CASE i # now_
        <5>1. i \in DOMAIN old /\ kept(i)
          BY <1>1, <4>2
        <5> QED BY <1>6, <2>2, <3>4, <5>1
      <4> QED BY <4>1, <4>2
    <3> QED BY <3>1, <3>2, <3>3, <3>4
  <2>3. CASE k # 1
    <3>1. k - 1 \in 1..n - 1 /\ (k - 1) + 1 = k
      BY <1>3, <2>1, <2>3
    <3>2. Matches(new, steps, k) <=> (\E i \in DOMAIN old : old[i].index = k - 1) /\ met(k)
      BY <1>2, <1>4, <2>1, <3>1
    <3>3. ASSUME NEW i \in DOMAIN old, old[i].index = k - 1, met(k)
          PROVE  \E j \in DOMAIN after : after[j].index = k
      <4>1. kept(i)
        BY <2>1, <3>1, <3>3
      <4> QED BY <1>1, <1>6, <3>1, <3>3, <4>1
    <3>4. ASSUME NEW j \in DOMAIN after, after[j].index = k
          PROVE  (\E i \in DOMAIN old : old[i].index = k - 1) /\ met(k)
      <4>1. j # now_
        BY <1>1, <1>7, <2>3, <3>4
      <4>2. j \in DOMAIN old /\ kept(j)
        BY <1>1, <4>1
      <4>3. old[j].index + 1 = k /\ old[j].index \in Nat
        BY <1>2, <1>6, <3>4, <4>2
      <4>4. old[j].index = k - 1
        BY <3>1, <4>3
      <4> QED BY <4>2, <4>3, <4>4
    <3> QED BY <3>2, <3>3, <3>4
  <2> QED BY <2>2, <2>3
<1> QED BY <1>8, <1>9, <1>10 DEF InARow, n, new, longer, after, steps

(* An attempt completes if the last samples satisfy all the steps.         *)
LEMMA CompletedInARow ==
  ASSUME NEW limits, CountsRuns(limits), NEW m, HistoryOK(m), NEW S, NEW seen \in Seq(S),
         look.holds \in S, InARow(m, limits.program.steps, seen)
  PROVE  LET steps == limits.program.steps IN
         Completed(limits, m, {}) # 0 <=>
           Matches(LastOf(Append(seen, look.holds), Len(steps)), steps, Len(steps))
<1> DEFINE steps == limits.program.steps
           n == Len(steps)
           new == LastOf(Append(seen, look.holds), n)
           met(k) == steps[k].root \in look.holds
           C == {i \in DOMAIN m.attempts :
                   Selected(Matcher(limits, m)!Result(i, look.holds), {})}
           candidate == Matcher(limits, m)!Candidate(look.holds)
           first == Matcher(limits, m)!Starts(look.holds) /\ Selected(candidate, {})
<1>1. n \in Nat \ {0}
  BY DEF CountsRuns
<1>2. C \subseteq DOMAIN m.attempts /\ \A i \in DOMAIN m.attempts :
        i \in C <=> met(m.attempts[i].index + 1) /\ m.attempts[i].index + 1 = n
  <2>1. \A i \in DOMAIN m.attempts :
          i \in C <=> Selected(Matcher(limits, m)!Result(i, look.holds), {})
    BY Zenon
  <2> HIDE DEF C
  <2>2. \A i \in DOMAIN m.attempts :
          Selected(Matcher(limits, m)!Result(i, look.holds), {})
            <=> met(m.attempts[i].index + 1) /\ m.attempts[i].index + 1 = n
    BY AttemptInARow
  <2>3. C \subseteq DOMAIN m.attempts
    BY Zenon DEF C
  <2> QED BY <2>1, <2>2, <2>3, Zenon
<1>3. first <=> met(1) /\ 1 = n
  <2>1. /\ Matcher(limits, m)!Proceeds(look.holds) <=> met(1)
        /\ candidate.completed <=> met(1) /\ 1 = n
    BY CandidateInARow
  <2>2. Matcher(limits, m)!Starts(look.holds) <=> met(1)
    BY <2>1, RoomInARow, Zenon DEF Matcher!Starts
  <2> HIDE DEF candidate
  <2>3. Selected(candidate, {}) <=> candidate.completed
    BY DEF Selected
  <2> QED BY <2>1, <2>2, <2>3, Zenon
<1>4. Completed(limits, m, {}) = Cardinality(C) + One(first)
  <2>1. limits.program.kind # "Expr"
    BY DEF CountsRuns
  <2> QED BY <2>1, Zenon DEF Completed
<1>5. Matches(new, steps, n) <=> Matches(seen, steps, n - 1) /\ met(n)
  <2>1. n \in Nat /\ n \in 1..n
    BY <1>1
  <2> HIDE DEF n, steps
  <2> QED BY <2>1, MatchesSample
<1>6. /\ \A i \in DOMAIN m.attempts : m.attempts[i].index \in 1..n - 1
      /\ \A k \in 1..n - 1 :
           (\E i \in DOMAIN m.attempts : m.attempts[i].index = k) <=> Matches(seen, steps, k)
  BY DEF InARow
<1>7. Matches(seen, steps, 0)
  BY LenProperties DEF Matches
<1> HIDE DEF C, first, n, met, new, steps
<1>8. IsFiniteSet(C) /\ Cardinality(C) \in Nat /\ (Cardinality(C) = 0 <=> C = {})
  BY <1>2, FS_Subset, FS_CardinalityType, FS_EmptySet DEF HistoryOK
<1>9. Completed(limits, m, {}) # 0 <=> C # {} \/ first
  BY <1>4, <1>8 DEF One
<1>10. C # {} \/ first <=> Matches(new, steps, n)
  <2>1. CASE n = 1
    <3>1. C = {}
      BY <1>2, <1>6, <2>1
    <3> QED BY <1>3, <1>5, <1>7, <2>1, <3>1
  <2>2. CASE n # 1
    <3>1. ~first /\ n - 1 \in 1..n - 1
      BY <1>1, <1>3, <2>2
    <3>2. \A i \in DOMAIN m.attempts : m.attempts[i].index + 1 = n <=> m.attempts[i].index = n - 1
      BY <1>1, <1>6
    <3>3. C # {} <=> (\E i \in DOMAIN m.attempts : m.attempts[i].index = n - 1) /\ met(n)
      BY <1>2, <3>2
    <3> QED BY <1>5, <1>6, <3>1, <3>3
  <2> QED BY <2>1, <2>2
<1> QED BY <1>9, <1>10 DEF new, n, steps

(* A bin that is hit counts unless one that counts outranks it.            *)
LEMMA Classifying ==
  ASSUME group \in Groups, NEW p \in Points, NEW b \in BinsOf(p), bins[b].kind # "Default"
  PROVE  b \in Classified(p) <=> Hit(b) /\ ~\E c \in BinsOf(p) : c \in Classified(p) /\ Outranks(c, b)
<1> DEFINE hits == {c \in BinsOf(p) : Hit(c)}
           rank(c) == Rank(bins[c].kind)
<1>1. b \in hits <=> Hit(b)
  OBVIOUS
<1>2. ASSUME NEW c PROVE rank(c) \in 0..2
  BY DEF Rank
<1>3. hits # {} => /\ Classified(p) = {c \in hits : \A d \in hits : ~Outranks(d, c)}
                   /\ Classified(p) \subseteq hits
  BY DEF Classified, Highest
<1>4. hits = {} => b \notin Classified(p)
  BY DEF Classified, Highest
<1>5. hits \subseteq BinsOf(p)
  OBVIOUS
<1> HIDE DEF hits, rank
<1>6. ASSUME hits # {}
      PROVE  \E c \in Classified(p) : \A d \in hits : rank(c) >= rank(d)
  <2> DEFINE ranks == {rank(c) : c \in hits}
  <2>1. ranks \in SUBSET Nat /\ ranks # {} /\ \A x \in ranks : x <= 2
    BY <1>2, <1>6
  <2>2. \E x \in ranks : \A y \in ranks : x >= y
    <3> HIDE DEF ranks
    <3> QED BY <2>1, GreatestNumber
  <2>3. PICK c \in hits : \A d \in hits : rank(c) >= rank(d)
    BY <2>2
  <2>4. \A d \in hits : ~Outranks(d, c)
    BY <1>2, <2>3 DEF Outranks, rank
  <2>5. c \in Classified(p)
    BY <1>3, <1>6, <2>4
  <2> QED BY <2>3, <2>5
<1>7. ASSUME hits # {}, Hit(b), \A c \in BinsOf(p) : c \in Classified(p) => ~Outranks(c, b)
      PROVE  b \in Classified(p)
  <2>1. PICK c \in Classified(p) : \A d \in hits : rank(c) >= rank(d)
    BY <1>6, <1>7
  <2>2. ASSUME NEW d \in hits, Outranks(d, b) PROVE FALSE
    <3>1. rank(c) >= rank(d) /\ rank(d) > rank(b)
      BY <2>1, <2>2 DEF Outranks, rank
    <3>2. Outranks(c, b)
      BY <1>2, <3>1 DEF Outranks, rank
    <3>3. c \in BinsOf(p)
      BY <1>3, <1>5, <1>7
    <3> QED BY <1>7, <3>2, <3>3
  <2> QED BY <1>1, <1>3, <1>7, <2>2
<1>8. b \in Classified(p) => Hit(b) /\ ~\E c \in BinsOf(p) : c \in Classified(p) /\ Outranks(c, b)
  BY <1>1, <1>3, <1>4
<1> QED BY <1>1, <1>7, <1>8

-----------------------------------------------------------------------------
(* The inductive invariant: the attempts of a transition are the           *)
(* beginnings of runs that the samples it last took end with.              *)
TInv == \A b \in Transitions : InARow(matchers[b], bins[b].program.steps, recent[b])

LEMMA TransitionRuns ==
  ASSUME group \in Groups, NEW b \in Transitions
  PROVE  CountsRuns(Limits(b)) /\ Limits(b).program.steps = bins[b].program.steps
<1>1. /\ Limits(b).program = bins[b].program /\ Limits(b).overlap = bins[b].overlap
      /\ Limits(b).max_active = Len(bins[b].program.steps)
  BY TransitionFacts DEF Limits
<1> QED BY <1>1, TransitionFacts DEF CountsRuns

LEMMA NothingInARow ==
  ASSUME NEW steps
  PROVE  InARow(NoHistory, steps, << >>)
<1>1. DOMAIN NoHistory.attempts = {}
  BY DEF NoHistory
<1>2. ASSUME NEW k \in 1..Len(steps) - 1 PROVE ~Matches(<< >>, steps, k)
  <2>1. Len(<< >>) = 0 /\ ~(k <= 0)
    BY EmptySeq
  <2> QED BY <2>1 DEF Matches
<1> HIDE DEF NoHistory
<1> QED BY <1>1, <1>2 DEF InARow

LEMMA HistorySteps ==
  ASSUME [Next]_vars
  PROVE  ClearHistory \/ Look \/ UNCHANGED <<matchers, recent>>
BY DEF Next, vars, Tick, Abort, AdvanceSource, EvaluateSource, SampleFails,
       SampleDoesNotFit, SampleCounts, ResetHistory, ResetCounters, MayReset

LEMMA LookInARow ==
  ASSUME TypeOK, Look, NEW b \in Transitions,
         InARow(matchers[b], bins[b].program.steps, recent[b])
  PROVE  InARow(matchers'[b], bins[b].program.steps, recent'[b])
<1> DEFINE steps == bins[b].program.steps
<1>1. /\ group \in Groups /\ b \in Bins /\ b \in Owners /\ KindOf(b) = "Value" /\ IsSequence(b)
      /\ bins[b].kind # "Default"
  BY TransitionFacts DEF TypeOK, IsSequence
<1>2. matchers'[b] = AdvancedBin(b) /\ recent'[b] = Seen(b)
  BY <1>1 DEF Look
<1>3. /\ HistoryOK(matchers[b]) /\ recent[b] \in Seq(SUBSET Roots) /\ look.holds \in SUBSET Roots
  <2>1. look.holds \in SUBSET Roots
    BY LooksAssumption DEF TypeOK, Nothing
  <2> QED BY <1>1, <2>1, Histories DEF TypeOK, HistoriesOK
<1>4. CASE Interrupted(b)
  <2>1. matchers'[b] = NoHistory /\ recent'[b] = << >>
    BY <1>1, <1>2, <1>4 DEF AdvancedBin, Seen
  <2> QED BY <2>1, NothingInARow
<1>5. CASE ~Interrupted(b) /\ Reached(PointOf(b), b)
  <2>1. Advances(b)
    BY <1>1, <1>5 DEF Interrupted, Advances
  <2>2. /\ matchers'[b] = AdvanceMatcher(Limits(b), matchers[b])
        /\ recent'[b] = LastOf(Append(recent[b], look.holds), Len(steps))
    BY <1>1, <1>2, <1>5, <2>1 DEF AdvancedBin, Seen
  <2>3. CountsRuns(Limits(b)) /\ Limits(b).program.steps = steps
    BY <1>1, TransitionRuns
  <2>4. InARow(AdvanceMatcher(Limits(b), matchers[b]), Limits(b).program.steps,
               LastOf(Append(recent[b], look.holds), Len(Limits(b).program.steps)))
    BY <1>3, <2>3, AdvancedInARow
  <2> QED BY <2>2, <2>3, <2>4
<1>6. CASE ~Interrupted(b) /\ ~Reached(PointOf(b), b)
  BY <1>1, <1>2, <1>6 DEF AdvancedBin, Seen
<1> QED BY <1>4, <1>5, <1>6

LEMMA InitTInv == Init => TInv
BY NothingInARow DEF Init, TInv, Transitions

LEMMA NextInARow ==
  ASSUME TypeOK, TInv, [Next]_vars, NEW b \in Transitions
  PROVE  InARow(matchers'[b], bins[b].program.steps, recent'[b])
<1>1. b \in Bins /\ InARow(matchers[b], bins[b].program.steps, recent[b])
  BY DEF Transitions, TInv
<1>2. CASE ClearHistory
  <2>1. matchers'[b] = NoHistory /\ recent'[b] = << >>
    BY <1>1, <1>2 DEF ClearHistory
  <2> QED BY <2>1, NothingInARow
<1>3. CASE Look
  BY <1>1, <1>3, LookInARow
<1>4. CASE UNCHANGED <<matchers, recent>>
  BY <1>1, <1>4
<1> QED BY <1>2, <1>3, <1>4, HistorySteps

LEMMA TInvNext ==
  ASSUME [Next]_vars,
         \A b \in Transitions : InARow(matchers'[b], bins[b].program.steps, recent'[b])
  PROVE  TInv'
<1>1. bins' = bins /\ Transitions' = Transitions
  BY GroupStays
<1> QED BY <1>1, Zenon DEF TInv, InARow, Matches

LEMMA NextTInv == TypeOK /\ TInv /\ [Next]_vars => TInv'
BY NextInARow, TInvNext

LEMMA FollowsMatches ==
  ASSUME NEW S, NEW seen \in Seq(S), NEW T, NEW steps \in Seq(T)
  PROVE  Follows(seen, steps) <=> Matches(seen, steps, Len(steps))
<1>1. Len(seen) \in Nat /\ Len(steps) \in Nat /\ DOMAIN steps = 1..Len(steps)
  BY LenProperties
<1>2. Len(seen) - Len(steps) >= 0 <=> Len(steps) <= Len(seen)
  BY <1>1
<1> QED BY <1>1, <1>2, Zenon DEF Follows, Matches

(* A sample that is counted raises the counts of the bins it hits.         *)
LEMMA RoseIs ==
  ASSUME TypeOK, SampleCounts, NEW b \in Bins, KindOf(b) = "Value"
  PROVE  Rose(b) <=> GroupOpen /\ Eligible(PointOf(b)) /\ b \in Classified(PointOf(b))
<1>1. group \in Groups /\ HistoriesOK
  BY Histories DEF TypeOK
<1>2. /\ counters'[<<b, "count">>] = counters[<<b, "count">>] + Delta[<<b, "count">>]
      /\ counters[<<b, "count">>] \in Nat /\ Delta[<<b, "count">>] \in Nat
  BY <1>1, CountsTyped, CounterTyped, DeltaTyped, NameFacts
<1>3. Rose(b) <=> Delta[<<b, "count">>] > 0
  BY <1>2 DEF Rose
<1>4. Delta[<<b, "count">>] = IF GroupOpen /\ Eligible(PointOf(b)) THEN Count(b) ELSE 0
  BY <1>1, DeltaFacts
<1>5. Count(b) > 0 <=> b \in HitBins(PointOf(b))
  BY <1>1, CountTyped
<1>6. HitBins(PointOf(b)) = Classified(PointOf(b))
  BY DEF HitBins, KindOf
<1>7. ~(0 > 0)
  OBVIOUS
<1> QED BY <1>3, <1>4, <1>5, <1>6, <1>7

LEMMA TransitionRose ==
  ASSUME TypeOK, TInv, SampleCounts, NEW b \in Transitions
  PROVE  Rose(b) <=> Follows(recent'[b], bins[b].program.steps) /\ ~Outranked(b)
<1> DEFINE steps == bins[b].program.steps
           p == PointOf(b)
<1>1. /\ group \in Groups /\ b \in Bins /\ KindOf(b) = "Value" /\ IsSequence(b) /\ p \in Points
      /\ bins[b].kind # "Default" /\ OwnerOf(b) = b /\ bins[b].terminals = {}
      /\ steps \in Seq(SequenceStep(Roots)) /\ Len(steps) \in Nat \ {0}
  BY TransitionFacts DEF TypeOK, IsSequence
<1>2. recent'[b] = Seen(b) /\ Look
  BY DEF SampleCounts, Look
<1>3. GroupOpen => Failures = {}
  <2>1. ~Fails
    BY DEF SampleCounts
  <2> QED BY <2>1, Zenon DEF Fails
<1>4. \A c \in BinsOf(p) : Rose(c) <=> GroupOpen /\ Eligible(p) /\ c \in Classified(p)
  <2> TAKE c \in BinsOf(p)
  <2>1. c \in Bins /\ PointOf(c) = p /\ KindOf(c) = "Value"
    BY <1>1 DEF BinsOf, PointOf, KindOf
  <2> QED BY <2>1, RoseIs
<1>5. b \in BinsOf(p)
  BY <1>1 DEF BinsOf, PointOf
<1>6. CASE ~GroupOpen \/ ~Eligible(p)
  <2>1. Interrupted(b)
    BY <1>3, <1>6 DEF Interrupted, Reached
  <2>2. recent'[b] = << >>
    BY <1>2, <2>1 DEF Seen
  <2>3. ~Follows(<< >>, steps)
    <3>1. Len(<< >>) = 0 /\ ~(0 - Len(steps) >= 0)
      BY <1>1, EmptySeq
    <3> QED BY <3>1 DEF Follows
  <2> QED BY <1>4, <1>5, <1>6, <2>2, <2>3
<1>7. CASE GroupOpen /\ Eligible(p)
  <2>1. ~Interrupted(b) /\ Reached(p, b)
    BY <1>3, <1>7 DEF Interrupted, Reached
  <2>2. recent'[b] = LastOf(Append(recent[b], look.holds), Len(steps))
    BY <1>2, <2>1 DEF Seen
  <2>3. /\ HistoryOK(matchers[b]) /\ recent[b] \in Seq(SUBSET Roots) /\ look.holds \in SUBSET Roots
    <3>1. look.holds \in SUBSET Roots
      BY LooksAssumption DEF TypeOK, Nothing
    <3> QED BY <1>1, <3>1, Histories DEF TypeOK, HistoriesOK
  <2>4. CountsRuns(Limits(b)) /\ Limits(b).program.steps = steps
    BY <1>1, TransitionRuns
  <2>5. InARow(matchers[b], Limits(b).program.steps, recent[b])
    BY <2>4 DEF TInv
  <2>6. Completed(Limits(b), matchers[b], {}) # 0 <=> Matches(recent'[b], steps, Len(steps))
    BY <2>2, <2>3, <2>4, <2>5, CompletedInARow
  <2>7. Hit(b) <=> Follows(recent'[b], steps)
    <3>1. Append(recent[b], look.holds) \in Seq(SUBSET Roots)
      BY <2>3, AppendProperties
    <3>2. recent'[b] \in Seq(SUBSET Roots)
      <4>1. Len(steps) \in Nat
        BY <1>1, LenProperties
      <4>2. LastOf(Append(recent[b], look.holds), Len(steps)) \in Seq(SUBSET Roots)
        BY <3>1, <4>1, LastOfTyped
      <4> QED BY <2>2, <4>2
    <3>3. Follows(recent'[b], steps) <=> Matches(recent'[b], steps, Len(steps))
      BY <1>1, <3>2, FollowsMatches
    <3>4. Hit(b) <=> Completed(Limits(b), matchers[b], {}) # 0
      BY <1>1 DEF Hit, Completions
    <3> QED BY <2>6, <3>3, <3>4
  <2>8. b \in Classified(p) <=> Hit(b) /\ ~\E c \in BinsOf(p) : c \in Classified(p) /\ Outranks(c, b)
    BY <1>1, <1>5, Classifying
  <2>9. Outranked(b) <=> \E c \in BinsOf(p) : c \in Classified(p) /\ Outranks(c, b)
    BY <1>4, <1>7 DEF Outranked
  <2> QED BY <1>4, <1>5, <1>7, <2>7, <2>8, <2>9
<1> QED BY <1>6, <1>7

(* A transition counts exactly on the samples that end a run of samples    *)
(* satisfying its steps, however many attempts at it overlap: SampleValue  *)
(* gives the matcher of a value bin as many attempts as it has steps, so   *)
(* that none is ever lost for want of room.                                *)
THEOREM TransitionsFollow == Spec => TransitionsAreAdjacent
<1>1. ASSUME TypeOK, TInv, [Next]_vars, epoch' = epoch, counters' # counters,
             NEW b \in Transitions
      PROVE  Rose(b) <=> Follows(recent'[b], bins[b].program.steps) /\ ~Outranked(b)
  <2>1. ~ResetCounters
    <3>1. epoch \in Nat
      BY <1>1, BoundsAssumption DEF TypeOK
    <3> QED BY <1>1, <3>1 DEF ResetCounters
  <2>2. SampleCounts
    BY <1>1, <2>1, CounterSteps
  <2> QED BY <1>1, <2>2, TransitionRose
<1>2. TypeOK /\ TInv /\ [Next]_vars =>
        (epoch' = epoch /\ counters' # counters =>
           \A b \in Transitions :
             Rose(b) <=> /\ Follows(recent'[b], bins[b].program.steps)
                         /\ ~Outranked(b))
  BY <1>1
<1> QED BY <1>2, TypeCorrect, InitTInv, NextTInv, PTL DEF Spec, TransitionsAreAdjacent
=============================================================================
