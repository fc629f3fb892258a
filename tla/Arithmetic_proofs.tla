-------------------------- MODULE Arithmetic_proofs --------------------------
(***************************************************************************)
(* Proofs about the arithmetic, for volumes, risks and prices of any size. *)
(***************************************************************************)
EXTENDS Arithmetic, SequenceTheorems, FiniteSetTheorems, WellFoundedInduction, TLAPS

LEMMA Bounds == {MaxVolume, MaxTargets, MaxPrice, MaxCandles} \subseteq Nat
  BY ArithmeticAssumption

-----------------------------------------------------------------------------
(* Volumes.                                                                *)

LEMMA Quotient ==
  ASSUME NEW a \in Nat, NEW d \in Nat, d > 0
  PROVE  a \div d \in Nat /\ (a \div d) * d <= a /\ a < (a \div d) * d + d
  BY SMT

LEMMA Products ==
  ASSUME NEW a \in Nat, NEW b \in Nat
  PROVE  /\ a * b \in Nat
         /\ a > 0 /\ b > 0 => a * b > 0
  BY SMT

LEMMA Monotone ==
  ASSUME NEW v \in Nat, NEW a \in Nat, NEW b \in Nat, a <= b
  PROVE  v * a <= v * b
  BY SMT

LEMMA Regroup ==
  ASSUME NEW q \in Nat, NEW s \in Nat, NEW t \in Nat
  PROVE  /\ (q * s) * t = q * (t * s)
         /\ (q * s + s) * t = q * (t * s) + t * s
  BY SMT

\* Both sides of a basket have a stop, and at least that of its first level.
LEMMA BasketHasStops ==
  ASSUME NEW count \in Nat, count >= 1, NEW stop \in Nat, stop > 0, NEW next \in Nat
  PROVE  BasketStops(count, stop, next) \in Nat /\ BasketStops(count, stop, next) > 0
<1>1. (count - 1) \in Nat
  OBVIOUS
<1>2. (count - 1) * next \in Nat
  BY <1>1, Products
<1>3. QED
  BY <1>2 DEF BasketStops

\* The stops that count when a volume is sized are at least those that count
\* when it is checked.
LEMMA SizedCoverChecked ==
  ASSUME NEW mode \in Mode \ {"NEWS_REVERSAL"}, NEW count \in Nat, count >= 1,
         NEW stop \in Nat, stop > 0, NEW next \in Nat
  PROVE  /\ SizedStops(mode, count, stop, next) \in Nat \ {0}
         /\ CheckedStops(mode, count, stop, next, FALSE) \in Nat
         /\ CheckedStops(mode, count, stop, next, FALSE) <= SizedStops(mode, count, stop, next)
<1>1. CASE mode = "MULTI"
  BY <1>1, BasketHasStops DEF SizedStops, CheckedStops
<1>2. CASE mode = "STRADDLE"
  BY <1>2 DEF SizedStops, CheckedStops
<1>3. CASE mode = "MARKET"
  BY <1>3 DEF SizedStops, CheckedStops
<1>4. QED
  BY <1>1, <1>2, <1>3 DEF Mode

\* A volume sized by a risk loses no more than the risk at its stops, and one
\* step more would lose more.
LEMMA SizedIsLargest ==
  ASSUME NEW balance \in Nat, NEW risk \in Nat, NEW stops \in Nat \ {0}, NEW step \in Nat \ {0}
  PROVE  /\ RiskVolume(balance, risk, stops, step) \in Nat
         /\ WithinRisk(balance, risk, stops, RiskVolume(balance, risk, stops, step))
         /\ ~WithinRisk(balance, risk, stops, RiskVolume(balance, risk, stops, step) + step)
<1> DEFINE money == balance * risk
           loss == stops * step
           q == money \div loss
<1> HIDE DEF money, loss, q
<1>1. money \in Nat /\ loss \in Nat /\ loss > 0
  BY Products DEF money, loss
<1>2. q \in Nat /\ q * loss <= money /\ money < q * loss + loss
  BY <1>1, Quotient DEF q
<1>3. (q * step) * stops = q * loss /\ (q * step + step) * stops = q * loss + loss
  BY <1>2, Regroup DEF loss
<1>4. RiskVolume(balance, risk, stops, step) = q * step
  BY DEF RiskVolume, q, money, loss
<1>5. q * step \in Nat
  BY <1>2, Products
<1>6. ~ (q * loss + loss <= money)
  BY <1>1, <1>2, Products
<1>7. QED
  BY <1>2, <1>3, <1>4, <1>5, <1>6 DEF WithinRisk, money

\* Sizing by a risk and checking that risk agree, for every mode that may be
\* sized, every basket, balance, risk and step of the broker.
THEOREM SizedVolumesPass == Spec => []SizedPassesCheck
<1>1. SizedPassesCheck
  <2> SUFFICES ASSUME order \in Risks
               PROVE  LET stops == SizedStops(order.mode, order.count, order.stop, order.next)
                          volume == RiskVolume(order.balance, order.risk, stops, order.step)
                          checked == CheckedStops(order.mode, order.count, order.stop, order.next, FALSE)
                      IN  /\ WithinRisk(order.balance, order.risk, checked, volume)
                          /\ ~WithinRisk(order.balance, order.risk, stops, volume + order.step)
    BY DEF SizedPassesCheck
  <2> DEFINE stops == SizedStops(order.mode, order.count, order.stop, order.next)
             volume == RiskVolume(order.balance, order.risk, stops, order.step)
             checked == CheckedStops(order.mode, order.count, order.stop, order.next, FALSE)
  <2>1. /\ order.mode \in Mode \ {"NEWS_REVERSAL"} /\ order.balance \in Nat /\ order.risk \in Nat
        /\ order.step \in Nat \ {0} /\ order.count \in Nat /\ order.count >= 1
        /\ order.stop \in Nat /\ order.stop > 0 /\ order.next \in Nat
    BY Bounds DEF Risks
  <2>2. stops \in Nat \ {0} /\ checked \in Nat /\ checked <= stops
    BY <2>1, SizedCoverChecked
  <2> HIDE DEF stops, checked
  <2>3. /\ volume \in Nat /\ WithinRisk(order.balance, order.risk, stops, volume)
        /\ ~WithinRisk(order.balance, order.risk, stops, volume + order.step)
    BY <2>1, <2>2, SizedIsLargest
  <2> HIDE DEF volume
  <2>4. volume * checked <= volume * stops /\ volume * checked \in Nat /\ volume * stops \in Nat
    BY <2>2, <2>3, Monotone, Products
  <2>5. WithinRisk(order.balance, order.risk, checked, volume)
    <3>1. order.balance * order.risk \in Nat
      BY <2>1, Products
    <3>2. volume * stops <= order.balance * order.risk
      BY <2>3 DEF WithinRisk
    <3>3. QED
      BY <2>4, <3>1, <3>2 DEF WithinRisk
  <2>6. QED
    BY <2>3, <2>5 DEF stops, volume, checked
<1>2. QED
  BY <1>1, PTL

-----------------------------------------------------------------------------
(* Splits.                                                                 *)

LEMMA Related ==
  ASSUME NEW m \in Nat, NEW n \in Nat, m < n
  PROVE  <<m, n>> \in OpToRel(<, Nat)
<1>1. <<m, n>> \in Nat \X Nat /\ <<m, n>>[1] = m /\ <<m, n>>[2] = n
  OBVIOUS
<1>2. QED
  BY <1>1, Zenon DEF OpToRel

\* Of the sizes at which something goes wrong one is the least.
LEMMA LeastSize ==
  ASSUME NEW T, T \subseteq Nat, T # {}
  PROVE  \E n \in T : \A m \in T : n <= m
<1> DEFINE Below == OpToRel(<, Nat)
<1>1. IsWellFoundedOn(Below, Nat)
  BY NatLessThanWellFounded
<1>2. \A m, n \in Nat : m < n => <<m, n>> \in Below
  BY Related
<1> HIDE DEF Below
<1>3. PICK n \in T : \A m \in T : <<m, n>> \notin Below
  BY <1>1, WFMin
<1>4. \A m \in T : ~(m < n)
  BY <1>2, <1>3
<1>5. QED
  BY <1>3, <1>4

\* A sum over a finite set is what any function gives that grows with each
\* element by that element's value, whatever order the elements are taken in.
LEMMA TotalIs ==
  ASSUME NEW legs, IsFiniteSet(DOMAIN legs), NEW sum \in [SUBSET DOMAIN legs -> Int], sum[{}] = 0,
         \A s \in SUBSET DOMAIN legs : \A x \in s : sum[s] = legs[x] + sum[s \ {x}]
  PROVE  Total(legs) = sum[DOMAIN legs]
<1> DEFINE D == DOMAIN legs
           any(s) == CHOOSE x \in s : TRUE
           Step(g, s) == IF s = {} THEN 0 ELSE legs[any(s)] + g[s \ {any(s)}]
           fold == CHOOSE g : g = [s \in SUBSET D |-> Step(g, s)]
<1>1. Total(legs) = fold[D]
  BY DEF Total, MapThenSumSet, MapThenFoldSet
<1>2. \A s \in SUBSET D : s # {} => any(s) \in s
  OBVIOUS
<1> HIDE DEF any
<1>3. sum = [s \in SUBSET D |-> Step(sum, s)]
  BY <1>2
<1>4. fold = [s \in SUBSET D |-> Step(fold, s)]
  BY <1>3
<1> HIDE DEF fold
<1>5. \A s \in SUBSET D : IsFiniteSet(s) /\ Cardinality(s) \in Nat
  BY FS_Subset, FS_CardinalityType
<1> DEFINE Wrong == {s \in SUBSET D : fold[s] # sum[s]}
           Sizes == {Cardinality(s) : s \in Wrong}
<1>6. ASSUME Wrong # {} PROVE FALSE
  <2>1. PICK n \in Sizes : \A m \in Sizes : n <= m
    <3>1. Sizes \subseteq Nat /\ Sizes # {}
      BY <1>5, <1>6
    <3> HIDE DEF Sizes
    <3>2. QED
      BY <3>1, LeastSize
  <2>2. PICK s \in Wrong : n = Cardinality(s)
    OBVIOUS
  <2>3. s # {}
    <3>1. fold[{}] = 0
      BY <1>4
    <3>2. QED
      BY <2>2, <3>1
  <2> DEFINE x == any(s)
             rest == s \ {x}
  <2>4. x \in s
    BY <1>2, <2>3
  <2>5. fold[s] = legs[x] + fold[rest] /\ sum[s] = legs[x] + sum[rest] /\ rest \in SUBSET D
    BY <1>3, <1>4, <2>3
  <2>6. Cardinality(rest) = n - 1 /\ n \in Nat
    BY <1>5, <2>2, <2>4, FS_RemoveElement
  <2>7. rest \in Wrong
    BY <2>2, <2>5
  <2>8. QED
    BY <2>1, <2>6, <2>7
<1>7. QED
  BY <1>1, <1>6

LEMMA Distribute ==
  ASSUME NEW a \in Int, NEW b \in Int, NEW d \in Int
  PROVE  /\ (a + b) * d = a * d + b * d
         /\ a * (b + d) = a * b + a * d
         /\ a * b \in Int /\ a * 1 = a /\ 1 * a = a /\ a * 0 = 0 /\ 0 * a = 0
  BY SMT

\* The division of a number into equal parts leaves less than one for each.
LEMMA Remainder ==
  ASSUME NEW a \in Nat, NEW d \in Nat \ {0}
  PROVE  a % d \in 0 .. d - 1 /\ (a \div d) * d + (a % d) = a /\ a \div d \in Nat
<1>1. a \div d \in Nat /\ a % d \in Nat /\ a % d < d
  BY SMT
<1>2. (a \div d) * d + (a % d) = a
  BY SMT
<1>3. QED
  BY <1>1, <1>2

\* The legs of a split are the broker's steps of the volume asked for.
LEMMA SplitTotal ==
  ASSUME NEW total \in Nat, NEW step \in Nat, NEW targets \in Nat \ {0}
  PROVE  Total([i \in 1 .. targets |-> Shares(total, targets)[i] * step]) = total * step
<1> DEFINE D == 1 .. targets
           share == total \div targets
           extra == total % targets
           Late == (targets - extra + 1) .. targets
           legs == [i \in D |-> Shares(total, targets)[i] * step]
           parts(s) == share * Cardinality(s) + Cardinality(s \cap Late)
           sum == [s \in SUBSET D |-> parts(s) * step]
<1>0. share \in Nat /\ extra \in 0 .. targets - 1 /\ share * targets + extra = total
  BY Remainder
<1> HIDE DEF share, extra
<1>1. IsFiniteSet(D) /\ Cardinality(D) = targets /\ Cardinality(Late) = extra
  BY <1>0, FS_Interval
<1>2. \A s \in SUBSET D : /\ IsFiniteSet(s) /\ Cardinality(s) \in Nat
                          /\ IsFiniteSet(s \cap Late) /\ Cardinality(s \cap Late) \in Nat
  BY <1>1, FS_Subset, FS_CardinalityType
<1>3. ASSUME NEW s \in SUBSET D PROVE parts(s) \in Int /\ parts(s) * step \in Int
  <2>1. share \in Int /\ Cardinality(s) \in Int /\ Cardinality(s \cap Late) \in Int
    BY <1>0, <1>2
  <2>4. share * Cardinality(s) \in Int
    BY <2>1, Distribute
  <2>2. parts(s) \in Int
    BY <2>1, <2>4
  <2>3. QED
    BY <2>2, Distribute
<1>4. ASSUME NEW s \in SUBSET D, NEW x \in s
      PROVE  parts(s) * step = legs[x] + parts(s \ {x}) * step
  <2> DEFINE one == IF x > targets - extra THEN 1 ELSE 0
  <2>1. x \in 1 .. targets /\ (x \in Late <=> x > targets - extra)
    BY <1>0
  <2>2. legs[x] = (share + one) * step
    BY <2>1 DEF Shares, share, extra
  <2>3. Cardinality(s \ {x}) = Cardinality(s) - 1
    BY <1>2, FS_RemoveElement
  <2>4. Cardinality((s \ {x}) \cap Late) = Cardinality(s \cap Late) - one
    <3>1. CASE x \in Late
      <4>1. (s \ {x}) \cap Late = (s \cap Late) \ {x} /\ x \in s \cap Late /\ one = 1
        BY <2>1, <3>1
      <4>2. Cardinality((s \cap Late) \ {x}) = Cardinality(s \cap Late) - 1
        BY <1>2, <4>1, FS_RemoveElement
      <4>3. QED
        BY <4>1, <4>2
    <3>2. CASE x \notin Late
      <4>1. (s \ {x}) \cap Late = s \cap Late /\ one = 0
        BY <2>1, <3>2
      <4>2. QED
        BY <1>2, <4>1
    <3>3. QED
      BY <3>1, <3>2
  <2> DEFINE n == Cardinality(s)
             r == s \ {x}
             k == Cardinality(s \cap Late)
  <2>5. n \in Int /\ k \in Int /\ one \in Int /\ Cardinality(r) = n - 1
        /\ Cardinality(r \cap Late) = k - one /\ r \in SUBSET D
    <3>1. one \in Int /\ r \in SUBSET D
      OBVIOUS
    <3>2. n \in Int /\ k \in Int
      BY <1>2
    <3>3. QED
      BY <2>3, <2>4, <3>1, <3>2
  <2>6. parts(s) = share * n + k /\ parts(r) = share * (n - 1) + (k - one)
    BY <2>5
  <2> HIDE DEF n, k, one
  <2>7. share * n = share * (n - 1) + share /\ share * (n - 1) \in Int
    BY <1>0, <2>5, Distribute
  <2>8. parts(s) = (share + one) + parts(r)
    BY <1>0, <2>5, <2>6, <2>7
  <2>9. parts(r) \in Int /\ parts(r) * step \in Int /\ share + one \in Int
    BY <1>0, <1>3, <2>5
  <2> HIDE DEF parts, r
  <2>10. parts(s) * step = (share + one) * step + parts(r) * step
    BY <2>8, <2>9, Distribute
  <2>11. QED
    BY <2>2, <2>10 DEF r, one
<1>5. parts({}) = 0
  BY <1>0, FS_EmptySet
<1>6. parts(D) = total
  <2>1. D \cap Late = Late
    BY <1>0
  <2>2. QED
    BY <1>0, <1>1, <2>1
<1>7. DOMAIN legs = D
  OBVIOUS
<1> HIDE DEF parts, legs, D
<1>8. sum \in [SUBSET D -> Int] /\ sum[{}] = 0
  <2>1. 0 * step = 0
    BY Distribute
  <2>2. QED
    BY <1>3, <1>5, <2>1
<1>9. \A s \in SUBSET D : \A x \in s : sum[s] = legs[x] + sum[s \ {x}]
  BY <1>4
<1> HIDE DEF sum
<1>10. Total(legs) = sum[D]
  BY <1>1, <1>7, <1>8, <1>9, TotalIs
<1>11. QED
  BY <1>6, <1>10 DEF sum, legs, D

\* A split of the volume asked for is fair, for any volume, step and targets:
\* its legs add up to the steps the volume holds, and the remainder makes a
\* leg at most one step larger than one before it.
THEOREM SplitsAreFair == Spec => []SplitIsFair
<1>1. SplitIsFair
  <2> SUFFICES ASSUME order \in Splits, Allocates(order.requested, order.step, "SPLIT_TOTAL", order.targets)
               PROVE  LET legs == allocateNewsReversalVolume(order.requested, order.step, "SPLIT_TOTAL", order.targets)
                      IN  /\ Total(legs) <= order.requested /\ order.requested < Total(legs) + order.step
                          /\ \A i, j \in DOMAIN legs : /\ legs[i] >= order.step
                                                       /\ i <= j => legs[j] - legs[i] \in {0, order.step}
    BY DEF SplitIsFair
  <2> DEFINE requested == order.requested
             step == order.step
             targets == order.targets
             legs == allocateNewsReversalVolume(requested, step, "SPLIT_TOTAL", targets)
             steps == requested \div step
             share == steps \div targets
             extra == steps % targets
             late(i) == IF i > targets - extra THEN 1 ELSE 0
  <2>1. requested \in Nat /\ step \in Nat /\ step > 0 /\ targets \in Nat \ {0}
    BY Bounds DEF Splits
  <2>2. legs = [i \in 1 .. targets |-> Shares(steps, targets)[i] * step]
    BY DEF allocateNewsReversalVolume
  <2>3. targets <= steps
    BY DEF Allocates
  <2> HIDE DEF legs, requested, step, targets
  <2>4. steps \in Nat /\ steps * step <= requested /\ requested < steps * step + step
    BY <2>1, Quotient
  <2> HIDE DEF steps
  <2>5. Total(legs) = steps * step
    BY <2>1, <2>2, <2>4, SplitTotal
  <2>6. share \in Nat /\ extra \in 0 .. targets - 1 /\ share * targets + extra = steps
    BY <2>1, <2>4, Remainder
  <2>7. share >= 1
    <3>1. SUFFICES ASSUME share = 0 PROVE FALSE
      BY <2>6
    <3> HIDE DEF share, extra
    <3>2. share * targets = 0
      BY <2>1, <3>1, Distribute
    <3>3. QED
      BY <2>1, <2>3, <2>6, <3>2
  <2>8. ASSUME NEW i \in 1 .. targets PROVE legs[i] = (share + late(i)) * step
    BY <2>2 DEF Shares
  <2> HIDE DEF share, extra
  <2>9. ASSUME NEW i \in 1 .. targets
        PROVE  /\ legs[i] = share * step + late(i) * step /\ late(i) \in {0, 1}
               /\ late(i) * step = (IF late(i) = 1 THEN step ELSE 0)
    <3>1. late(i) \in {0, 1}
      OBVIOUS
    <3> HIDE DEF late
    <3>2. QED
      BY <2>1, <2>6, <2>8, <3>1, Distribute
  <2>10. share * step \in Int /\ share * step >= step
    <3>1. step * 1 <= step * share /\ step * 1 = step /\ step * share = share * step
      BY <2>1, <2>6, <2>7, Monotone
    <3>2. QED
      BY <2>1, <2>6, <3>1, Distribute
  <2>11. ASSUME NEW i \in 1 .. targets, NEW j \in 1 .. targets
         PROVE  legs[i] >= step /\ (i <= j => legs[j] - legs[i] \in {0, step})
    <3>1. i <= j => late(j) = 1 \/ late(i) = 0
      BY <2>1, <2>6
    <3>2. /\ late(i) \in {0, 1} /\ late(j) \in {0, 1}
          /\ legs[i] = share * step + (IF late(i) = 1 THEN step ELSE 0)
          /\ legs[j] = share * step + (IF late(j) = 1 THEN step ELSE 0)
      BY <2>9
    <3> HIDE DEF late
    <3>3. QED
      BY <2>1, <2>10, <3>1, <3>2
  <2>12. DOMAIN legs = 1 .. targets
    BY <2>2
  <2>13. QED
    BY <2>4, <2>5, <2>11, <2>12 DEF legs, requested, step, targets
<1>2. QED
  BY <1>1, PTL

-----------------------------------------------------------------------------
(* Barriers.                                                               *)

Market == candles \in Seq(Candle(0, MaxPrice))

LEMMA MarketInvariant == Spec => []Market
<1>1. Init => Market
  BY DEF Init, Market
<1>2. Market /\ [Next]_vars => Market'
  BY DEF Market, Next, Closes, vars
<1>3. QED
  BY <1>1, <1>2, PTL DEF Spec

\* The two places that decide a candle's barriers agree, at any prices.
LEMMA BarriersAgree ==
  ASSUME NEW d \in Direction, NEW stop \in Int, NEW target \in Int,
         NEW c, c.low \in Int, c.high \in Int
  PROVE  resolveBarrierOutcome(d, stop, target, c) = managedOutcome(d, stop, target, c)
<1>1. CASE d = "BUY"
  BY <1>1 DEF resolveBarrierOutcome, managedOutcome, Buy, Beyond, Ahead, Behind
<1>2. CASE d = "SELL"
  BY <1>2 DEF resolveBarrierOutcome, managedOutcome, Buy, Beyond, Ahead, Behind
<1>3. QED
  BY <1>1, <1>2 DEF Direction

\* The label of a candidate is the outcome its position would have had.
THEOREM LabelsFollowManagement == Spec => []LabelsAgree
<1>1. Market => LabelsAgree
  <2> SUFFICES ASSUME Market, candles # <<>>, NEW d \in Direction, NEW stop \in Prices, NEW target \in Prices
               PROVE  resolveBarrierOutcome(d, stop, target, Current)
                        = managedOutcome(d, stop, target, Current)
    BY DEF LabelsAgree
  <2>1. Current \in Candle(0, MaxPrice)
    BY DEF Current, Last, Market
  <2>2. Current.low \in Int /\ Current.high \in Int /\ stop \in Int /\ target \in Int
    BY <2>1, Bounds DEF Candle, Prices
  <2>3. QED
    BY <2>2, BarriersAgree
<1>2. QED
  BY <1>1, MarketInvariant, PTL

-----------------------------------------------------------------------------
(* Folds over a finite set D, one element after the other: pick[s] is the  *)
(* element taken last of s, next[<<i, v>>] what element i makes of the value v.*)

Folding(D, V, h, base, pick, next) ==
  /\ h \in [SUBSET D -> V]
  /\ \A s \in SUBSET D : h[s] = IF s = {} THEN base ELSE next[<<pick[s], h[s \ {pick[s]}]>>]

Picking(D, pick) == \A s \in SUBSET D : s # {} => pick[s] \in s

LEMMA Picked ==
  ASSUME NEW D, IsFiniteSet(D), NEW pick, Picking(D, pick), NEW s \in SUBSET D, s # {}
  PROVE  /\ pick[s] \in D /\ s \ {pick[s]} \in SUBSET D
         /\ Cardinality(s) \in Nat /\ Cardinality(s \ {pick[s]}) = Cardinality(s) - 1
<1>1. pick[s] \in s
  BY DEF Picking
<1>2. IsFiniteSet(s) /\ Cardinality(s) \in Nat
  BY FS_Subset, FS_CardinalityType
<1>3. QED
  BY <1>1, <1>2, FS_RemoveElement

\* Every fold has a value.
LEMMA FoldingExists ==
  ASSUME NEW D, IsFiniteSet(D), NEW V, NEW base \in V, NEW pick, Picking(D, pick),
         NEW next \in [D \X V -> V]
  PROVE  \E h : Folding(D, V, h, base, pick, next)
<1> DEFINE Step(g, s) == IF s = {} THEN base ELSE next[<<pick[s], g[s \ {pick[s]}]>>]
           Upto(n) == {s \in SUBSET D : Cardinality(s) <= n}
           Values(n) == {g \in [SUBSET D -> V] : \A s \in Upto(n) : g[s] = Step(g, s)}
           Missing == {n \in Nat : Values(n) = {}}
<1>1. \A s \in SUBSET D : IsFiniteSet(s) /\ Cardinality(s) \in Nat
  BY FS_Subset, FS_CardinalityType
<1>2. Values(0) # {}
  <2>1. \A s \in Upto(0) : s = {}
    BY <1>1, FS_EmptySet
  <2>2. [s \in SUBSET D |-> base] \in Values(0)
    BY <2>1
  <2>3. QED
    BY <2>2
<1>3. ASSUME NEW n \in Nat, Values(n) # {} PROVE Values(n + 1) # {}
  <2>1. PICK g \in [SUBSET D -> V] : \A s \in Upto(n) : g[s] = Step(g, s)
    BY <1>3
  <2> DEFINE h == [s \in SUBSET D |-> Step(g, s)]
  <2>2. ASSUME NEW s \in SUBSET D PROVE Step(g, s) \in V
    <3>1. CASE s = {}
      BY <3>1
    <3>2. CASE s # {}
      <4>1. pick[s] \in D /\ s \ {pick[s]} \in SUBSET D
        BY <3>2, Picked
      <4>2. g[s \ {pick[s]}] \in V
        BY <4>1
      <4>3. QED
        BY <3>2, <4>1, <4>2
    <3>3. QED
      BY <3>1, <3>2
  <2>3. h \in [SUBSET D -> V]
    BY <2>2, SMTT(30)
  <2>4. ASSUME NEW s \in Upto(n + 1) PROVE h[s] = Step(h, s)
    <3>1. CASE s = {}
      BY <3>1, SMTT(30)
    <3>2. CASE s # {}
      <4>1. /\ s \ {pick[s]} \in SUBSET D /\ Cardinality(s) \in Nat
            /\ Cardinality(s \ {pick[s]}) = Cardinality(s) - 1
        BY <3>2, Picked
      <4>2. s \ {pick[s]} \in Upto(n)
        BY <4>1
      <4>3. h[s \ {pick[s]}] = g[s \ {pick[s]}]
        BY <2>1, <4>1, <4>2
      <4>4. h[s] = Step(g, s)
        OBVIOUS
      <4>5. QED
        BY <3>2, <4>3, <4>4
    <3>3. QED
      BY <3>1, <3>2
  <2>5. h \in Values(n + 1)
    BY <2>3, <2>4
  <2>6. QED
    BY <2>5
<1>4. ASSUME Missing # {} PROVE FALSE
  <2>1. PICK n \in Missing : \A m \in Missing : n <= m
    <3>1. Missing \subseteq Nat
      OBVIOUS
    <3> HIDE DEF Missing
    <3>2. QED
      BY <1>4, <3>1, LeastSize
  <2> HIDE DEF Values
  <2>2. n \in Nat /\ n # 0 /\ n - 1 \notin Missing
    BY <1>2, <2>1
  <2>3. n - 1 \in Nat /\ n = (n - 1) + 1
    BY <2>2
  <2>4. Values(n - 1) # {}
    BY <2>2, <2>3
  <2>5. Values(n) # {}
    BY <1>3, <2>3, <2>4
  <2>6. QED
    BY <2>1, <2>5
<1>5. PICK g \in [SUBSET D -> V] : \A s \in Upto(Cardinality(D)) : g[s] = Step(g, s)
  <2>1. Cardinality(D) \in Nat
    BY FS_CardinalityType
  <2> HIDE DEF Values
  <2>2. Values(Cardinality(D)) # {}
    BY <1>4, <2>1
  <2>3. QED
    BY <2>2 DEF Values
<1>6. ASSUME NEW s \in SUBSET D PROVE s \in Upto(Cardinality(D))
  BY FS_Subset
<1>7. Folding(D, V, g, base, pick, next)
  BY <1>5, <1>6 DEF Folding
<1>8. QED
  BY <1>7

\* Two folds that take the elements in the same order keep what holds of their
\* first values and is kept by every element.
Keeping(D, V, W, R, next, then) ==
  \A i \in D, v \in V, w \in W : <<v, w>> \in R => <<next[<<i, v>>], then[<<i, w>>]>> \in R

LEMMA FoldsRelated ==
  ASSUME NEW D, IsFiniteSet(D), NEW pick, Picking(D, pick), NEW V, NEW W,
         NEW h, NEW base, NEW next, Folding(D, V, h, base, pick, next),
         NEW k, NEW first, NEW then, Folding(D, W, k, first, pick, then),
         NEW R, <<base, first>> \in R, Keeping(D, V, W, R, next, then)
  PROVE  <<h[D], k[D]>> \in R
<1> DEFINE Apart == {s \in SUBSET D : <<h[s], k[s]>> \notin R}
           Sizes == {Cardinality(s) : s \in Apart}
<1>1. \A s \in SUBSET D : IsFiniteSet(s) /\ Cardinality(s) \in Nat
  BY FS_Subset, FS_CardinalityType
<1>2. ASSUME Apart # {} PROVE FALSE
  <2>1. PICK n \in Sizes : \A m \in Sizes : n <= m
    <3>1. Sizes \subseteq Nat /\ Sizes # {}
      BY <1>1, <1>2
    <3> HIDE DEF Sizes
    <3>2. QED
      BY <3>1, LeastSize
  <2>2. PICK s \in Apart : n = Cardinality(s)
    OBVIOUS
  <2>3. s \in SUBSET D /\ s # {}
    <3>1. h[{}] = base /\ k[{}] = first
      BY DEF Folding
    <3>2. QED
      BY <2>2, <3>1
  <2> DEFINE i == pick[s]
             rest == s \ {i}
  <2>4. /\ i \in D /\ rest \in SUBSET D
        /\ n \in Nat /\ Cardinality(rest) = n - 1
    <3> HIDE DEF Apart, Sizes
    <3>1. /\ i \in D /\ rest \in SUBSET D
          /\ Cardinality(s) \in Nat /\ Cardinality(rest) = Cardinality(s) - 1
      BY <2>3, Picked
    <3>2. QED
      BY <2>2, <3>1
  <2> HIDE DEF i, rest
  <2>5. rest \notin Apart
    <3>1. rest \in Apart => Cardinality(rest) \in Sizes
      OBVIOUS
    <3> HIDE DEF Apart, Sizes
    <3>2. rest \in Apart => n <= Cardinality(rest)
      BY <2>1, <3>1
    <3>3. ~(n <= n - 1)
      BY <2>4
    <3>4. QED
      BY <2>4, <3>2, <3>3
  <2>6. <<h[rest], k[rest]>> \in R /\ h[rest] \in V /\ k[rest] \in W
    BY <2>4, <2>5 DEF Folding
  <2>7. h[s] = next[<<i, h[rest]>>] /\ k[s] = then[<<i, k[rest]>>]
    BY <2>3 DEF Folding, i, rest
  <2>8. <<h[s], k[s]>> \in R
    BY <2>4, <2>6, <2>7 DEF Keeping
  <2>9. QED
    BY <2>2, <2>8
<1>3. QED
  BY <1>2

\* What computes like the fold is the fold.
Computing(D, V, f, base, pick, next) ==
  /\ f[{}] = base
  /\ \A s \in SUBSET D :
       s # {} /\ f[s \ {pick[s]}] \in V => f[s] = next[<<pick[s], f[s \ {pick[s]}]>>]

LEMMA FoldingIs ==
  ASSUME NEW D, IsFiniteSet(D), NEW pick, Picking(D, pick), NEW V, NEW h, NEW base, NEW next,
         Folding(D, V, h, base, pick, next), NEW f, Computing(D, V, f, base, pick, next)
  PROVE  f[D] = h[D] /\ h[D] \in V
<1> DEFINE Apart == {s \in SUBSET D : f[s] # h[s]}
           Sizes == {Cardinality(s) : s \in Apart}
<1>1. \A s \in SUBSET D : IsFiniteSet(s) /\ Cardinality(s) \in Nat
  BY FS_Subset, FS_CardinalityType
<1>2. ASSUME Apart # {} PROVE FALSE
  <2>1. PICK n \in Sizes : \A m \in Sizes : n <= m
    <3>1. Sizes \subseteq Nat /\ Sizes # {}
      BY <1>1, <1>2
    <3> HIDE DEF Sizes
    <3>2. QED
      BY <3>1, LeastSize
  <2>2. PICK s \in Apart : n = Cardinality(s)
    OBVIOUS
  <2>3. s \in SUBSET D /\ s # {} /\ f[s] # h[s]
    <3>1. h[{}] = base
      BY DEF Folding
    <3>2. QED
      BY <2>2, <3>1 DEF Computing
  <2> DEFINE rest == s \ {pick[s]}
  <2> HIDE DEF Apart, Sizes
  <2>4. /\ rest \in SUBSET D
        /\ Cardinality(s) \in Nat /\ Cardinality(rest) = Cardinality(s) - 1
    BY <2>3, Picked
  <2>5. Cardinality(rest) \notin Sizes
    <3>1. Cardinality(rest) \in Sizes => n <= Cardinality(rest)
      BY <2>1
    <3> HIDE DEF rest
    <3>2. QED
      BY <2>2, <2>4, <3>1
  <2>6. f[rest] = h[rest] /\ h[rest] \in V
    <3>1. rest \notin Apart
      BY <2>5 DEF Sizes
    <3>2. QED
      BY <2>4, <3>1 DEF Apart, Folding
  <2>7. h[s] = next[<<pick[s], h[rest]>>] /\ f[s] = next[<<pick[s], f[rest]>>]
    BY <2>3, <2>6 DEF Folding, Computing
  <2>8. QED
    BY <2>3, <2>6, <2>7
<1>3. D \in SUBSET D
  OBVIOUS
<1>4. QED
  BY <1>2, <1>3 DEF Folding

LEMMA Largest ==
  ASSUME NEW n \in Nat, NEW S \in SUBSET (0 .. n), S # {}
  PROVE  Max(S) \in S /\ \A y \in S : Max(S) >= y
<1> DEFINE T == {n - x : x \in S}
<1>1. T \subseteq Nat /\ T # {}
  <2>1. ASSUME NEW x \in S PROVE n - x \in Nat
    <3>1. x \in 0 .. n
      OBVIOUS
    <3>2. QED
      BY <3>1
  <2>2. QED
    BY <2>1
<1>2. PICK t \in T : \A m \in T : t <= m
  <2> HIDE DEF T
  <2>1. QED
    BY <1>1, LeastSize
<1>3. PICK x \in S : t = n - x
  OBVIOUS
<1>4. ASSUME NEW y \in S PROVE x >= y
  <2>1. n - y \in T
    OBVIOUS
  <2>2. t <= n - y
    BY <1>2, <2>1
  <2>3. QED
    BY <1>3, <2>2
<1>5. QED
  BY <1>4, Zenon DEF Max

-----------------------------------------------------------------------------
(* Averages of prices and of their mirror images.                          *)

Chosen(D) == [s \in SUBSET D |-> CHOOSE x \in s : TRUE]
Latest(D) == [s \in SUBSET D |-> Max(s)]

Places(t)  == 1 .. Len(t)
Adding(t)  == [e \in Places(t) \X Int |-> t[e[1]] + e[2]]
Average    == [n : Int, scale : Int]
Averaging(t, period) ==
  [e \in Places(t) \X Average |-> [n |-> e[2].n * (period - 1) + 2 * t[e[1]] * e[2].scale,
                                   scale |-> e[2].scale * (period + 1)]]

LEMMA PlacesPicked ==
  ASSUME NEW t \in Seq(Int)
  PROVE  /\ IsFiniteSet(Places(t)) /\ Cardinality(Places(t)) = Len(t)
         /\ Picking(Places(t), Chosen(Places(t))) /\ Picking(Places(t), Latest(Places(t)))
<1>0. Len(t) \in Nat
  BY LenProperties
<1>1. IsFiniteSet(Places(t)) /\ Cardinality(Places(t)) = Len(t)
  <2> DEFINE n == Len(t)
  <2>1. n \in Nat
    BY <1>0
  <2> HIDE DEF n
  <2>2. IsFiniteSet(1 .. n) /\ Cardinality(1 .. n) = n
    BY <2>1, FS_Interval
  <2>3. QED
    BY <2>2 DEF n, Places
<1>2. Picking(Places(t), Chosen(Places(t)))
  BY DEF Picking, Chosen
<1>3. ASSUME NEW s \in SUBSET Places(t), s # {} PROVE Max(s) \in s
  <2>1. s \in SUBSET (0 .. Len(t))
    BY <1>0 DEF Places
  <2>2. QED
    BY <1>0, <1>3, <2>1, Largest
<1>4. Picking(Places(t), Latest(Places(t)))
  BY <1>3 DEF Picking, Latest
<1>5. QED
  BY <1>1, <1>2, <1>4

LEMMA SumIs ==
  ASSUME NEW t \in Seq(Int), NEW h,
         Folding(Places(t), Int, h, 0, Chosen(Places(t)), Adding(t))
  PROVE  SumOf(t) = h[Places(t)]
<1> DEFINE D == Places(t)
           any(s) == CHOOSE x \in s : TRUE
           Step(g, s) == IF s = {} THEN 0 ELSE t[any(s)] + g[s \ {any(s)}]
           fold == CHOOSE g : g = [s \in SUBSET D |-> Step(g, s)]
<1>0. DOMAIN t = D
  BY LenProperties DEF Places
<1>1. SumOf(t) = fold[D]
  BY <1>0 DEF SumOf, FoldSeq, FoldFunction, FoldFunctionOnSet, MapThenFoldSet
<1>2. \A s \in SUBSET D : s # {} => any(s) \in s /\ Chosen(D)[s] = any(s)
  BY DEF Chosen
<1> HIDE DEF any
<1>3. \A x \in D, v \in Int : Adding(t)[<<x, v>>] = t[x] + v
  BY DEF Adding
<1>4. h = [s \in SUBSET D |-> Step(h, s)]
  <2>1. h \in [SUBSET D -> Int]
    BY DEF Folding
  <2>2. ASSUME NEW s \in SUBSET D PROVE h[s] = Step(h, s)
    <3>1. CASE s = {}
      BY <3>1 DEF Folding
    <3>2. CASE s # {}
      <4>1. h[s] = Adding(t)[<<any(s), h[s \ {any(s)}]>>]
        BY <1>2, <3>2 DEF Folding
      <4>2. any(s) \in D /\ h[s \ {any(s)}] \in Int
        BY <1>2, <2>1, <3>2
      <4>3. QED
        BY <1>3, <3>2, <4>1, <4>2
    <3>3. QED
      BY <3>1, <3>2
  <2>3. QED
    BY <2>1, <2>2
<1>5. fold = [s \in SUBSET D |-> Step(fold, s)]
  BY <1>4
<1> HIDE DEF fold
<1>6. fold[{}] = 0
  BY <1>5
<1>7. ASSUME NEW s \in SUBSET D, s # {}, fold[s \ {Chosen(D)[s]}] \in Int
      PROVE  fold[s] = Adding(t)[<<Chosen(D)[s], fold[s \ {Chosen(D)[s]}]>>]
  <2>1. Chosen(D)[s] = any(s) /\ any(s) \in D
    BY <1>2, <1>7
  <2>2. fold[s] = t[any(s)] + fold[s \ {any(s)}]
    BY <1>5, <1>7
  <2>3. QED
    BY <1>3, <1>7, <2>1, <2>2
<1>8. Computing(D, Int, fold, 0, Chosen(D), Adding(t))
  BY <1>6, <1>7 DEF Computing
<1>9. IsFiniteSet(D) /\ Picking(D, Chosen(D)) /\ Folding(D, Int, h, 0, Chosen(D), Adding(t))
  BY PlacesPicked
<1> HIDE DEF D
<1>10. fold[D] = h[D]
  BY <1>8, <1>9, FoldingIs
<1>11. QED
  BY <1>1, <1>10 DEF D

LEMMA SumFolds ==
  ASSUME NEW t \in Seq(Int)
  PROVE  \E h : Folding(Places(t), Int, h, 0, Chosen(Places(t)), Adding(t))
<1>1. \A x \in Places(t) : t[x] \in Int
  BY ElementOfSeq DEF Places
<1>2. Adding(t) \in [Places(t) \X Int -> Int]
  BY <1>1 DEF Adding
<1>3. 0 \in Int
  OBVIOUS
<1>4. QED
  BY <1>2, <1>3, PlacesPicked, FoldingExists

\* u holds the prices of t in the mirror.
Opposite(t, u) == Len(u) = Len(t) /\ \A i \in Places(t) : u[i] = MaxPrice - t[i]

\* The sum of the mirror image of prices.
LEMMA SumMirror ==
  ASSUME NEW t \in Seq(Int), NEW u \in Seq(Int), Opposite(t, u)
  PROVE  SumOf(t) \in Int /\ SumOf(u) = MaxPrice * Len(t) - SumOf(t)
<1> DEFINE D == Places(t)
<1>0. MaxPrice \in Int /\ D = Places(u) /\ IsFiniteSet(D) /\ Picking(D, Chosen(D)) /\ Cardinality(D) = Len(t)
  BY Bounds, PlacesPicked DEF Opposite, Places
<1>1. PICK h : Folding(D, Int, h, 0, Chosen(D), Adding(t))
  BY SumFolds
<1>2. SumOf(t) = h[D] /\ h[D] \in Int
  BY <1>1, SumIs DEF Folding
<1> DEFINE k == [s \in SUBSET D |-> MaxPrice * Cardinality(s) - h[s]]
<1>3. \A s \in SUBSET D : h[s] \in Int /\ Cardinality(s) \in Nat
  BY <1>0, <1>1, FS_Subset, FS_CardinalityType DEF Folding
<1>4. ASSUME NEW s \in SUBSET D PROVE k[s] \in Int
  <2>1. MaxPrice * Cardinality(s) \in Int
    BY <1>0, <1>3, Distribute
  <2>2. QED
    BY <1>3, <2>1
<1>5. k[{}] = 0
  <2>1. h[{}] = 0 /\ Cardinality({}) = 0 /\ {} \in SUBSET D
    BY <1>1, FS_EmptySet DEF Folding
  <2>2. MaxPrice * 0 = 0
    BY <1>0, Distribute
  <2>3. QED
    BY <2>1, <2>2
<1>6. ASSUME NEW s \in SUBSET D, s # {}
      PROVE  k[s] = Adding(u)[<<Chosen(D)[s], k[s \ {Chosen(D)[s]}]>>]
  <2> DEFINE x == Chosen(D)[s]
             rest == s \ {x}
             n == Cardinality(s)
  <2>1. /\ x \in D /\ rest \in SUBSET D /\ n \in Nat /\ Cardinality(rest) = n - 1
    <3> DEFINE pick == Chosen(D)
    <3>1. IsFiniteSet(D) /\ Picking(D, pick) /\ s \in SUBSET D
      BY <1>0
    <3> HIDE DEF D, pick
    <3>2. /\ pick[s] \in D /\ s \ {pick[s]} \in SUBSET D
          /\ Cardinality(s) \in Nat /\ Cardinality(s \ {pick[s]}) = Cardinality(s) - 1
      BY <1>6, <3>1, Picked, SMTT(30)
    <3>3. QED
      BY <3>2 DEF pick
  <2>2. h[s] = Adding(t)[<<x, h[rest]>>]
    BY <1>1, <1>6 DEF Folding
  <2>3. t[x] \in Int /\ u[x] = MaxPrice - t[x] /\ h[rest] \in Int /\ k[rest] \in Int
    <3> HIDE DEF k, x, rest
    <3>1. x \in 1 .. Len(t)
      BY <2>1 DEF Places
    <3>2. t[x] \in Int
      BY <3>1, ElementOfSeq
    <3>3. QED
      BY <1>3, <1>4, <2>1, <3>2 DEF Opposite
  <2>4. k[s] = MaxPrice * n - h[s] /\ k[rest] = MaxPrice * Cardinality(rest) - h[rest]
    BY <2>1
  <2> HIDE DEF k, n, rest, x
  <2>5. h[s] = t[x] + h[rest]
    BY <2>1, <2>2, <2>3 DEF Adding
  <2>6. Adding(u)[<<x, k[rest]>>] = u[x] + k[rest]
    BY <1>0, <2>1, <2>3 DEF Adding
  <2>7. MaxPrice * n = MaxPrice * (n - 1) + MaxPrice /\ MaxPrice * (n - 1) \in Int
    BY <1>0, <2>1, Distribute
  <2>8. k[s] = u[x] + k[rest]
    <3> DEFINE p == MaxPrice * n
               q == MaxPrice * (n - 1)
    <3>1. p \in Int /\ q \in Int /\ p = q + MaxPrice
      BY <1>0, <2>7
    <3>2. k[s] = p - h[s] /\ k[rest] = q - h[rest]
      BY <2>1, <2>4
    <3> HIDE DEF p, q
    <3>3. QED
      BY <1>0, <2>3, <2>5, <3>1, <3>2
  <2>9. QED
    BY <2>6, <2>8 DEF rest, x
<1>7. Folding(D, Int, k, 0, Chosen(D), Adding(u))
  <2>1. k \in [SUBSET D -> Int]
    BY <1>4
  <2> HIDE DEF k
  <2>2. QED
    BY <1>5, <1>6, <2>1 DEF Folding
<1>8. SumOf(u) = k[D]
  <2> HIDE DEF k
  <2>1. QED
    BY <1>0, <1>7, SumIs
<1>9. QED
  BY <1>0, <1>2, <1>8

LEMMA AveragingIs ==
  ASSUME NEW t \in Seq(Int), NEW period \in Nat
  PROVE  /\ Averaging(t, period) \in [Places(t) \X Average -> Average]
         /\ \A x \in Places(t), a \in Average :
              Averaging(t, period)[<<x, a>>] = [n |-> a.n * (period - 1) + 2 * t[x] * a.scale,
                                                scale |-> a.scale * (period + 1)]
<1>1. ASSUME NEW x \in Places(t), NEW a \in Average
      PROVE  [n |-> a.n * (period - 1) + 2 * t[x] * a.scale, scale |-> a.scale * (period + 1)] \in Average
  <2>1. a.n \in Int /\ a.scale \in Int /\ t[x] \in Int /\ period - 1 \in Int /\ period + 1 \in Int
    BY ElementOfSeq DEF Average, Places
  <2>2. 2 * t[x] \in Int
    BY <2>1
  <2>3. a.n * (period - 1) \in Int /\ (2 * t[x]) * a.scale \in Int /\ a.scale * (period + 1) \in Int
    BY <2>1, <2>2, Distribute
  <2>4. QED
    BY <2>3 DEF Average
<1>2. ASSUME NEW e \in Places(t) \X Average PROVE Averaging(t, period)[e] \in Average
  <2>1. e[1] \in Places(t) /\ e[2] \in Average
    OBVIOUS
  <2>2. QED
    BY <1>1, <2>1 DEF Averaging
<1>3. Averaging(t, period) \in [Places(t) \X Average -> Average]
  BY <1>2 DEF Averaging
<1>4. QED
  BY <1>3 DEF Averaging

LEMMA AverageFolds ==
  ASSUME NEW t \in Seq(Int), NEW period \in Nat, NEW base \in Average
  PROVE  \E h : Folding(Places(t), Average, h, base, Latest(Places(t)), Averaging(t, period))
  BY AveragingIs, PlacesPicked, FoldingExists

LEMMA AveragingStep ==
  ASSUME NEW t \in Seq(Int), NEW period \in Nat, NEW x \in Places(t), NEW a \in Average
  PROVE  /\ Averaging(t, period)[<<x, a>>] = [n |-> a.n * (period - 1) + 2 * t[x] * a.scale,
                                              scale |-> a.scale * (period + 1)]
         /\ Averaging(t, period)[<<x, a>>] \in Average
<1>1. <<x, a>> \in Places(t) \X Average
  OBVIOUS
<1>2. Averaging(t, period) \in [Places(t) \X Average -> Average]
  BY AveragingIs
<1>3. Averaging(t, period)[<<x, a>>] \in Average
  BY <1>1, <1>2
<1>4. QED
  BY <1>1, <1>3, AveragingIs

\* An average starts as the sum of the first prices; those after them are
\* taken one by one.
Start(values, period) == [n |-> SumOf(SubSeq(values, 1, period)), scale |-> period]
After(values, period) == SubSeq(values, period + 1, Len(values))

LEMMA AverageIs ==
  ASSUME NEW values, NEW period \in Nat,
         After(values, period) \in Seq(Int), Start(values, period) \in Average, NEW h,
         Folding(Places(After(values, period)), Average, h, Start(values, period),
                 Latest(Places(After(values, period))), Averaging(After(values, period), period))
  PROVE  EmaNumerator(values, period) = h[Places(After(values, period))]
<1> DEFINE t == After(values, period)
           base == Start(values, period)
           D == Places(t)
           Next1(a, v) == [n |-> a.n * (period - 1) + 2 * v * a.scale, scale |-> a.scale * (period + 1)]
           Step(g, s) == IF s = {} THEN base ELSE Next1(g[s \ {Max(s)}], t[Max(s)])
           fold == CHOOSE g : g = [s \in SUBSET D |-> Step(g, s)]
<1>0. DOMAIN t = D
  BY LenProperties DEF Places
<1>1. EmaNumerator(values, period) = fold[D]
  BY <1>0 DEF After, Start, EmaNumerator, FoldLeft, MapThenFoldSet
<1>2. \A s \in SUBSET D : Latest(D)[s] = Max(s)
  BY DEF Latest
<1>3. \A s \in SUBSET D : s # {} => Max(s) \in s
  BY <1>2, PlacesPicked DEF Picking
<1>4. \A x \in D, a \in Average : Averaging(t, period)[<<x, a>>] = Next1(a, t[x])
  BY AveragingIs
<1> HIDE DEF Next1
<1>5. h = [s \in SUBSET D |-> Step(h, s)]
  <2>1. h \in [SUBSET D -> Average]
    BY DEF Folding
  <2>2. ASSUME NEW s \in SUBSET D PROVE h[s] = Step(h, s)
    <3>1. CASE s = {}
      BY <3>1 DEF Folding
    <3>2. CASE s # {}
      <4>1. h[s] = Averaging(t, period)[<<Max(s), h[s \ {Max(s)}]>>]
        BY <1>2, <3>2 DEF Folding
      <4>2. Max(s) \in D /\ h[s \ {Max(s)}] \in Average
        BY <1>3, <2>1, <3>2
      <4>3. QED
        BY <1>4, <3>2, <4>1, <4>2
    <3>3. QED
      BY <3>1, <3>2
  <2>3. QED
    BY <2>1, <2>2
<1>6. fold = [s \in SUBSET D |-> Step(fold, s)]
  BY <1>5
<1> HIDE DEF fold
<1>7. fold[{}] = base
  BY <1>6
<1>8. ASSUME NEW s \in SUBSET D, s # {}, fold[s \ {Latest(D)[s]}] \in Average
      PROVE  fold[s] = Averaging(t, period)[<<Latest(D)[s], fold[s \ {Latest(D)[s]}]>>]
  <2>1. Latest(D)[s] = Max(s) /\ Max(s) \in D
    BY <1>2, <1>3, <1>8
  <2>2. fold[s] = Next1(fold[s \ {Max(s)}], t[Max(s)])
    BY <1>6, <1>8
  <2>3. QED
    BY <1>4, <1>8, <2>1, <2>2
<1>9. Computing(D, Average, fold, base, Latest(D), Averaging(t, period))
  BY <1>7, <1>8 DEF Computing
<1>10. IsFiniteSet(D) /\ Picking(D, Latest(D)) /\ Folding(D, Average, h, base, Latest(D), Averaging(t, period))
  BY PlacesPicked
<1> HIDE DEF D
<1>11. fold[D] = h[D]
  BY <1>9, <1>10, FoldingIs
<1>12. QED
  BY <1>1, <1>11 DEF D

\* The average of mirrored prices is the mirror image of the average.
Reflected == {e \in Average \X Average :
                e[2].scale = e[1].scale /\ e[2].n = MaxPrice * e[1].scale - e[1].n}

LEMMA ReflectedStep ==
  ASSUME NEW P \in Int, NEW p \in Int, NEW v \in Int, NEW n \in Int, NEW scale \in Int
  PROVE  (P * scale - n) * (p - 1) + 2 * (P - v) * scale
           = P * (scale * (p + 1)) - (n * (p - 1) + 2 * v * scale)
  BY SMT

LEMMA Parts ==
  ASSUME NEW S, NEW t \in Seq(S), NEW m \in 1 .. Len(t) + 1, NEW n \in (m - 1) .. Len(t)
  PROVE  /\ SubSeq(t, m, n) \in Seq(S) /\ Len(SubSeq(t, m, n)) = n - m + 1
         /\ \A i \in 1 .. n - m + 1 : m + i - 1 \in 1 .. Len(t) /\ SubSeq(t, m, n)[i] = t[m + i - 1]
<1>0. Len(t) \in Nat /\ m \in Int /\ n \in Int
  BY LenProperties
<1>1. \A i \in m .. n : t[i] \in S
  BY <1>0, ElementOfSeq
<1>2. /\ SubSeq(t, m, n) \in Seq(S)
      /\ Len(SubSeq(t, m, n)) = IF m <= n THEN n - m + 1 ELSE 0
      /\ \A i \in 1 .. n - m + 1 : SubSeq(t, m, n)[i] = t[m + i - 1]
  BY <1>0, <1>1, SubSeqProperties, SMTT(30)
<1>3. QED
  BY <1>0, <1>2

LEMMA OppositeParts ==
  ASSUME NEW t \in Seq(Int), NEW u \in Seq(Int), Opposite(t, u),
         NEW m \in 1 .. Len(t) + 1, NEW n \in (m - 1) .. Len(t)
  PROVE  /\ SubSeq(t, m, n) \in Seq(Int) /\ SubSeq(u, m, n) \in Seq(Int)
         /\ Len(SubSeq(t, m, n)) = n - m + 1
         /\ Opposite(SubSeq(t, m, n), SubSeq(u, m, n))
<1>1. /\ SubSeq(t, m, n) \in Seq(Int) /\ Len(SubSeq(t, m, n)) = n - m + 1
      /\ \A i \in 1 .. n - m + 1 : m + i - 1 \in 1 .. Len(t) /\ SubSeq(t, m, n)[i] = t[m + i - 1]
  BY Parts
<1>2. /\ SubSeq(u, m, n) \in Seq(Int) /\ Len(SubSeq(u, m, n)) = n - m + 1
      /\ \A i \in 1 .. n - m + 1 : m + i - 1 \in 1 .. Len(u) /\ SubSeq(u, m, n)[i] = u[m + i - 1]
  <2>1. m \in 1 .. Len(u) + 1 /\ n \in (m - 1) .. Len(u)
    BY DEF Opposite
  <2>2. QED
    BY <2>1, Parts, SMTT(30)
<1>3. \A i \in 1 .. n - m + 1 : SubSeq(u, m, n)[i] = MaxPrice - SubSeq(t, m, n)[i]
  BY <1>1, <1>2 DEF Opposite, Places
<1>4. QED
  BY <1>1, <1>2, <1>3 DEF Opposite, Places

LEMMA AverageMirror ==
  ASSUME NEW values \in Seq(Int), NEW mirrored \in Seq(Int), Opposite(values, mirrored),
         NEW period \in 1 .. Len(values)
  PROVE  <<EmaNumerator(values, period), EmaNumerator(mirrored, period)>> \in Reflected
<1> DEFINE t == After(values, period)
           u == After(mirrored, period)
           base  == Start(values, period)
           first == Start(mirrored, period)
<1>0. Len(values) \in Nat /\ Len(mirrored) = Len(values) /\ MaxPrice \in Int /\ period \in Nat
  BY LenProperties, Bounds DEF Opposite
<1>1. t \in Seq(Int) /\ u \in Seq(Int) /\ Opposite(t, u)
  <2>1. period + 1 \in 1 .. Len(values) + 1 /\ Len(values) \in ((period + 1) - 1) .. Len(values)
    BY <1>0
  <2>2. QED
    BY <1>0, <2>1, OppositeParts DEF After
<1>2. base \in Average /\ first \in Average /\ <<base, first>> \in Reflected
  <2>1. 1 \in 1 .. Len(values) + 1 /\ period \in (1 - 1) .. Len(values) /\ period - 1 + 1 = period
    BY <1>0
  <2> DEFINE s == SubSeq(values, 1, period)
             r == SubSeq(mirrored, 1, period)
  <2>2. s \in Seq(Int) /\ r \in Seq(Int) /\ Len(s) = period /\ Opposite(s, r)
    BY <2>1, OppositeParts
  <2> HIDE DEF s, r
  <2>3. SumOf(s) \in Int /\ SumOf(r) = MaxPrice * period - SumOf(s) /\ MaxPrice * period \in Int
    <3>1. SumOf(s) \in Int /\ SumOf(r) = MaxPrice * Len(s) - SumOf(s)
      BY <2>2, SumMirror
    <3>2. MaxPrice * period \in Int
      BY <1>0, Distribute
    <3>3. QED
      BY <2>2, <3>1, <3>2
  <2>4. base = [n |-> SumOf(s), scale |-> period] /\ first = [n |-> SumOf(r), scale |-> period]
    BY DEF s, r, Start
  <2> HIDE DEF base, first
  <2>5. QED
    BY <1>0, <2>3, <2>4 DEF Average, Reflected
<1> HIDE DEF t, u, base, first
<1> DEFINE D == Places(t)
<1>3. IsFiniteSet(D) /\ Picking(D, Latest(D)) /\ Places(u) = D
  BY <1>1, PlacesPicked DEF Opposite, Places
<1>4. PICK h : Folding(D, Average, h, base, Latest(D), Averaging(t, period))
  BY <1>0, <1>1, <1>2, AverageFolds
<1>5. PICK k : Folding(D, Average, k, first, Latest(D), Averaging(u, period))
  BY <1>0, <1>1, <1>2, <1>3, AverageFolds
<1>6. ASSUME NEW i \in D, NEW v \in Average, NEW w \in Average, <<v, w>> \in Reflected
      PROVE  <<Averaging(t, period)[<<i, v>>], Averaging(u, period)[<<i, w>>]>> \in Reflected
  <2>1. t[i] \in Int /\ u[i] = MaxPrice - t[i]
    BY <1>1, ElementOfSeq DEF Opposite, Places
  <2> DEFINE a == Averaging(t, period)[<<i, v>>]
             b == Averaging(u, period)[<<i, w>>]
  <2>2. /\ a = [n |-> v.n * (period - 1) + 2 * t[i] * v.scale, scale |-> v.scale * (period + 1)]
        /\ b = [n |-> w.n * (period - 1) + 2 * u[i] * w.scale, scale |-> w.scale * (period + 1)]
        /\ a \in Average /\ b \in Average
    <3>1. i \in Places(t) /\ i \in Places(u)
      BY <1>3
    <3>2. a = [n |-> v.n * (period - 1) + 2 * t[i] * v.scale, scale |-> v.scale * (period + 1)]
          /\ a \in Average
      BY <1>0, <1>1, <3>1, AveragingStep
    <3>3. b = [n |-> w.n * (period - 1) + 2 * u[i] * w.scale, scale |-> w.scale * (period + 1)]
          /\ b \in Average
      BY <1>0, <1>1, <3>1, AveragingStep
    <3>4. QED
      BY <3>2, <3>3
  <2> HIDE DEF a, b
  <2>3. v.n \in Int /\ v.scale \in Int /\ w.scale = v.scale /\ w.n = MaxPrice * v.scale - v.n
    BY <1>6 DEF Reflected, Average
  <2>4. w.n * (period - 1) + 2 * u[i] * w.scale
          = MaxPrice * (v.scale * (period + 1)) - (v.n * (period - 1) + 2 * t[i] * v.scale)
    <3> DEFINE x == t[i]
               n == v.n
               scale == v.scale
    <3>1. x \in Int /\ n \in Int /\ scale \in Int /\ period \in Int
      BY <1>0, <2>1, <2>3
    <3>2. u[i] = MaxPrice - x /\ w.scale = scale /\ w.n = MaxPrice * scale - n
      BY <2>1, <2>3
    <3> HIDE DEF x, n, scale
    <3>3. (MaxPrice * scale - n) * (period - 1) + 2 * (MaxPrice - x) * scale
            = MaxPrice * (scale * (period + 1)) - (n * (period - 1) + 2 * x * scale)
      BY <1>0, <3>1, ReflectedStep
    <3>4. QED
      BY <3>2, <3>3 DEF x, n, scale
  <2>5. b.scale = a.scale /\ b.n = MaxPrice * a.scale - a.n
    BY <2>2, <2>3, <2>4
  <2>6. QED
    BY <2>2, <2>5 DEF Reflected, a, b
<1>7. <<h[D], k[D]>> \in Reflected
  <2>1. \A i \in D, v \in Average, w \in Average : <<v, w>> \in Reflected =>
          <<Averaging(t, period)[<<i, v>>], Averaging(u, period)[<<i, w>>]>> \in Reflected
    BY <1>6
  <2> DEFINE next == Averaging(t, period)
             then == Averaging(u, period)
             pick == Latest(D)
  <2>2. /\ IsFiniteSet(D) /\ Picking(D, pick) /\ Folding(D, Average, h, base, pick, next)
        /\ Folding(D, Average, k, first, pick, then)
    BY <1>3, <1>4, <1>5
  <2>3. Keeping(D, Average, Average, Reflected, next, then)
    BY <2>1 DEF Keeping
  <2> HIDE DEF D, next, then, pick
  <2>4. QED
    BY <1>2, <2>2, <2>3, FoldsRelated
<1>8. EmaNumerator(values, period) = h[D]
  BY <1>0, <1>1, <1>2, <1>4, AverageIs DEF t, base
<1>9. EmaNumerator(mirrored, period) = k[D]
  BY <1>0, <1>1, <1>2, <1>3, <1>5, AverageIs DEF u, first
<1>10. QED
  BY <1>7, <1>8, <1>9

-----------------------------------------------------------------------------
(* Candles and their mirror images.                                        *)

LEMMA ExtremeIs ==
  ASSUME NEW S \in SUBSET Int, NEW x \in S
  PROVE  /\ (\A y \in S : x >= y) => Max(S) = x
         /\ (\A y \in S : x <= y) => Min(S) = x
<1>1. ASSUME \A y \in S : x >= y PROVE Max(S) = x
  <2>1. \A z \in S : (\A y \in S : z >= y) <=> z = x
    BY <1>1
  <2>2. QED
    BY <2>1, Zenon DEF Max
<1>2. ASSUME \A y \in S : x <= y PROVE Min(S) = x
  <2>1. \A z \in S : (\A y \in S : z <= y) <=> z = x
    BY <1>2
  <2>2. QED
    BY <2>1, Zenon DEF Min
<1>3. QED
  BY <1>1, <1>2

LEMMA PairExtremes ==
  ASSUME NEW a \in Int, NEW b \in Int
  PROVE  /\ Max({a, b}) = IF a >= b THEN a ELSE b
         /\ Min({a, b}) = IF a <= b THEN a ELSE b
<1>1. {a, b} \in SUBSET Int /\ a \in {a, b} /\ b \in {a, b}
  OBVIOUS
<1>2. CASE a >= b
  <2>1. Max({a, b}) = a
    BY <1>1, <1>2, ExtremeIs
  <2>2. Min({a, b}) = b
    BY <1>1, <1>2, ExtremeIs
  <2>3. QED
    BY <1>2, <2>1, <2>2
<1>3. CASE a < b
  <2>1. Max({a, b}) = b
    BY <1>1, <1>3, ExtremeIs
  <2>2. Min({a, b}) = a
    BY <1>1, <1>3, ExtremeIs
  <2>3. QED
    BY <1>3, <2>1, <2>2
<1>4. QED
  BY <1>2, <1>3

Heights == 0 .. MaxPrice
Candles == Candle(0, MaxPrice)

\* The extremes of a set of prices change places in the mirror.
LEMMA ExtremesMirror ==
  ASSUME NEW S \in SUBSET Heights, S # {}
  PROVE  /\ Max(S) \in Heights /\ Min(S) \in Heights
         /\ Min({MaxPrice - x : x \in S}) = MaxPrice - Max(S)
         /\ Max({MaxPrice - x : x \in S}) = MaxPrice - Min(S)
<1> DEFINE T == {MaxPrice - x : x \in S}
<1>0. MaxPrice \in Nat
  BY Bounds
<1>1. S \in SUBSET (0 .. MaxPrice) /\ T \in SUBSET (0 .. MaxPrice) /\ T # {}
  <2>1. S \in SUBSET (0 .. MaxPrice) /\ T # {}
    BY DEF Heights
  <2>2. \A x \in 0 .. MaxPrice : MaxPrice - x \in 0 .. MaxPrice
    BY <1>0
  <2>3. QED
    BY <2>1, <2>2
<1>2. Max(S) \in S /\ \A y \in S : Max(S) >= y
  BY <1>0, <1>1, Largest
<1>3. Max(T) \in T /\ \A y \in T : Max(T) >= y
  <2> HIDE DEF T
  <2>1. QED
    BY <1>0, <1>1, Largest
<1>4. PICK low \in S : Max(T) = MaxPrice - low
  BY <1>3
<1>5. ASSUME NEW y \in S PROVE low <= y
  <2>1. MaxPrice - low >= MaxPrice - y
    BY <1>3, <1>4
  <2>2. QED
    BY <1>0, <1>1, <2>1
<1>6. Min(S) = low
  <2>1. S \in SUBSET Int
    BY <1>1
  <2>2. QED
    BY <1>5, <2>1, ExtremeIs
<1>7. Min(T) = MaxPrice - Max(S)
  <2> DEFINE bottom == MaxPrice - Max(S)
  <2>1. bottom \in T /\ T \in SUBSET Int
    BY <1>1, <1>2
  <2>2. ASSUME NEW x \in S PROVE bottom <= MaxPrice - x
    <3>1. S \in SUBSET Int
      BY <1>1
    <3>3. x \in Int /\ Max(S) \in Int
      BY <1>2, <3>1
    <3>4. Max(S) >= x
      BY <1>2
    <3>2. QED
      BY <1>0, <3>3, <3>4
  <2>3. \A y \in T : bottom <= y
    BY <2>2
  <2> HIDE DEF T, bottom
  <2>4. QED
    BY <2>1, <2>3, ExtremeIs DEF bottom
<1>8. QED
  BY <1>1, <1>2, <1>4, <1>6, <1>7 DEF Heights

LEMMA HeightsAreIntegers == MaxPrice \in Int /\ Heights \subseteq Int
  BY Bounds DEF Heights

LEMMA MirrorOf ==
  ASSUME NEW c \in Candles
  PROVE  /\ c.open \in Int /\ c.high \in Int /\ c.low \in Int /\ c.close \in Int /\ MaxPrice \in Int
         /\ c.open \in Heights /\ c.high \in Heights /\ c.low \in Heights /\ c.close \in Heights
         /\ Mirror(c).open = MaxPrice - c.open /\ Mirror(c).close = MaxPrice - c.close
         /\ Mirror(c).high = MaxPrice - c.low /\ Mirror(c).low = MaxPrice - c.high
<1>1. /\ c.open \in Heights /\ c.high \in Heights /\ c.low \in Heights /\ c.close \in Heights
      /\ Mirror(c).open = MaxPrice - c.open /\ Mirror(c).close = MaxPrice - c.close
      /\ Mirror(c).high = MaxPrice - c.low /\ Mirror(c).low = MaxPrice - c.high
  BY DEF Candles, Candle, Heights, Mirror
<1>2. QED
  BY <1>1, HeightsAreIntegers

LEMMA BehindMirror ==
  ASSUME NEW c \in Candles
  PROVE  Behind("SELL", Mirror(c)) = MaxPrice - Behind("BUY", c) /\ Behind("BUY", c) \in Int
  BY MirrorOf DEF Behind, Buy

LEMMA TriggerMirrors ==
  ASSUME NEW p \in Candles, NEW c \in Candles, NEW level \in Int
  PROVE  M5Trigger("BUY", p, c, level, 1) = M5Trigger("SELL", Mirror(p), Mirror(c), MaxPrice - level, 1)
<1> DEFINE m == Mirror(c)
           q == Mirror(p)
           l == MaxPrice - level
<1>0. /\ c.close \in Int /\ m.close = MaxPrice - c.close /\ c.open \in Int /\ m.open = MaxPrice - c.open
      /\ p.close \in Int /\ q.close = MaxPrice - p.close
      /\ Behind("BUY", c) \in Int /\ Behind("SELL", m) = MaxPrice - Behind("BUY", c)
  BY MirrorOf, BehindMirror
<1>1. /\ Beyond("SELL", q.close, l) = Beyond("BUY", p.close, level)
      /\ Beyond("SELL", m.close, l) = Beyond("BUY", c.close, level)
      /\ Beyond("SELL", m.close, m.open) = Beyond("BUY", c.close, c.open)
      /\ Beyond("SELL", Behind("SELL", m), l) = Beyond("BUY", Behind("BUY", c), level)
  BY <1>0, HeightsAreIntegers DEF Beyond, Buy, Abs
<1>2. QED
  BY <1>1 DEF M5Trigger

LEMMA ConfirmationMirrors ==
  ASSUME NEW c \in Candles, NEW level \in Int, NEW entry \in Int
  PROVE  confirmWaveMain("BUY", c, level, entry, 1)
           = confirmWaveMain("SELL", Mirror(c), MaxPrice - level, MaxPrice - entry, 1)
<1> DEFINE m == Mirror(c)
           l == MaxPrice - level
           e == MaxPrice - entry
<1>0. /\ c.close \in Int /\ m.close = MaxPrice - c.close /\ c.open \in Int /\ m.open = MaxPrice - c.open
      /\ Behind("BUY", c) \in Int /\ Behind("SELL", m) = MaxPrice - Behind("BUY", c)
  BY MirrorOf, BehindMirror
<1>1. /\ Beyond("SELL", m.close, l) = Beyond("BUY", c.close, level)
      /\ Beyond("SELL", m.close, e) = Beyond("BUY", c.close, entry)
      /\ Beyond("SELL", m.close, m.open) = Beyond("BUY", c.close, c.open)
      /\ Beyond("SELL", Behind("SELL", m), l) = Beyond("BUY", Behind("BUY", c), level)
      /\ Abs(m.close - m.open) = Abs(c.close - c.open)
  BY <1>0, HeightsAreIntegers DEF Beyond, Buy, Abs
<1>2. m.high - m.low = c.high - c.low
  BY MirrorOf
<1>3. QED
  BY <1>1, <1>2 DEF confirmWaveMain

LEMMA BarriersMirror ==
  ASSUME NEW c \in Candles, NEW stop \in Int, NEW target \in Int
  PROVE  resolveBarrierOutcome("BUY", stop, target, c)
           = resolveBarrierOutcome("SELL", MaxPrice - stop, MaxPrice - target, Mirror(c))
<1> DEFINE m == Mirror(c)
<1>1. /\ c.low <= stop <=> m.high >= MaxPrice - stop
      /\ c.high >= target <=> m.low <= MaxPrice - target
  BY MirrorOf
<1>2. QED
  BY <1>1 DEF resolveBarrierOutcome, Buy

LEMMA PricesMirror ==
  ASSUME NEW level \in Int, NEW other \in Int
  PROVE  /\ StopLoss("BUY", level, other) + StopLoss("SELL", MaxPrice - level, other) = MaxPrice
         /\ fixedReversalPrice("BUY", level, 1, other)
              + fixedReversalPrice("SELL", MaxPrice - level, 1, other) = MaxPrice
  BY HeightsAreIntegers DEF StopLoss, fixedReversalPrice

LEMMA QualityMirrors ==
  ASSUME NEW c \in Candles, NEW level \in Int, NEW tick
  PROVE  assessBreakoutQuality(c, "BUY", level, 1, tick, Ticks, Quality)
           = assessBreakoutQuality(Mirror(c), "SELL", MaxPrice - level, 1, tick, Ticks, Quality)
<1> DEFINE m == Mirror(c)
           l == MaxPrice - level
           upper == c.high - Max({c.open, c.close})
           lower == Min({m.open, m.close}) - m.low
<1>0. /\ c.close \in Int /\ m.close = MaxPrice - c.close /\ c.open \in Int /\ m.open = MaxPrice - c.open
  BY MirrorOf
<1>1. /\ Beyond("SELL", m.close, m.open) = Beyond("BUY", c.close, c.open)
      /\ Beyond("SELL", m.close, l) = Beyond("BUY", c.close, level)
      /\ Abs(m.close - m.open) = Abs(c.close - c.open)
  BY <1>0, HeightsAreIntegers DEF Beyond, Buy, Abs
<1>2. m.high - m.low = c.high - c.low /\ (m.high <= m.low <=> c.high <= c.low)
  BY MirrorOf
<1>3. lower = upper
  <2>1. Max({c.open, c.close}) = IF c.open >= c.close THEN c.open ELSE c.close
    BY MirrorOf, PairExtremes
  <2>2. m.open \in Int /\ m.close \in Int
    BY MirrorOf
  <2>3. Min({m.open, m.close}) = IF m.open <= m.close THEN m.open ELSE m.close
    BY <2>2, PairExtremes
  <2>4. QED
    BY <2>1, <2>3, MirrorOf
<1>4. ShapeReasons(m, "SELL", l, 1, Quality) = ShapeReasons(c, "BUY", level, 1, Quality)
  BY <1>1, <1>2, <1>3 DEF ShapeReasons, Buy
<1>5. QED
  BY <1>2, <1>4 DEF assessBreakoutQuality

-----------------------------------------------------------------------------
(* Markets and their mirror images.                                        *)

Images == {Mirror(c) : c \in Candles}

LEMMA MirroredIs ==
  ASSUME NEW cs \in Seq(Candles)
  PROVE  /\ Mirrored(cs) \in Seq(Images) /\ Len(Mirrored(cs)) = Len(cs) /\ Len(cs) \in Nat
         /\ \A i \in 1 .. Len(cs) : cs[i] \in Candles /\ Mirrored(cs)[i] = Mirror(cs[i])
<1> DEFINE n == Len(cs)
           image == [i \in 1 .. n |-> Mirror(cs[i])]
<1>1. n \in Nat /\ DOMAIN cs = 1 .. n /\ \A i \in 1 .. n : cs[i] \in Candles
  BY LenProperties, ElementOfSeq
<1>2. Mirrored(cs) = image
  BY <1>1 DEF Mirrored
<1>3. image \in [1 .. n -> Images]
  BY <1>1 DEF Images
<1> HIDE DEF n
<1>4. image \in Seq(Images) /\ Len(image) = n
  <2>1. image \in Seq(Images)
    BY <1>1, <1>3
  <2>2. DOMAIN image = 1 .. n
    OBVIOUS
  <2> HIDE DEF image
  <2>3. QED
    BY <1>1, <2>1, <2>2, LenProperties
<1>5. QED
  BY <1>1, <1>2, <1>4 DEF n

\* Two markets of one length that are alike candle by candle are the same.
LEMMA MirroredParts ==
  ASSUME NEW cs \in Seq(Candles), NEW m \in 1 .. Len(cs) + 1, NEW n \in (m - 1) .. Len(cs)
  PROVE  /\ SubSeq(cs, m, n) \in Seq(Candles) /\ Len(SubSeq(cs, m, n)) = n - m + 1
         /\ SubSeq(Mirrored(cs), m, n) = Mirrored(SubSeq(cs, m, n))
<1> DEFINE part == SubSeq(cs, m, n)
           image == SubSeq(Mirrored(cs), m, n)
<1>0. Len(cs) \in Nat /\ m \in Int /\ n \in Int
  BY LenProperties
<1>1. /\ part \in Seq(Candles) /\ Len(part) = n - m + 1
      /\ \A i \in 1 .. n - m + 1 : m + i - 1 \in 1 .. Len(cs) /\ part[i] = cs[m + i - 1]
  BY Parts
<1>2. /\ image \in Seq(Images) /\ Len(image) = n - m + 1
      /\ \A i \in 1 .. n - m + 1 : image[i] = Mirrored(cs)[m + i - 1]
  <2>1. Mirrored(cs) \in Seq(Images) /\ Len(Mirrored(cs)) = Len(cs)
    BY MirroredIs
  <2>2. m \in 1 .. Len(Mirrored(cs)) + 1 /\ n \in (m - 1) .. Len(Mirrored(cs))
    BY <2>1
  <2>3. QED
    BY <2>1, <2>2, Parts
<1> HIDE DEF part, image
<1>3. /\ Mirrored(part) \in Seq(Images) /\ Len(Mirrored(part)) = n - m + 1
      /\ \A i \in 1 .. n - m + 1 : Mirrored(part)[i] = Mirror(part[i])
  BY <1>1, MirroredIs
<1>4. \A i \in 1 .. n - m + 1 : image[i] = Mirrored(part)[i]
  BY <1>1, <1>2, <1>3, MirroredIs
<1>5. image = Mirrored(part)
  BY <1>2, <1>3, <1>4, SeqEqual
<1>6. QED
  BY <1>1, <1>5 DEF part, image

LEMMA MirroredLast ==
  ASSUME NEW cs \in Seq(Candles), NEW n \in 0 .. Len(cs)
  PROVE  /\ LastOf(cs, n) \in Seq(Candles) /\ Len(LastOf(cs, n)) = n
         /\ LastOf(Mirrored(cs), n) = Mirrored(LastOf(cs, n))
<1> DEFINE last == Len(cs)
           from == last - n + 1
<1>0. last \in Nat /\ Len(Mirrored(cs)) = last
  BY MirroredIs
<1>1. from \in 1 .. last + 1 /\ last \in (from - 1) .. last /\ last - from + 1 = n
  BY <1>0
<1>2. /\ SubSeq(cs, from, last) \in Seq(Candles) /\ Len(SubSeq(cs, from, last)) = last - from + 1
      /\ SubSeq(Mirrored(cs), from, last) = Mirrored(SubSeq(cs, from, last))
  BY <1>1, MirroredParts
<1>3. LastOf(cs, n) = SubSeq(cs, from, last) /\ LastOf(Mirrored(cs), n) = SubSeq(Mirrored(cs), from, last)
  BY <1>0 DEF LastOf
<1>4. QED
  BY <1>1, <1>2, <1>3

\* The extremes of the candles of a market change places in its mirror image.
LEMMA ColumnsMirror ==
  ASSUME NEW cs \in Seq(Candles), Len(cs) > 0
  PROVE  /\ Max(Column(cs, "high")) \in Int /\ Min(Column(cs, "low")) \in Int
         /\ Min(Column(Mirrored(cs), "low")) = MaxPrice - Max(Column(cs, "high"))
         /\ Max(Column(Mirrored(cs), "high")) = MaxPrice - Min(Column(cs, "low"))
<1> DEFINE D == 1 .. Len(cs)
           highs == {cs[i].high : i \in D}
           lows == {cs[i].low : i \in D}
<1>0. 1 \in D /\ DOMAIN cs = D /\ DOMAIN Mirrored(cs) = D
  BY MirroredIs, LenProperties
<1>1. \A i \in D : /\ cs[i].high \in Heights /\ cs[i].low \in Heights
                   /\ Mirrored(cs)[i].low = MaxPrice - cs[i].high
                   /\ Mirrored(cs)[i].high = MaxPrice - cs[i].low
  BY MirroredIs, MirrorOf
<1>2. Column(cs, "high") = highs /\ Column(cs, "low") = lows
  BY <1>0 DEF Column
<1>3. Column(Mirrored(cs), "low") = {MaxPrice - x : x \in highs}
  BY <1>0, <1>1 DEF Column
<1>4. Column(Mirrored(cs), "high") = {MaxPrice - x : x \in lows}
  BY <1>0, <1>1 DEF Column
<1>5. highs \in SUBSET Heights /\ highs # {} /\ lows \in SUBSET Heights /\ lows # {}
  BY <1>0, <1>1
<1> HIDE DEF highs, lows
<1>6. QED
  BY <1>2, <1>3, <1>4, <1>5, ExtremesMirror, HeightsAreIntegers

LEMMA LastIs ==
  ASSUME NEW cs \in Seq(Candles), Len(cs) > 0
  PROVE  Last(cs) \in Candles /\ Last(Mirrored(cs)) = Mirror(Last(cs))
<1>1. Len(cs) \in 1 .. Len(cs) /\ Len(Mirrored(cs)) = Len(cs)
  BY MirroredIs
<1>2. QED
  BY <1>1, MirroredIs DEF Last

LEMMA WavesMirror ==
  ASSUME NEW cs \in Seq(Candles), Len(cs) > 0, NEW c \in Candles, NEW n \in 1 .. 2
  PROVE  WaveTriggered("BUY", cs, c, n) = WaveTriggered("SELL", Mirrored(cs), Mirror(c), n)
<1>0. Len(cs) \in Nat /\ Len(Mirrored(cs)) = Len(cs) /\ n \in Nat /\ n > 0
  BY MirroredIs
<1>1. CASE Len(cs) < n
  <2>1. ~(Len(cs) >= n) /\ ~(Len(Mirrored(cs)) >= n)
    BY <1>0, <1>1
  <2>2. QED
    BY <2>1 DEF WaveTriggered
<1>2. CASE Len(cs) >= n
  <2> DEFINE level == breakoutLevel(cs, n, "BUY")
             mirrored == breakoutLevel(Mirrored(cs), n, "SELL")
             recent == LastOf(cs, n)
  <2>1. n \in 0 .. Len(cs)
    BY <1>0, <1>2
  <2>2. recent \in Seq(Candles) /\ Len(recent) > 0 /\ LastOf(Mirrored(cs), n) = Mirrored(recent)
    BY <1>0, <2>1, MirroredLast
  <2>3. level = Max(Column(recent, "high")) /\ mirrored = Min(Column(Mirrored(recent), "low"))
    BY <2>2 DEF breakoutLevel, Buy
  <2> HIDE DEF level, mirrored, recent
  <2>4. level \in Int /\ mirrored = MaxPrice - level
    BY <2>2, <2>3, ColumnsMirror
  <2>5. Last(cs) \in Candles /\ Last(Mirrored(cs)) = Mirror(Last(cs))
    BY LastIs
  <2>6. /\ Last(cs).close \in Int /\ Last(Mirrored(cs)).close = MaxPrice - Last(cs).close
        /\ c.close \in Int /\ Mirror(c).close = MaxPrice - c.close /\ MaxPrice \in Int
    BY <2>5, MirrorOf
  <2>7. /\ Last(cs).close <= level <=> Last(Mirrored(cs)).close >= mirrored
        /\ c.close > level <=> Mirror(c).close < mirrored
    BY <2>4, <2>6
  <2>8. WaveTriggered("BUY", cs, c, n) = (Last(cs).close <= level /\ c.close > level)
    BY <1>2 DEF WaveTriggered, Buy, level
  <2>9. WaveTriggered("SELL", Mirrored(cs), Mirror(c), n)
          = (Last(Mirrored(cs)).close >= mirrored /\ Mirror(c).close < mirrored)
    BY <1>0, <1>2 DEF WaveTriggered, Buy, mirrored
  <2>10. QED
    BY <2>7, <2>8, <2>9
<1>3. QED
  BY <1>0, <1>1, <1>2

LEMMA ExcursionsMirror ==
  ASSUME NEW cs \in Seq(Candles), Len(cs) > 0, NEW entry \in Int
  PROVE  MfeTimesRisk("BUY", entry, cs) = MfeTimesRisk("SELL", MaxPrice - entry, Mirrored(cs))
<1>1. /\ Max(Column(cs, "high")) \in Int
      /\ Min(Column(Mirrored(cs), "low")) = MaxPrice - Max(Column(cs, "high"))
  BY ColumnsMirror
<1>2. QED
  BY <1>1, HeightsAreIntegers DEF MfeTimesRisk, Buy

LEMMA SwingsMirror ==
  ASSUME NEW cs \in Seq(Candles), Len(cs) > 0, NEW c \in Candles
  PROVE  /\ Swing(cs, c, 2) \in Seq(Candles) /\ Len(Swing(cs, c, 2)) > 0
         /\ Swing(Mirrored(cs), Mirror(c), 2) = Mirrored(Swing(cs, c, 2))
<1> DEFINE n == Min({2, Len(cs)})
           recent == LastOf(cs, n)
           swing == Append(recent, c)
           image == Append(Mirrored(recent), Mirror(c))
<1>0. Len(cs) \in Nat /\ Len(Mirrored(cs)) = Len(cs)
  BY MirroredIs
<1>1. n \in 0 .. Len(cs)
  <2>1. n = IF 2 <= Len(cs) THEN 2 ELSE Len(cs)
    <3> DEFINE two == 2
               all == Len(cs)
    <3>1. two \in Int /\ all \in Int
      BY <1>0
    <3> HIDE DEF two, all
    <3>2. Min({two, all}) = IF two <= all THEN two ELSE all
      BY <3>1, PairExtremes
    <3>3. QED
      BY <3>2 DEF two, all
  <2> HIDE DEF n
  <2>2. QED
    BY <1>0, <2>1
<1> HIDE DEF n
<1>2. recent \in Seq(Candles) /\ LastOf(Mirrored(cs), n) = Mirrored(recent)
  BY <1>1, MirroredLast
<1> HIDE DEF recent
<1>3. /\ swing \in Seq(Candles) /\ Len(swing) = Len(recent) + 1 /\ Len(recent) \in Nat
      /\ \A i \in 1 .. Len(recent) : swing[i] = recent[i]
      /\ swing[Len(recent) + 1] = c
  BY <1>2, AppendProperties, LenProperties
<1>4. /\ Mirrored(recent) \in Seq(Images) /\ Mirror(c) \in Images
      /\ Len(Mirrored(recent)) = Len(recent)
      /\ \A i \in 1 .. Len(recent) : Mirrored(recent)[i] = Mirror(recent[i])
  BY <1>2, MirroredIs DEF Images
<1>5. /\ image \in Seq(Images) /\ Len(image) = Len(recent) + 1
      /\ \A i \in 1 .. Len(recent) : image[i] = Mirrored(recent)[i]
      /\ image[Len(recent) + 1] = Mirror(c)
  BY <1>4, AppendProperties
<1> HIDE DEF swing, image
<1>6. /\ Mirrored(swing) \in Seq(Images) /\ Len(Mirrored(swing)) = Len(swing)
      /\ \A i \in 1 .. Len(swing) : Mirrored(swing)[i] = Mirror(swing[i])
  BY <1>3, MirroredIs
<1>7. ASSUME NEW i \in 1 .. Len(recent) + 1 PROVE image[i] = Mirrored(swing)[i]
  <2>1. CASE i \in 1 .. Len(recent)
    BY <1>3, <1>4, <1>5, <1>6, <2>1
  <2>2. CASE i = Len(recent) + 1
    BY <1>3, <1>5, <1>6, <2>2
  <2>3. QED
    BY <1>3, <2>1, <2>2
<1>8. image = Mirrored(swing)
  BY <1>3, <1>5, <1>6, <1>7, SeqEqual
<1>9. Swing(cs, c, 2) = swing /\ Swing(Mirrored(cs), Mirror(c), 2) = image
  BY <1>0, <1>2 DEF Swing, swing, image, recent, n
<1>10. QED
  BY <1>3, <1>8, <1>9

LEMMA StopsMirror ==
  ASSUME NEW cs \in Seq(Candles), Len(cs) > 0, NEW c \in Candles
  PROVE  waveStop("BUY", cs, c, 1, 2, 130) + waveStop("SELL", Mirrored(cs), Mirror(c), 1, 2, 130)
           = 100 * MaxPrice
<1> DEFINE swing == Swing(cs, c, 2)
           low == Min(Column(swing, "low"))
           high == Max(Column(Mirrored(swing), "high"))
           gap == Abs(100 * c.close - (100 * low - 15 * 1))
           image == Abs(100 * Mirror(c).close - (100 * high + 15 * 1))
           distance == Max({gap, 130 * 1})
<1>1. swing \in Seq(Candles) /\ Len(swing) > 0 /\ Swing(Mirrored(cs), Mirror(c), 2) = Mirrored(swing)
  BY SwingsMirror
<1>2. low \in Int /\ high = MaxPrice - low
  <2> HIDE DEF swing
  <2>1. QED
    BY <1>1, ColumnsMirror
<1>3. c.close \in Int /\ Mirror(c).close = MaxPrice - c.close /\ MaxPrice \in Int
  BY MirrorOf
<1>4. StopDistance("BUY", cs, c, 1, 2, 130) = Max({gap, 130 * 1})
  BY DEF StopDistance, Buy
<1>5. StopDistance("SELL", Mirrored(cs), Mirror(c), 1, 2, 130) = Max({image, 130 * 1})
  BY <1>1 DEF StopDistance, Buy
<1> HIDE DEF low, high
<1>6. gap = image /\ gap \in Int
  <2> DEFINE x == 100 * c.close - (100 * low - 15 * 1)
             y == 100 * Mirror(c).close - (100 * high + 15 * 1)
  <2>1. x \in Int /\ y = -x
    BY <1>2, <1>3
  <2>2. \A z \in Int : Abs(z) \in Int /\ Abs(-z) = Abs(z)
    BY DEF Abs
  <2> HIDE DEF x, y
  <2>3. Abs(x) \in Int /\ Abs(y) = Abs(x)
    BY <2>1, <2>2
  <2>4. QED
    BY <2>3 DEF x, y
<1> HIDE DEF gap, image
<1>7. distance \in Int
  BY <1>6, PairExtremes
<1> HIDE DEF distance
<1>8. StopDistance("BUY", cs, c, 1, 2, 130) = distance /\ StopDistance("SELL", Mirrored(cs), Mirror(c), 1, 2, 130) = distance
  BY <1>4, <1>5, <1>6 DEF distance
<1>9. /\ waveStop("BUY", cs, c, 1, 2, 130) = 100 * c.close - distance
      /\ waveStop("SELL", Mirrored(cs), Mirror(c), 1, 2, 130) = 100 * Mirror(c).close + distance
  BY <1>3, <1>7, <1>8 DEF waveStop, Buy
<1>10. QED
  BY <1>3, <1>7, <1>9, SMTT(30)

LEMMA RangesMirror ==
  ASSUME NEW cs \in Seq(Candles)
  PROVE  AtrTimesPeriod(Mirrored(cs), 2) = AtrTimesPeriod(cs, 2)
<1>0. Len(Mirrored(cs)) = Len(cs) /\ Len(cs) \in Nat
  BY MirroredIs
<1>1. ASSUME NEW i \in 1 .. Len(cs) - 1
      PROVE  TrueRange(Mirrored(cs)[i + 1], Mirrored(cs)[i].close) = TrueRange(cs[i + 1], cs[i].close)
  <2> DEFINE c == cs[i + 1]
             m == Mirrored(cs)[i + 1]
             x == cs[i].close
             y == Mirrored(cs)[i].close
  <2>1. i \in 1 .. Len(cs) /\ i + 1 \in 1 .. Len(cs)
    BY <1>0
  <2>2. c \in Candles /\ m = Mirror(c) /\ cs[i] \in Candles /\ Mirrored(cs)[i] = Mirror(cs[i])
    BY <2>1, MirroredIs
  <2>3. /\ c.high \in Int /\ m.high = MaxPrice - c.low /\ c.low \in Int /\ m.low = MaxPrice - c.high
        /\ x \in Int /\ y = MaxPrice - x /\ MaxPrice \in Int
    BY <2>2, MirrorOf
  <2> HIDE DEF c, m, x, y
  <2>4. /\ m.high - m.low = c.high - c.low
        /\ Abs(m.high - y) = Abs(c.low - x) /\ Abs(m.low - y) = Abs(c.high - x)
    <3>1. m.high - m.low = c.high - c.low
      BY <2>3
    <3>2. m.high - y = -(c.low - x) /\ c.low - x \in Int /\ m.low - y = -(c.high - x) /\ c.high - x \in Int
      BY <2>3, SMTT(30)
    <3>3. \A z \in Int : Abs(-z) = Abs(z)
      BY DEF Abs
    <3>4. QED
      BY <3>1, <3>2, <3>3
  <2>5. {m.high - m.low, Abs(m.high - y), Abs(m.low - y)} = {c.high - c.low, Abs(c.high - x), Abs(c.low - x)}
    BY <2>4
  <2>6. TrueRange(m, y) = TrueRange(c, x)
    BY <2>5 DEF TrueRange
  <2>7. QED
    BY <2>6 DEF c, m, x, y
<1> DEFINE ranges == [i \in 1 .. Len(cs) - 1 |-> TrueRange(cs[i + 1], cs[i].close)]
           images == [i \in 1 .. Len(Mirrored(cs)) - 1 |-> TrueRange(Mirrored(cs)[i + 1], Mirrored(cs)[i].close)]
<1>2. images = ranges
  BY <1>0, <1>1
<1>3. AtrTimesPeriod(cs, 2) = SumOf(LastOf(ranges, 2)) /\ AtrTimesPeriod(Mirrored(cs), 2) = SumOf(LastOf(images, 2))
  BY DEF AtrTimesPeriod
<1> HIDE DEF ranges, images
<1>4. QED
  BY <1>2, <1>3

LEMMA ReflectedDifference ==
  ASSUME NEW P \in Int, NEW m \in Int, NEW s \in Int, NEW n \in Int, NEW t \in Int
  PROVE  /\ (P * s - m) * t - (P * t - n) * s = -(m * t - n * s)
         /\ (P * s - m) * t \in Int /\ (P * t - n) * s \in Int /\ m * t \in Int /\ n * s \in Int
  BY SMT

\* Averages compare in the mirror the other way round, and lie as far apart.
LEMMA ComparisonsMirror ==
  ASSUME NEW a, NEW v, <<a, v>> \in Reflected, NEW b, NEW w, <<b, w>> \in Reflected
  PROVE  /\ Above(v, w) <=> Above(b, a)
         /\ ~(Above(a, b) /\ Above(b, a))
         /\ \A range, period, min : Exceeds(v, w, range, period, min) <=> Exceeds(a, b, range, period, min)
<1>1. /\ a.n \in Int /\ a.scale \in Int /\ v.scale = a.scale /\ v.n = MaxPrice * a.scale - a.n
      /\ b.n \in Int /\ b.scale \in Int /\ w.scale = b.scale /\ w.n = MaxPrice * b.scale - b.n
      /\ MaxPrice \in Int
  BY HeightsAreIntegers DEF Reflected, Average
<1> DEFINE x == v.n * w.scale
           y == w.n * v.scale
           p == a.n * b.scale
           q == b.n * a.scale
<1>2. x \in Int /\ y \in Int /\ p \in Int /\ q \in Int /\ x - y = -(p - q)
  <2> DEFINE m == a.n
             s == a.scale
             n == b.n
             t == b.scale
  <2>1. m \in Int /\ s \in Int /\ n \in Int /\ t \in Int /\ MaxPrice \in Int
    BY <1>1
  <2>2. x = (MaxPrice * s - m) * t /\ y = (MaxPrice * t - n) * s /\ p = m * t /\ q = n * s
    BY <1>1
  <2> HIDE DEF m, s, n, t, x, y, p, q
  <2>3. QED
    BY <2>1, <2>2, ReflectedDifference
<1>3. /\ Above(v, w) = (x > y) /\ Above(b, a) = (q > p) /\ Above(a, b) = (p > q)
  BY DEF Above
<1>4. ASSUME NEW range, NEW period, NEW min
      PROVE  Exceeds(v, w, range, period, min) <=> Exceeds(a, b, range, period, min)
  <2> DEFINE far(d) == 100 * d * period >= min * range * a.scale * b.scale
  <2>1. Exceeds(a, b, range, period, min) = far(Abs(p - q))
    BY DEF Exceeds
  <2>2. Exceeds(v, w, range, period, min) = far(Abs(x - y))
    BY <1>1 DEF Exceeds
  <2>3. Abs(x - y) = Abs(p - q)
    <3> HIDE DEF x, y, p, q
    <3>1. QED
      BY <1>2 DEF Abs
  <2> HIDE DEF far, x, y, p, q
  <2>4. QED
    BY <2>1, <2>2, <2>3
<1> HIDE DEF x, y, p, q
<1>5. (x > y <=> q > p) /\ ~(p > q /\ q > p)
  BY <1>2
<1>6. QED
  BY <1>3, <1>4, <1>5

Closings(cs) == [i \in DOMAIN cs |-> cs[i].close]

LEMMA ClosesMirror ==
  ASSUME NEW cs \in Seq(Candles)
  PROVE  /\ Closings(cs) \in Seq(Int) /\ Closings(Mirrored(cs)) \in Seq(Int)
         /\ Len(Closings(cs)) = Len(cs) /\ Opposite(Closings(cs), Closings(Mirrored(cs)))
<1> DEFINE n == Len(cs)
           t == [i \in 1 .. n |-> cs[i].close]
           u == [i \in 1 .. n |-> Mirrored(cs)[i].close]
<1>1. /\ n \in Nat /\ DOMAIN cs = 1 .. n /\ DOMAIN Mirrored(cs) = 1 .. n
      /\ \A i \in 1 .. n : cs[i].close \in Int /\ Mirrored(cs)[i].close = MaxPrice - cs[i].close
      /\ MaxPrice \in Int
  BY MirroredIs, MirrorOf, LenProperties, HeightsAreIntegers
<1>2. Closings(cs) = t /\ Closings(Mirrored(cs)) = u
  BY <1>1 DEF Closings
<1>3. t \in [1 .. n -> Int] /\ u \in [1 .. n -> Int] /\ \A i \in 1 .. n : u[i] = MaxPrice - t[i]
  BY <1>1
<1> HIDE DEF n, t, u
<1>4. t \in Seq(Int) /\ u \in Seq(Int) /\ Len(t) = n /\ Len(u) = n
  BY <1>1, <1>3
<1>5. QED
  BY <1>2, <1>3, <1>4 DEF Opposite, Places, n

LEMMA RegimesMirror ==
  ASSUME NEW cs \in Seq(Candles), Len(cs) > 2, NEW separation, NEW slope
  PROVE  detectMarketRegime(Mirrored(cs), 1, 2, 2, separation, slope, 1)
           = Turned(detectMarketRegime(cs, 1, 2, 2, separation, slope, 1))
<1> DEFINE t == Closings(cs)
           u == Closings(Mirrored(cs))
           n == Len(cs)
           fast(z) == EmaNumerator(z, 1)
           slow(z) == EmaNumerator(z, 2)
           before(z) == EmaNumerator(SubSeq(z, 1, n - 1), 1)
           range == AtrTimesPeriod(cs, 2)
           clear(z) == /\ range > 0
                       /\ Exceeds(fast(z), slow(z), range, 2, separation)
                       /\ Exceeds(fast(z), before(z), range, 2, slope * 1)
           up(z) == clear(z) /\ Above(fast(z), slow(z)) /\ Above(fast(z), before(z))
           down(z) == clear(z) /\ Above(slow(z), fast(z)) /\ Above(before(z), fast(z))
           regime(z) == CASE up(z) -> "TREND_UP" [] down(z) -> "TREND_DOWN" [] OTHER -> "RANGE"
<1>0. n \in Nat /\ n > 2 /\ Len(Mirrored(cs)) = n /\ AtrTimesPeriod(Mirrored(cs), 2) = range
  BY MirroredIs, RangesMirror
<1>1. t \in Seq(Int) /\ u \in Seq(Int) /\ Len(t) = n /\ Opposite(t, u)
  BY ClosesMirror
<1>2. detectMarketRegime(cs, 1, 2, 2, separation, slope, 1) = regime(t)
  BY DEF detectMarketRegime, Closings
<1>3. detectMarketRegime(Mirrored(cs), 1, 2, 2, separation, slope, 1) = regime(u)
  BY <1>0 DEF detectMarketRegime, Closings
<1> HIDE DEF t, u, n, range
<1>4. <<fast(t), fast(u)>> \in Reflected /\ <<slow(t), slow(u)>> \in Reflected
  <2>1. 1 \in 1 .. Len(t) /\ 2 \in 1 .. Len(t)
    BY <1>0, <1>1
  <2>2. QED
    BY <1>1, <2>1, AverageMirror
<1>5. <<before(t), before(u)>> \in Reflected
  <2> DEFINE p == SubSeq(t, 1, n - 1)
             q == SubSeq(u, 1, n - 1)
  <2>1. 1 \in 1 .. Len(t) + 1 /\ n - 1 \in (1 - 1) .. Len(t) /\ n - 1 - 1 + 1 >= 1
    BY <1>0, <1>1
  <2>2. p \in Seq(Int) /\ q \in Seq(Int) /\ Len(p) = n - 1 - 1 + 1 /\ Opposite(p, q)
    BY <1>1, <2>1, OppositeParts
  <2> HIDE DEF p, q
  <2>3. 1 \in 1 .. Len(p)
    BY <1>0, <2>1, <2>2
  <2>4. <<EmaNumerator(p, 1), EmaNumerator(q, 1)>> \in Reflected
    BY <2>2, <2>3, AverageMirror
  <2>5. QED
    BY <2>4 DEF p, q
<1> HIDE DEF fast, slow, before
<1>6. /\ Above(fast(u), slow(u)) <=> Above(slow(t), fast(t))
      /\ Above(slow(u), fast(u)) <=> Above(fast(t), slow(t))
      /\ Above(fast(u), before(u)) <=> Above(before(t), fast(t))
      /\ Above(before(u), fast(u)) <=> Above(fast(t), before(t))
      /\ ~(Above(fast(t), slow(t)) /\ Above(slow(t), fast(t)))
  BY <1>4, <1>5, ComparisonsMirror
<1>7. clear(u) <=> clear(t)
  <2>1. \A r, period, min : Exceeds(fast(u), slow(u), r, period, min) <=> Exceeds(fast(t), slow(t), r, period, min)
    BY <1>4, ComparisonsMirror, Zenon
  <2>2. \A r, period, min : Exceeds(fast(u), before(u), r, period, min) <=> Exceeds(fast(t), before(t), r, period, min)
    BY <1>4, <1>5, ComparisonsMirror, Zenon
  <2>3. QED
    BY <2>1, <2>2, Zenon
<1> HIDE DEF clear
<1>8. (up(u) <=> down(t)) /\ (down(u) <=> up(t)) /\ ~(up(t) /\ down(t))
  BY <1>6, <1>7
<1> HIDE DEF up, down
<1>9. CASE up(t)
  <2>1. regime(t) = "TREND_UP" /\ regime(u) = "TREND_DOWN"
    BY <1>8, <1>9
  <2>2. QED
    BY <1>2, <1>3, <2>1 DEF Turned
<1>10. CASE down(t)
  <2>1. regime(t) = "TREND_DOWN" /\ regime(u) = "TREND_UP"
    BY <1>8, <1>10
  <2>2. QED
    BY <1>2, <1>3, <2>1 DEF Turned
<1>11. CASE ~up(t) /\ ~down(t)
  <2>1. regime(t) = "RANGE" /\ regime(u) = "RANGE"
    BY <1>8, <1>11
  <2>2. QED
    BY <1>2, <1>3, <2>1 DEF Turned
<1>12. QED
  BY <1>9, <1>10, <1>11

\* Selling is buying in the mirror: whatever a market of any prices does, each
\* rule decides it for one direction as it decides its mirror image for the other.
THEOREM SellingMirrorsBuying == Spec => []DirectionsMirror
<1>1. Market => DirectionsMirror
  <2> SUFFICES ASSUME Market, Len(candles) > 1 PROVE DirectionsMirror
    BY DEF DirectionsMirror
  <2> DEFINE m == Mirror(Current)
             before == Mirrored(Past)
  <2>0. candles \in Seq(Candles) /\ Len(candles) \in Nat
    BY LenProperties DEF Market, Candles
  <2>1. Current \in Candles /\ Last(Mirrored(candles)) = m
    BY <2>0, LastIs DEF Current
  <2>2. Past \in Seq(Candles) /\ Len(Past) > 0
    <3> DEFINE n == Len(candles) - 1
    <3>1. 1 \in 1 .. Len(candles) + 1 /\ n \in (1 - 1) .. Len(candles) /\ n - 1 + 1 > 0
      BY <2>0
    <3>2. SubSeq(candles, 1, n) \in Seq(Candles) /\ Len(SubSeq(candles, 1, n)) = n - 1 + 1
      BY <2>0, <3>1, MirroredParts
    <3>3. QED
      BY <3>1, <3>2 DEF Past, Front
  <2>3. Last(Past) \in Candles /\ Last(before) = Mirror(Last(Past))
    BY <2>2, LastIs
  <2>4. /\ Current.close \in Int /\ m.close = MaxPrice - Current.close
        /\ MaxPrice \in Int /\ \A level \in Prices : level \in Int
    BY <2>1, MirrorOf, HeightsAreIntegers DEF Prices
  <2>5. \A n \in 1 .. 2 : WaveTriggered("BUY", Past, Current, n) = WaveTriggered("SELL", before, m, n)
    BY <2>1, <2>2, WavesMirror
  <2>6. MfeTimesRisk("BUY", Current.close, Past) = MfeTimesRisk("SELL", m.close, before)
    BY <2>2, <2>4, ExcursionsMirror
  <2>7. ASSUME NEW level \in Prices
        PROVE  LET mirrored == MaxPrice - level IN
                 /\ M5Trigger("BUY", Last(Past), Current, level, 1) = M5Trigger("SELL", Last(before), m, mirrored, 1)
                 /\ assessBreakoutQuality(Current, "BUY", level, 1, level - 1, Ticks, Quality)
                      = assessBreakoutQuality(m, "SELL", mirrored, 1, level - 1, Ticks, Quality)
    BY <2>1, <2>3, <2>4, TriggerMirrors, QualityMirrors
  <2>8. ASSUME NEW level \in Prices, NEW other \in Prices
        PROVE  LET mirrored == MaxPrice - level IN
                 /\ resolveBarrierOutcome("BUY", level, other, Current)
                      = resolveBarrierOutcome("SELL", mirrored, MaxPrice - other, m)
                 /\ confirmWaveMain("BUY", Current, level, other, 1)
                      = confirmWaveMain("SELL", m, mirrored, MaxPrice - other, 1)
                 /\ StopLoss("BUY", level, other) + StopLoss("SELL", mirrored, other) = MaxPrice
                 /\ fixedReversalPrice("BUY", level, 1, other)
                      + fixedReversalPrice("SELL", mirrored, 1, other) = MaxPrice
    BY <2>1, <2>4, BarriersMirror, ConfirmationMirrors, PricesMirror
  <2>9. waveStop("BUY", Past, Current, 1, 2, 130) + waveStop("SELL", before, m, 1, 2, 130) = 100 * MaxPrice
    BY <2>1, <2>2, StopsMirror
  <2>10. Len(candles) > 2 => \A separation, slope \in {0, 30} :
           detectMarketRegime(Mirrored(candles), 1, 2, 2, separation, slope, 1)
             = Turned(detectMarketRegime(candles, 1, 2, 2, separation, slope, 1))
    BY <2>0, RegimesMirror
  <2>11. QED
    BY <2>5, <2>6, <2>7, <2>8, <2>9, <2>10, Zenon DEF DirectionsMirror
<1>2. QED
  BY <1>1, MarketInvariant, PTL

=============================================================================
