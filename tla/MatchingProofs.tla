--------------------------- MODULE MatchingProofs ---------------------------
(***************************************************************************)
(* Facts about the matching rules: the split of a fill, the largest fill,  *)
(* the order in which the other side is visited, and what the visits of an *)
(* arriving order do to both sides.                                        *)
(***************************************************************************)
EXTENDS Matching, FiniteSums

\* Division by a positive number as the quotient it is.
LEMMA Quotient ==
    ASSUME NEW a \in Nat, NEW s \in Nat, s > 0
    PROVE  /\ a \div s \in Nat
           /\ (a \div s) * s <= a
           /\ a < (a \div s) * s + s
  BY Z3T(30)

\* Products are monotone.
LEMMA ProductMonotone ==
    ASSUME NEW a \in Nat, NEW b \in Nat, NEW s \in Nat, a <= b
    PROVE  a * s <= b * s
  BY Z3T(30)

\* A common factor can be cancelled up to a remainder.
LEMMA ProductCancel ==
    ASSUME NEW a \in Nat, NEW b \in Nat, NEW s \in Nat, a * s < b * s + s
    PROVE  a <= b
<1>1. CASE a >= b + 1
  <2>1. (b + 1) * s <= a * s
    BY <1>1, ProductMonotone
  <2>2. (b + 1) * s = b * s + s
    BY Z3
  <2> QED
    BY <2>1, <2>2, Z3
<1> QED
  BY <1>1

\* A larger dividend has no smaller quotient.
LEMMA QuotientMonotone ==
    ASSUME NEW a \in Nat, NEW b \in Nat, NEW s \in Nat, s > 0, a <= b
    PROVE  a \div s <= b \div s
<1>1. (a \div s) * s <= a /\ a \div s \in Nat
  BY Quotient
<1>2. b < (b \div s) * s + s /\ b \div s \in Nat
  BY Quotient
<1> DEFINE q == a \div s
           r == b \div s
<1>3. q \in Nat /\ r \in Nat
  BY <1>1, <1>2
<1>4. q * s < r * s + s
  BY <1>1, <1>2, <1>3
<1> HIDE DEF q, r
<1>5. q <= r
  BY <1>3, <1>4, ProductCancel
<1> QED
  BY <1>5 DEF q, r

-----------------------------------------------------------------------------
(* "Each leg's cost never decreases as the fill grows" (matching.rs:49-50). *)

\* A fill's YES leg is a part of the fill.
LEMMA YesLegType ==
    ASSUME NEW f \in Nat, NEW p \in 0 .. PRICE_SCALE
    PROVE  /\ YesLeg(f, p) \in 0 .. f
           /\ f - YesLeg(f, p) \in Nat
<1>1. PRICE_SCALE \in Nat /\ PRICE_SCALE > 0 /\ p \in Nat /\ p <= PRICE_SCALE
  BY MatchingAssumption
<1>2. f * p \in Nat
  BY <1>1, Z3
<1>3. p * f <= PRICE_SCALE * f
  BY <1>1, ProductMonotone
<1>4. p * f = f * p /\ PRICE_SCALE * f = f * PRICE_SCALE
  BY <1>1, Z3
<1> DEFINE q == (f * p) \div PRICE_SCALE
<1>5. q \in Nat /\ q * PRICE_SCALE <= f * p
  BY <1>1, <1>2, Quotient
<1>6. q * PRICE_SCALE \in Nat /\ f * PRICE_SCALE \in Nat
  BY <1>1, <1>5, Z3
<1> HIDE DEF q
<1>7. q * PRICE_SCALE < f * PRICE_SCALE + PRICE_SCALE
  BY <1>1, <1>2, <1>3, <1>4, <1>5, <1>6
<1>8. q <= f
  BY <1>1, <1>5, <1>7, ProductCancel
<1> QED
  BY <1>5, <1>8 DEF q, YesLeg

\* The YES leg never decreases.
LEMMA YesLegMonotone ==
    ASSUME NEW f \in Nat, NEW g \in Nat, NEW p \in 0 .. PRICE_SCALE, f <= g
    PROVE  YesLeg(f, p) <= YesLeg(g, p)
<1>1. PRICE_SCALE \in Nat /\ PRICE_SCALE > 0 /\ p \in Nat
  BY MatchingAssumption
<1>2. f * p <= g * p
  BY <1>1, ProductMonotone
<1>3. f * p \in Nat /\ g * p \in Nat
  BY <1>1, Z3
<1> QED
  BY <1>1, <1>2, <1>3, QuotientMonotone DEF YesLeg

\* The YES leg grows by no more than the fill, so neither does the NO leg decrease.
LEMMA NoLegMonotone ==
    ASSUME NEW f \in Nat, NEW g \in Nat, NEW p \in 0 .. PRICE_SCALE, f <= g
    PROVE  f - YesLeg(f, p) <= g - YesLeg(g, p)
<1> DEFINE S == PRICE_SCALE
           d == g - f
           q == YesLeg(f, p)
           r == YesLeg(g, p)
<1>1. S \in Nat /\ S > 0 /\ p \in Nat /\ p <= S /\ d \in Nat /\ g = f + d
  BY MatchingAssumption
<1>2. f * p \in Nat /\ g * p \in Nat /\ d * p \in Nat /\ d * S \in Nat
  BY <1>1, Z3
<1>3. q \in Nat /\ r \in Nat
  BY YesLegType
<1>4. f * p < q * S + S
  BY <1>1, <1>2, Quotient DEF YesLeg
<1>5. r * S <= g * p
  BY <1>1, <1>2, Quotient DEF YesLeg
<1> HIDE DEF S, d, q, r
<1>6. p * d <= S * d
  BY <1>1, ProductMonotone
<1>7. g * p = f * p + d * p
  BY <1>1, Z3
<1>8. p * d = d * p /\ S * d = d * S
  BY <1>1, Z3
<1>9. (q + d) * S = q * S + d * S
  BY <1>1, <1>3, Z3
<1>10. q * S \in Nat /\ r * S \in Nat /\ (q + d) * S \in Nat
  BY <1>1, <1>3, Z3
<1>11. r * S < (q + d) * S + S
  BY <1>1, <1>2, <1>4, <1>5, <1>6, <1>7, <1>8, <1>9, <1>10
<1>12. r <= q + d
  BY <1>1, <1>3, <1>11, ProductCancel
<1> QED
  BY <1>3, <1>12, <1>1 DEF q, r, d

\* What the caps ask of an order.
Capped(o) ==
    /\ o.side \in {"YES", "NO"} /\ o.action \in {"BUY", "SELL"}
    /\ o.collateralFilled \in Nat /\ o.collateralCap \in Nat

\* Hence the caps admit a prefix of the fills.
LEMMA CapsPrefix ==
    ASSUME NEW b, Capped(b), NEW a, Capped(a),
           NEW f \in Nat, NEW g \in Nat, NEW p \in 0 .. PRICE_SCALE,
           f <= g, CapsOk(b, a, g, p)
    PROVE  CapsOk(b, a, f, p)
<1>1. ASSUME NEW o, Capped(o), within_cap(o, g, p)
      PROVE  within_cap(o, f, p)
  <2>1. leg_collateral(o, f, p) <= leg_collateral(o, g, p)
    BY YesLegMonotone, NoLegMonotone DEF leg_collateral
  <2>2. leg_collateral(o, f, p) \in Nat /\ leg_collateral(o, g, p) \in Nat
    BY YesLegType DEF leg_collateral
  <2>3. o.collateralFilled \in Nat /\ o.collateralCap \in Nat
    BY <1>1 DEF Capped
  <2> QED
    BY <1>1, <2>1, <2>2, <2>3 DEF within_cap
<1> QED
  BY <1>1 DEF CapsOk

\* And the payments are positive on a suffix.
LEMMA SplitSuffix ==
    ASSUME NEW f \in Nat, NEW g \in Nat, NEW p \in 0 .. PRICE_SCALE,
           f <= g, split_collateral(f, p)
    PROVE  split_collateral(g, p)
<1>1. YesLeg(f, p) <= YesLeg(g, p) /\ f - YesLeg(f, p) <= g - YesLeg(g, p)
  BY YesLegMonotone, NoLegMonotone
<1>2. /\ YesLeg(f, p) \in 0 .. f /\ YesLeg(g, p) \in 0 .. g
      /\ f - YesLeg(f, p) \in Nat /\ g - YesLeg(g, p) \in Nat
  BY YesLegType
<1> QED
  BY <1>1, <1>2 DEF split_collateral

-----------------------------------------------------------------------------
(* The largest fill. *)

\* A non-empty set of naturals up to a bound has a largest element.
LEMMA BoundedMax ==
    ASSUME NEW n \in Nat, NEW S \in SUBSET (0 .. n), S # {}
    PROVE  \E m \in S : \A k \in S : k <= m
<1> DEFINE T == {b \in Nat : \A R \in SUBSET (0 .. b) : R # {} => \E m \in R : \A k \in R : k <= m}
<1>1. 0 \in T
  <2> SUFFICES ASSUME NEW R \in SUBSET (0 .. 0), R # {}
               PROVE  \E m \in R : \A k \in R : k <= m
    OBVIOUS
  <2>1. \A k \in R : k = 0
    OBVIOUS
  <2>2. PICK m \in R : TRUE
    OBVIOUS
  <2>3. \A k \in R : k <= m
    BY <2>1, <2>2
  <2> QED
    BY <2>3
<1>2. ASSUME NEW b \in T PROVE b + 1 \in T
  <2> SUFFICES ASSUME NEW R \in SUBSET (0 .. b + 1), R # {}
               PROVE  \E m \in R : \A k \in R : k <= m
    OBVIOUS
  <2>1. CASE b + 1 \in R
    <3>1. \A k \in R : k <= b + 1
      OBVIOUS
    <3> QED
      BY <2>1, <3>1
  <2>2. CASE b + 1 \notin R
    <3>1. R \in SUBSET (0 .. b)
      BY <2>2
    <3> QED
      BY <1>2, <3>1
  <2> QED
    BY <2>1, <2>2
<1> HIDE DEF T
<1>3. T = Nat
  <2>1. T \subseteq Nat
    BY DEF T
  <2> QED
    BY <1>1, <1>2, <2>1, NatSetInduction
<1> QED
  BY <1>3 DEF T

\* What max_fill returns.
LEMMA MaxFillResult ==
    ASSUME NEW bid, NEW ask, NEW price, NEW upper \in Nat,
           NEW fill, fill = max_fill(bid, ask, price, upper)
    PROVE  /\ fill # None =>
                  /\ fill \in 1 .. upper
                  /\ split_collateral(fill, price) /\ CapsOk(bid, ask, fill, price)
                  /\ \A other \in 1 .. upper :
                         split_collateral(other, price) /\ CapsOk(bid, ask, other, price) => other <= fill
           /\ fill = None =>
                  \A other \in 1 .. upper : ~(split_collateral(other, price) /\ CapsOk(bid, ask, other, price))
<1> DEFINE admissible == {f \in 1 .. upper : split_collateral(f, price) /\ CapsOk(bid, ask, f, price)}
<1>1. fill = IF admissible = {} THEN None ELSE CHOOSE f \in admissible : \A other \in admissible : other <= f
  BY DEF max_fill
<1>2. CASE admissible = {}
  <2>1. fill = None
    BY <1>1, <1>2
  <2> QED
    BY <1>2, <2>1
<1>3. CASE admissible # {}
  <2>1. admissible \in SUBSET (0 .. upper)
    OBVIOUS
  <2> HIDE DEF admissible
  <2>2. \E f \in admissible : \A other \in admissible : other <= f
    BY <2>1, <1>3, BoundedMax
  <2>3. fill \in admissible /\ \A other \in admissible : other <= fill
    BY <1>1, <1>3, <2>2
  <2>4. fill \in 1 .. upper /\ split_collateral(fill, price) /\ CapsOk(bid, ask, fill, price)
    BY <2>3 DEF admissible
  <2>5. fill # None
    BY <2>4 DEF None
  <2> QED
    BY <2>3, <2>4, <2>5 DEF admissible
<1> QED
  BY <1>2, <1>3

-----------------------------------------------------------------------------
(* Orders that age: the terms stay, the fills grow. *)

\* The terms of an order.
SameTerms(p, o) ==
    /\ p.txId = o.txId /\ p.marketId = o.marketId
    /\ p.evmAddress = o.evmAddress /\ p.accountId = o.accountId
    /\ p.side = o.side /\ p.action = o.action /\ p.limitYesPrice = o.limitYesPrice
    /\ p.qtyShares = o.qtyShares /\ p.collateralCap = o.collateralCap /\ p.deadline = o.deadline

\* p is o, possibly after more fills.
Aged(p, o) ==
    /\ SameTerms(p, o)
    /\ o.sharesFilled <= p.sharesFilled /\ o.collateralFilled <= p.collateralFilled

\* An order is what the caps ask for.
LEMMA OrdersAreCapped ==
    ASSUME NEW names, NEW o \in OrderRecord(names)
    PROVE  Capped(o) /\ Aged(o, o) /\ remaining_shares(o) \in Nat
  BY DEF OrderRecord, Capped, Aged, SameTerms, remaining_shares

\* Ages add up.
LEMMA AgedTwice ==
    ASSUME NEW names, NEW o \in OrderRecord(names), NEW p \in OrderRecord(names), NEW q \in OrderRecord(names),
           Aged(p, o), Aged(q, p)
    PROVE  Aged(q, o)
  BY DEF OrderRecord, Aged, SameTerms

\* A fill ages an order and takes its shares from what remains.
LEMMA FilledAges ==
    ASSUME NEW names, NEW o \in OrderRecord(names), NEW price \in 0 .. PRICE_SCALE,
           NEW fill \in Nat, fill <= remaining_shares(o)
    PROVE  /\ leg_collateral(o, fill, price) \in Nat
           /\ Filled(o, fill, price) \in OrderRecord(names)
           /\ Filled(o, fill, price).sharesFilled = o.sharesFilled + fill
           /\ Filled(o, fill, price).collateralFilled = o.collateralFilled + leg_collateral(o, fill, price)
           /\ Aged(Filled(o, fill, price), o)
           /\ remaining_shares(Filled(o, fill, price)) = remaining_shares(o) - fill
<1> DEFINE leg == leg_collateral(o, fill, price)
           p == Filled(o, fill, price)
<1>1. leg \in Nat
  BY YesLegType DEF leg_collateral
<1> HIDE DEF leg
<1>2. p = [o EXCEPT !.sharesFilled = o.sharesFilled + fill, !.collateralFilled = o.collateralFilled + leg]
  BY DEF Filled, leg
<1> HIDE DEF p
<1>3. p \in OrderRecord(names)
  <2> DEFINE shares == o.sharesFilled + fill
             paid == o.collateralFilled + leg
  <2>1. shares \in Nat /\ paid \in Nat
    BY <1>1 DEF OrderRecord
  <2>2. p = [o EXCEPT !.sharesFilled = shares, !.collateralFilled = paid]
    BY <1>2
  <2> HIDE DEF shares, paid
  <2> QED
    BY <2>1, <2>2, Zenon DEF OrderRecord
<1>4. SameTerms(p, o) /\ p.sharesFilled = o.sharesFilled + fill /\ p.collateralFilled = o.collateralFilled + leg
  BY <1>1, <1>2 DEF OrderRecord, SameTerms
<1>5. o.sharesFilled \in Nat /\ o.collateralFilled \in Nat /\ o.qtyShares \in Nat
  BY DEF OrderRecord
<1>6. Aged(p, o)
  BY <1>1, <1>4, <1>5 DEF Aged
<1>7. remaining_shares(p) = remaining_shares(o) - fill
  BY <1>4, <1>5 DEF remaining_shares, SameTerms
<1> QED
  BY <1>1, <1>3, <1>4, <1>6, <1>7 DEF leg, p

\* What can be filled between two orders at a price.
Least(a, b) == IF a < b THEN a ELSE b
NoFill(bid, ask, price) ==
    ~ \E fill \in 1 .. Least(remaining_shares(bid), remaining_shares(ask)) :
          split_collateral(fill, price) /\ CapsOk(bid, ask, fill, price)

\* Two orders between which no fill is possible keep it so as they age.
LEMMA NoFillAges ==
    ASSUME NEW names, NEW bid \in OrderRecord(names), NEW ask \in OrderRecord(names),
           NEW bid2 \in OrderRecord(names), NEW ask2 \in OrderRecord(names),
           Aged(bid2, bid), Aged(ask2, ask),
           NEW price \in 0 .. PRICE_SCALE, NoFill(bid, ask, price)
    PROVE  NoFill(bid2, ask2, price)
<1>1. ASSUME NEW o \in OrderRecord(names), NEW p \in OrderRecord(names), Aged(p, o)
      PROVE  /\ remaining_shares(p) <= remaining_shares(o)
             /\ remaining_shares(p) \in Nat /\ remaining_shares(o) \in Nat
  BY <1>1 DEF OrderRecord, Aged, SameTerms, remaining_shares
<1>2. ASSUME NEW o \in OrderRecord(names), NEW p \in OrderRecord(names), Aged(p, o),
             NEW fill \in Nat, within_cap(p, fill, price)
      PROVE  within_cap(o, fill, price)
  <2>1. leg_collateral(p, fill, price) = leg_collateral(o, fill, price) /\ leg_collateral(o, fill, price) \in Nat
    BY <1>2, YesLegType DEF leg_collateral, Aged, SameTerms
  <2>2. /\ o.collateralFilled <= p.collateralFilled /\ o.collateralCap = p.collateralCap /\ o.action = p.action
        /\ o.collateralFilled \in Nat /\ p.collateralFilled \in Nat /\ o.collateralCap \in Nat
    BY <1>2 DEF Aged, SameTerms, OrderRecord
  <2> QED
    BY <1>2, <2>1, <2>2 DEF within_cap
<1> SUFFICES ASSUME NEW fill \in 1 .. Least(remaining_shares(bid2), remaining_shares(ask2)),
                    split_collateral(fill, price), CapsOk(bid2, ask2, fill, price)
             PROVE  FALSE
  BY DEF NoFill
<1>3. fill \in 1 .. Least(remaining_shares(bid), remaining_shares(ask))
  <2>1. /\ remaining_shares(bid2) <= remaining_shares(bid) /\ remaining_shares(ask2) <= remaining_shares(ask)
        /\ remaining_shares(bid) \in Nat /\ remaining_shares(bid2) \in Nat
        /\ remaining_shares(ask) \in Nat /\ remaining_shares(ask2) \in Nat
    BY <1>1
  <2> QED
    BY <2>1 DEF Least
<1>4. fill \in Nat
  BY <1>3
<1>5. CapsOk(bid, ask, fill, price)
  BY <1>2, <1>4 DEF CapsOk
<1> QED
  BY <1>3, <1>5 DEF NoFill

\* One share more costs a leg one unit more at most.
LEMMA LegStep ==
    ASSUME NEW names, NEW o \in OrderRecord(names), NEW fill \in Nat, NEW price \in 0 .. PRICE_SCALE
    PROVE  leg_collateral(o, fill + 1, price) <= leg_collateral(o, fill, price) + 1
<1>1. /\ YesLeg(fill, price) <= YesLeg(fill + 1, price)
      /\ fill - YesLeg(fill, price) <= (fill + 1) - YesLeg(fill + 1, price)
  BY YesLegMonotone, NoLegMonotone
<1>2. YesLeg(fill, price) \in Nat /\ YesLeg(fill + 1, price) \in Nat
  BY YesLegType
<1> QED
  BY <1>1, <1>2 DEF leg_collateral

\* After its largest fill a pair of orders has no other fill to offer, even where
\* the fill was cut short by a cap: what is left of that cap pays for nothing.
LEMMA FillLeavesNothing ==
    ASSUME NEW names, NEW bid \in OrderRecord(names), NEW ask \in OrderRecord(names),
           NEW price \in 0 .. PRICE_SCALE,
           NEW fill, fill = max_fill(bid, ask, price, Least(remaining_shares(bid), remaining_shares(ask))),
           fill # None,
           remaining_shares(Filled(bid, fill, price)) > 0, remaining_shares(Filled(ask, fill, price)) > 0
    PROVE  NoFill(Filled(bid, fill, price), Filled(ask, fill, price), price)
<1> DEFINE upper == Least(remaining_shares(bid), remaining_shares(ask))
<1>1. remaining_shares(bid) \in Nat /\ remaining_shares(ask) \in Nat /\ upper \in Nat
  BY OrdersAreCapped DEF Least
<1>2. /\ fill \in 1 .. upper /\ split_collateral(fill, price) /\ CapsOk(bid, ask, fill, price)
      /\ \A other \in 1 .. upper :
             split_collateral(other, price) /\ CapsOk(bid, ask, other, price) => other <= fill
  BY <1>1, MaxFillResult
<1>3. fill \in Nat /\ fill <= remaining_shares(bid) /\ fill <= remaining_shares(ask)
  BY <1>1, <1>2 DEF Least
<1>4. fill < remaining_shares(bid) /\ fill < remaining_shares(ask)
  BY <1>1, <1>3, FilledAges
<1>5. fill + 1 \in 1 .. upper
  BY <1>1, <1>3, <1>4 DEF Least
<1>6. split_collateral(fill + 1, price)
  BY <1>2, <1>3, SplitSuffix
<1>7. ~CapsOk(bid, ask, fill + 1, price)
  BY <1>2, <1>3, <1>5, <1>6
<1>8. ASSUME NEW o \in OrderRecord(names), fill <= remaining_shares(o), ~within_cap(o, fill + 1, price),
             NEW other \in Nat, split_collateral(other, price)
      PROVE  ~within_cap(Filled(o, fill, price), other, price)
  <2> DEFINE p == Filled(o, fill, price)
  <2>1. /\ p.collateralFilled = o.collateralFilled + leg_collateral(o, fill, price)
        /\ p.action = o.action /\ p.side = o.side /\ p.collateralCap = o.collateralCap
        /\ leg_collateral(o, fill, price) \in Nat
    BY <1>3, <1>8, FilledAges DEF Aged, SameTerms
  <2>2. leg_collateral(o, fill + 1, price) <= leg_collateral(o, fill, price) + 1
        /\ leg_collateral(o, fill + 1, price) \in Nat
    BY <1>3, LegStep, YesLegType DEF leg_collateral
  <2>3. leg_collateral(p, other, price) \in Nat /\ leg_collateral(p, other, price) > 0
    BY <1>8, YesLegType DEF leg_collateral, split_collateral
  <2> HIDE DEF p
  <2>4. o.action = "BUY" /\ o.collateralFilled + leg_collateral(o, fill + 1, price) > o.collateralCap
    BY <1>8, <2>2 DEF within_cap, OrderRecord
  <2>5. o.collateralFilled \in Nat /\ o.collateralCap \in Nat
    BY DEF OrderRecord
  <2>6. p.collateralFilled + leg_collateral(p, other, price) > p.collateralCap
    BY <2>1, <2>2, <2>3, <2>4, <2>5
  <2>7. ~within_cap(p, other, price)
    BY <2>1, <2>3, <2>4, <2>5, <2>6 DEF within_cap
  <2> QED
    BY <2>7 DEF p
<1>9. CASE ~within_cap(bid, fill + 1, price)
  BY <1>3, <1>8, <1>9 DEF NoFill, CapsOk
<1>10. CASE ~within_cap(ask, fill + 1, price)
  BY <1>3, <1>8, <1>10 DEF NoFill, CapsOk
<1> QED
  BY <1>7, <1>9, <1>10 DEF CapsOk

-----------------------------------------------------------------------------
(* The order in which the other side is visited. *)

Below(R, n, i) == {j \in 1 .. n : <<j, i>> \in R}

\* In a strict total order of n elements, each number of predecessors from 0 to
\* n - 1 occurs, and more predecessors means later.
LEMMA RanksOnto ==
    ASSUME NEW n \in Nat, NEW R,
           \A i \in 1 .. n : <<i, i>> \notin R,
           \A i, j \in 1 .. n : i # j => <<i, j>> \in R \/ <<j, i>> \in R,
           \A i, j, k \in 1 .. n : <<i, j>> \in R /\ <<j, k>> \in R => <<i, k>> \in R
    PROVE  /\ \A k \in 1 .. n : \E i \in 1 .. n : Cardinality(Below(R, n, i)) = k - 1
           /\ \A i, j \in 1 .. n : Cardinality(Below(R, n, i)) < Cardinality(Below(R, n, j)) => <<i, j>> \in R
<1>1. IsFiniteSet(1 .. n) /\ Cardinality(1 .. n) = n
  BY FS_Interval
<1>2. \A i \in 1 .. n : IsFiniteSet(Below(R, n, i)) /\ Cardinality(Below(R, n, i)) \in Nat
  <2> TAKE i \in 1 .. n
  <2>1. Below(R, n, i) \in SUBSET (1 .. n)
    BY DEF Below
  <2> QED
    BY <1>1, <2>1, FS_Subset, FS_CardinalityType
<1>3. ASSUME NEW i \in 1 .. n, NEW j \in 1 .. n, <<i, j>> \in R
      PROVE  Cardinality(Below(R, n, i)) < Cardinality(Below(R, n, j))
  <2>1. i \notin Below(R, n, i)
    BY DEF Below
  <2>2. Below(R, n, i) \cup {i} \in SUBSET Below(R, n, j)
    BY <1>3 DEF Below
  <2>3. Cardinality(Below(R, n, i) \cup {i}) = Cardinality(Below(R, n, i)) + 1
    BY <1>2, <2>1, FS_AddElement
  <2>4. Cardinality(Below(R, n, i) \cup {i}) <= Cardinality(Below(R, n, j))
    BY <1>2, <2>2, FS_Subset
  <2> QED
    BY <1>2, <2>3, <2>4
<1>4. \A i \in 1 .. n : Cardinality(Below(R, n, i)) \in 0 .. (n - 1)
  <2> TAKE i \in 1 .. n
  <2>1. Below(R, n, i) \in SUBSET ((1 .. n) \ {i})
    BY DEF Below
  <2>2. IsFiniteSet((1 .. n) \ {i}) /\ Cardinality((1 .. n) \ {i}) = n - 1
    BY <1>1, FS_RemoveElement
  <2>3. Cardinality(Below(R, n, i)) <= n - 1
    BY <2>1, <2>2, FS_Subset
  <2> QED
    BY <1>2, <2>3
<1> DEFINE rank == [i \in 1 .. n |-> Cardinality(Below(R, n, i))]
<1>5. rank \in Injection(1 .. n, 0 .. (n - 1))
  <2>1. rank \in [1 .. n -> 0 .. (n - 1)]
    BY <1>4
  <2>2. \A i, j \in 1 .. n : rank[i] = rank[j] => i = j
    <3> SUFFICES ASSUME NEW i \in 1 .. n, NEW j \in 1 .. n, rank[i] = rank[j], i # j
                 PROVE  FALSE
      OBVIOUS
    <3>1. rank[i] < rank[j] \/ rank[j] < rank[i]
      BY <1>3
    <3>2. rank[i] \in Nat /\ rank[j] \in Nat
      BY <1>2
    <3> QED
      BY <3>1, <3>2
  <2> QED
    BY <2>1, <2>2 DEF Injection, IsInjective
<1>6. IsFiniteSet(0 .. (n - 1)) /\ Cardinality(0 .. (n - 1)) = n
  BY FS_Interval
<1> HIDE DEF rank
<1>7. rank \in Surjection(1 .. n, 0 .. (n - 1))
  BY <1>1, <1>5, <1>6, FS_Injection
<1>8. \A k \in 1 .. n : \E i \in 1 .. n : Cardinality(Below(R, n, i)) = k - 1
  <2> TAKE k \in 1 .. n
  <2>1. k - 1 \in 0 .. (n - 1)
    OBVIOUS
  <2>2. PICK i \in 1 .. n : rank[i] = k - 1
    BY <1>7, <2>1 DEF Surjection
  <2> QED
    BY <2>2 DEF rank
<1>9. ASSUME NEW i \in 1 .. n, NEW j \in 1 .. n, Cardinality(Below(R, n, i)) < Cardinality(Below(R, n, j))
      PROVE  <<i, j>> \in R
  <2>1. ~(Cardinality(Below(R, n, j)) < Cardinality(Below(R, n, i)))
        /\ Cardinality(Below(R, n, i)) # Cardinality(Below(R, n, j))
    BY <1>2, <1>9
  <2>2. i # j /\ <<j, i>> \notin R
    BY <1>3, <2>1
  <2> QED
    BY <2>2
<1> QED
  BY <1>8, <1>9

\* BestFirst arranges the orders so that each of two is visited before the other
\* as their prices, and for equal prices their places, say.
LEMMA BestFirstSorts ==
    ASSUME NEW names, NEW s \in Seq(OrderRecord(names)), NEW asAsks \in BOOLEAN
    PROVE  /\ BestFirst(s, asAsks) \in Seq(OrderRecord(names))
           /\ Len(BestFirst(s, asAsks)) = Len(s)
           /\ \E at \in [1 .. Len(s) -> 1 .. Len(s)] :
                  /\ \A k \in 1 .. Len(s) : BestFirst(s, asAsks)[k] = s[at[k]]
                  /\ \A k, l \in 1 .. Len(s) : k < l => Better(s, asAsks, at[k], at[l])
<1> DEFINE n == Len(s)
           R == {r \in (1 .. n) \X (1 .. n) : Better(s, asAsks, r[1], r[2])}
           place(k) == CHOOSE i \in 1 .. n : Cardinality({j \in 1 .. n : Better(s, asAsks, j, i)}) = k - 1
           at == [k \in 1 .. n |-> place(k)]
<1>1. n \in Nat /\ \A i \in 1 .. n : s[i] \in OrderRecord(names)
  OBVIOUS
<1>2. \A i \in 1 .. n : s[i].limitYesPrice \in Int
  <2>1. \A o \in OrderRecord(names) : o.limitYesPrice \in Int
    BY MatchingAssumption DEF OrderRecord
  <2> QED
    BY <1>1, <2>1
<1>3. \A i, j \in 1 .. n : <<i, j>> \in R <=> Better(s, asAsks, i, j)
  OBVIOUS
<1>4. \A i \in 1 .. n : ~Better(s, asAsks, i, i)
  BY DEF Better
<1>5. \A i, j \in 1 .. n : i # j => Better(s, asAsks, i, j) \/ Better(s, asAsks, j, i)
  BY <1>1, <1>2 DEF Better
<1>6. \A i, j, k \in 1 .. n : Better(s, asAsks, i, j) /\ Better(s, asAsks, j, k) => Better(s, asAsks, i, k)
  BY <1>1, <1>2 DEF Better
<1>7. \A i \in 1 .. n : {j \in 1 .. n : Better(s, asAsks, j, i)} = Below(R, n, i)
  BY <1>3 DEF Below
<1> HIDE DEF R
<1>8. /\ \A k \in 1 .. n : \E i \in 1 .. n : Cardinality(Below(R, n, i)) = k - 1
      /\ \A i, j \in 1 .. n : Cardinality(Below(R, n, i)) < Cardinality(Below(R, n, j)) => <<i, j>> \in R
  <2> HIDE DEF n
  <2> QED
    BY <1>1, <1>3, <1>4, <1>5, <1>6, RanksOnto
<1>9. \A k \in 1 .. n : place(k) \in 1 .. n /\ Cardinality(Below(R, n, place(k))) = k - 1
  <2> TAKE k \in 1 .. n
  <2>1. \E i \in 1 .. n : Cardinality({j \in 1 .. n : Better(s, asAsks, j, i)}) = k - 1
    BY <1>7, <1>8
  <2>2. place(k) \in 1 .. n /\ Cardinality({j \in 1 .. n : Better(s, asAsks, j, place(k))}) = k - 1
    BY <2>1
  <2> QED
    BY <1>7, <2>2
<1>10. BestFirst(s, asAsks) = [k \in 1 .. n |-> s[place(k)]]
  BY DEF BestFirst
<1> HIDE DEF place
<1>11. at \in [1 .. n -> 1 .. n]
  BY <1>9
<1>12. BestFirst(s, asAsks) \in Seq(OrderRecord(names)) /\ Len(BestFirst(s, asAsks)) = n
  <2> DEFINE q == BestFirst(s, asAsks)
  <2>1. q \in [1 .. n -> OrderRecord(names)]
    BY <1>1, <1>9, <1>10
  <2> HIDE DEF q, n
  <2> QED
    BY <1>1, <2>1 DEF q
<1>13. \A k \in 1 .. n : BestFirst(s, asAsks)[k] = s[at[k]]
  BY <1>10
<1>14. ASSUME NEW k \in 1 .. n, NEW l \in 1 .. n, k < l
       PROVE  Better(s, asAsks, at[k], at[l])
  <2>1. k - 1 < l - 1
    BY <1>14
  <2>2. <<place(k), place(l)>> \in R
    BY <1>8, <1>9, <2>1
  <2> QED
    BY <1>3, <1>9, <2>2
<1> QED
  BY <1>11, <1>12, <1>13, <1>14

-----------------------------------------------------------------------------
(* The visits of an arriving order as the recursion they are. *)

Outset(incoming) == [stopped |-> FALSE, incoming |-> incoming, kept |-> <<>>, matches |-> <<>>]

IsWalk(g, incoming, queue, n, now) ==
    g = [k \in 0 .. n |-> IF k = 0 THEN Outset(incoming) ELSE Visit(g[k - 1], queue[k], now)]

\* The recursion has a solution.
LEMMA WalkExists ==
    ASSUME NEW incoming, NEW queue, NEW now, NEW n \in Nat
    PROVE  \E g : IsWalk(g, incoming, queue, n, now)
<1> DEFINE T == {b \in Nat : \E g : IsWalk(g, incoming, queue, b, now)}
<1>1. 0 \in T
  <2> DEFINE g == [k \in 0 .. 0 |-> Outset(incoming)]
  <2>1. IsWalk(g, incoming, queue, 0, now)
    BY DEF IsWalk
  <2> QED
    BY <2>1
<1>2. ASSUME NEW b \in T PROVE b + 1 \in T
  <2>1. PICK g : IsWalk(g, incoming, queue, b, now)
    BY <1>2
  <2> DEFINE h == [k \in 0 .. b + 1 |-> IF k = 0 THEN Outset(incoming) ELSE Visit(g[k - 1], queue[k], now)]
  <2>2. b \in Nat
    OBVIOUS
  <2>3. \A k \in 0 .. b : g[k] = IF k = 0 THEN Outset(incoming) ELSE Visit(g[k - 1], queue[k], now)
    BY <2>1 DEF IsWalk
  <2>4. \A k \in 0 .. b + 1 : h[k] = IF k = 0 THEN Outset(incoming) ELSE Visit(g[k - 1], queue[k], now)
    OBVIOUS
  <2>5. \A k \in 0 .. b : h[k] = g[k]
    BY <2>2, <2>3, <2>4
  <2>6. DOMAIN h = 0 .. b + 1 /\ h = [k \in 0 .. b + 1 |-> h[k]]
    OBVIOUS
  <2> HIDE DEF h
  <2>7. \A k \in 0 .. b + 1 : h[k] = IF k = 0 THEN Outset(incoming) ELSE Visit(h[k - 1], queue[k], now)
    <3> TAKE k \in 0 .. b + 1
    <3>1. k # 0 => k - 1 \in 0 .. b
      BY <2>2
    <3>2. k # 0 => h[k - 1] = g[k - 1]
      BY <2>5, <3>1
    <3> QED
      BY <2>4, <3>2
  <2>8. IsWalk(h, incoming, queue, b + 1, now)
    <3> DEFINE hh == [k \in 0 .. b + 1 |-> IF k = 0 THEN Outset(incoming) ELSE Visit(h[k - 1], queue[k], now)]
    <3>1. \A k \in 0 .. b + 1 : hh[k] = h[k]
      BY <2>7
    <3>2. hh = h
      BY <2>6, <3>1
    <3> QED
      BY <3>2 DEF IsWalk
  <2> QED
    BY <2>2, <2>8
<1> HIDE DEF T
<1>3. T = Nat
  <2>1. T \subseteq Nat
    BY DEF T
  <2> QED
    BY <1>1, <1>2, <2>1, NatSetInduction
<1> QED
  BY <1>3 DEF T

\* The walk starts with the arriving order and makes one visit after the other.
LEMMA WalkSteps ==
    ASSUME NEW incoming, NEW queue, NEW now, Len(queue) \in Nat
    PROVE  /\ Walk(incoming, queue, now)[0] = Outset(incoming)
           /\ \A k \in 1 .. Len(queue) :
                  Walk(incoming, queue, now)[k] = Visit(Walk(incoming, queue, now)[k - 1], queue[k], now)
<1> DEFINE w == Walk(incoming, queue, now)
<1>1. w = CHOOSE g : IsWalk(g, incoming, queue, Len(queue), now)
  BY DEF Walk, IsWalk, Outset
<1>2. \E g : IsWalk(g, incoming, queue, Len(queue), now)
  BY WalkExists
<1>3. IsWalk(w, incoming, queue, Len(queue), now)
  BY <1>1, <1>2
<1> HIDE DEF w
<1>4. \A k \in 0 .. Len(queue) : w[k] = IF k = 0 THEN Outset(incoming) ELSE Visit(w[k - 1], queue[k], now)
  BY <1>3 DEF IsWalk
<1> QED
  BY <1>4 DEF w

-----------------------------------------------------------------------------
(* One visit. *)

\* Whether an arriving order crosses one that rests on the other side.
CrossesWith(in, o) == IF is_bid(in) THEN crosses(in, o) ELSE crosses(o, in)

\* The arriving order and a resting one can not be filled against each other,
\* whatever they have left later on.
Hopeless(in, o) ==
    \/ same_trader(in, o)
    \/ execution_price(o, in) = None
    \/ NoFill(in, o, execution_price(o, in))

MatchRecord(names) ==
    [bid : OrderRecord(names), ask : OrderRecord(names), fillShares : Nat, executionYesPrice : Nat]

Visiting(names) ==
    [stopped : BOOLEAN, incoming : OrderRecord(names), kept : Seq(OrderRecord(names)),
     matches : Seq(MatchRecord(names))]

BidOf(in, o) == IF is_bid(in) THEN in ELSE o
AskOf(in, o) == IF is_bid(in) THEN o ELSE in

\* What a visit of o can do.
Passed(acc, next, o) ==
    /\ next.stopped = acc.stopped /\ next.incoming = acc.incoming /\ next.matches = acc.matches
    /\ next.kept = Append(acc.kept, o)
    /\ acc.stopped \/ remaining_shares(acc.incoming) = 0 \/ Hopeless(acc.incoming, o)

Ended(acc, next, o) ==
    /\ ~acc.stopped /\ next.stopped /\ next.incoming = acc.incoming /\ next.matches = acc.matches
    /\ next.kept = Append(acc.kept, o)
    /\ ~CrossesWith(acc.incoming, o)

Traded(acc, next, o, fill, price) ==
    /\ ~acc.stopped /\ ~next.stopped
    /\ remaining_shares(acc.incoming) # 0
    /\ CrossesWith(acc.incoming, o)
    /\ price = execution_price(o, acc.incoming) /\ price # None
    /\ fill # None
    /\ fill = max_fill(BidOf(acc.incoming, o), AskOf(acc.incoming, o), price,
                       Least(remaining_shares(acc.incoming), remaining_shares(o)))
    /\ next.incoming = Filled(acc.incoming, fill, price)
    /\ next.kept = IF remaining_shares(Filled(o, fill, price)) = 0 THEN acc.kept
                   ELSE Append(acc.kept, Filled(o, fill, price))
    /\ next.matches = Append(acc.matches,
           [bid |-> BidOf(acc.incoming, o), ask |-> AskOf(acc.incoming, o),
            fillShares |-> fill, executionYesPrice |-> price])

\* NoFill does not depend on which of the two orders is the bid.
LEMMA NoFillSymmetric ==
    ASSUME NEW names, NEW a \in OrderRecord(names), NEW b \in OrderRecord(names), NEW price
    PROVE  /\ Least(remaining_shares(a), remaining_shares(b)) = Least(remaining_shares(b), remaining_shares(a))
           /\ NoFill(a, b, price) <=> NoFill(b, a, price)
<1>1. Least(remaining_shares(a), remaining_shares(b)) = Least(remaining_shares(b), remaining_shares(a))
  BY OrdersAreCapped DEF Least
<1> QED
  BY <1>1 DEF NoFill, CapsOk

\* A visit passes the order, drops it as expired, ends the walk or trades.
LEMMA VisitOutcome ==
    ASSUME NEW names, NEW acc \in Visiting(names), NEW o \in OrderRecord(names), NEW now
    PROVE  LET next == Visit(acc, o, now)
           IN  \/ next = acc
               \/ Passed(acc, next, o)
               \/ Ended(acc, next, o)
               \/ \E fill, price : Traded(acc, next, o, fill, price)
<1> DEFINE in == acc.incoming
           bid == BidOf(in, o)
           ask == AskOf(in, o)
           price == execution_price(o, in)
           upper == Least(remaining_shares(in), remaining_shares(o))
           fill == max_fill(bid, ask, price, upper)
           after == Filled(o, fill, price)
           kept == [acc EXCEPT !.kept = Append(@, o)]
           traded == [stopped |-> FALSE, incoming |-> Filled(in, fill, price),
                      kept |-> IF remaining_shares(after) = 0 THEN acc.kept ELSE Append(acc.kept, after),
                      matches |-> Append(acc.matches,
                          [bid |-> bid, ask |-> ask, fillShares |-> fill, executionYesPrice |-> price])]
           next == Visit(acc, o, now)
<1>1. next = IF acc.stopped \/ remaining_shares(in) = 0 THEN kept
             ELSE IF Expired(o, now) THEN acc
             ELSE IF ~crosses(bid, ask) THEN [kept EXCEPT !.stopped = TRUE]
             ELSE IF same_trader(in, o) THEN kept
             ELSE IF price = None THEN kept
             ELSE IF fill = None THEN kept
             ELSE traded
  BY DEF Visit, BidOf, AskOf, Least
<1>2. crosses(bid, ask) <=> CrossesWith(in, o)
  BY DEF BidOf, AskOf, CrossesWith
<1>3. /\ kept.stopped = acc.stopped /\ kept.incoming = in /\ kept.matches = acc.matches
      /\ kept.kept = Append(acc.kept, o)
  BY DEF Visiting
<1>4. fill = None => NoFill(in, o, price)
  <2> HIDE DEF price, fill
  <2>1. upper \in Nat /\ upper = Least(remaining_shares(o), remaining_shares(in))
    BY OrdersAreCapped, NoFillSymmetric DEF Least, Visiting
  <2>2. fill = max_fill(bid, ask, price, upper)
    BY DEF fill
  <2>3. fill = None => \A other \in 1 .. upper : ~(split_collateral(other, price) /\ CapsOk(bid, ask, other, price))
    BY <2>1, <2>2, MaxFillResult
  <2> QED
    BY <2>1, <2>3 DEF NoFill, CapsOk, BidOf, AskOf
<1>5. CASE acc.stopped \/ remaining_shares(in) = 0
  BY <1>1, <1>3, <1>5 DEF Passed
<1>6. CASE ~(acc.stopped \/ remaining_shares(in) = 0) /\ Expired(o, now)
  BY <1>1, <1>6
<1>7. CASE ~(acc.stopped \/ remaining_shares(in) = 0) /\ ~Expired(o, now) /\ ~crosses(bid, ask)
  <2>1. next = [kept EXCEPT !.stopped = TRUE]
    BY <1>1, <1>7
  <2>2. /\ next.stopped /\ next.incoming = in /\ next.matches = acc.matches
        /\ next.kept = Append(acc.kept, o)
    BY <2>1 DEF Visiting
  <2> QED
    BY <1>2, <1>7, <2>2 DEF Ended
<1> DEFINE going == ~(acc.stopped \/ remaining_shares(in) = 0) /\ ~Expired(o, now) /\ crosses(bid, ask)
<1>8. CASE going /\ (same_trader(in, o) \/ price = None \/ fill = None)
  <2>1. next = kept
    BY <1>1, <1>8
  <2>2. Hopeless(in, o)
    BY <1>4, <1>8 DEF Hopeless
  <2> QED
    BY <1>3, <2>1, <2>2 DEF Passed
<1>9. CASE going /\ ~(same_trader(in, o) \/ price = None \/ fill = None)
  <2>1. next = traded
    BY <1>1, <1>9
  <2>2. /\ next.incoming = Filled(in, fill, price) /\ ~next.stopped
        /\ next.kept = IF remaining_shares(after) = 0 THEN acc.kept ELSE Append(acc.kept, after)
        /\ next.matches = Append(acc.matches,
               [bid |-> bid, ask |-> ask, fillShares |-> fill, executionYesPrice |-> price])
    BY <2>1
  <2> HIDE DEF next, traded
  <2>3. Traded(acc, next, o, fill, price)
    BY <1>2, <1>9, <2>2 DEF Traded
  <2> QED
    BY <2>3 DEF next
<1> QED
  BY <1>5, <1>6, <1>7, <1>8, <1>9

\* The execution price is one of the two limits, inside the range.
LEMMA PriceOfPair ==
    ASSUME NEW names, NEW a \in OrderRecord(names), NEW b \in OrderRecord(names), execution_price(a, b) # None
    PROVE  /\ execution_price(a, b) \in 1 .. (PRICE_SCALE - 1)
           /\ execution_price(a, b) \in {a.limitYesPrice, b.limitYesPrice}
<1>1. /\ a.limitYesPrice \in 0 .. PRICE_SCALE /\ b.limitYesPrice \in 0 .. PRICE_SCALE
      /\ PRICE_SCALE \in Nat /\ PRICE_SCALE > 0
  BY MatchingAssumption DEF OrderRecord
<1> QED
  BY <1>1 DEF execution_price

\* What depends on the terms of two orders stays as they age.
LEMMA TermsDecide ==
    ASSUME NEW in, NEW o, NEW in2, NEW o2, SameTerms(in2, in), SameTerms(o2, o)
    PROVE  /\ is_bid(in2) <=> is_bid(in)
           /\ CrossesWith(in2, o2) <=> CrossesWith(in, o)
           /\ same_trader(in2, o2) <=> same_trader(in, o)
           /\ execution_price(o2, in2) = execution_price(o, in)
<1>1. is_bid(in2) <=> is_bid(in)
  BY DEF is_bid, SameTerms
<1>2. in2.limitYesPrice = in.limitYesPrice /\ o2.limitYesPrice = o.limitYesPrice
  BY DEF SameTerms
<1>3. CrossesWith(in2, o2) <=> CrossesWith(in, o)
  BY <1>1, <1>2 DEF CrossesWith, crosses
<1>4. same_trader(in2, o2) <=> same_trader(in, o)
  BY DEF SameTerms, same_trader
<1>5. execution_price(o2, in2) = execution_price(o, in)
  BY <1>2 DEF execution_price
<1> QED
  BY <1>1, <1>3, <1>4, <1>5

\* Two orders that can not be filled against each other never can be.
LEMMA HopelessAges ==
    ASSUME NEW names, NEW in \in OrderRecord(names), NEW o \in OrderRecord(names),
           NEW in2 \in OrderRecord(names), NEW o2 \in OrderRecord(names),
           Aged(in2, in), Aged(o2, o), Hopeless(in, o)
    PROVE  Hopeless(in2, o2)
<1> DEFINE price == execution_price(o, in)
<1>1. /\ same_trader(in2, o2) <=> same_trader(in, o)
      /\ execution_price(o2, in2) = price
  BY TermsDecide DEF Aged
<1>2. CASE same_trader(in, o) \/ price = None
  BY <1>1, <1>2 DEF Hopeless
<1>3. CASE NoFill(in, o, price) /\ price # None
  <2>1. price \in 0 .. PRICE_SCALE
    BY <1>3, PriceOfPair, MatchingAssumption
  <2> HIDE DEF price
  <2>2. NoFill(in2, o2, price)
    BY <1>3, <2>1, NoFillAges
  <2> QED
    BY <1>1, <2>2 DEF Hopeless
<1> QED
  BY <1>2, <1>3 DEF Hopeless

\* A fill both orders accept: its price is between their limits, and with it
\* neither is filled beyond its quantity nor a purchase beyond its cap.
GoodFill(match) ==
    /\ match.ask.limitYesPrice <= match.executionYesPrice
    /\ match.executionYesPrice <= match.bid.limitYesPrice
    /\ \A o \in {match.bid, match.ask} :
           LET after == Filled(o, match.fillShares, match.executionYesPrice)
           IN  /\ after.sharesFilled <= o.qtyShares
               /\ o.action = "BUY" => after.collateralFilled <= o.collateralCap

\* What a trade does: a good fill, two orders that have aged, and no other fill
\* between them while both have something left.
LEMMA TradeFacts ==
    ASSUME NEW names, NEW acc \in Visiting(names), NEW next, NEW o \in OrderRecord(names),
           remaining_shares(o) > 0,
           NEW fill, NEW price, Traded(acc, next, o, fill, price)
    PROVE  LET in == acc.incoming
               in2 == Filled(in, fill, price)
               o2 == Filled(o, fill, price)
               match == [bid |-> BidOf(in, o), ask |-> AskOf(in, o), fillShares |-> fill, executionYesPrice |-> price]
           IN  /\ fill \in Nat \ {0} /\ price \in 1 .. (PRICE_SCALE - 1) /\ split_collateral(fill, price)
               /\ fill <= remaining_shares(in) /\ fill <= remaining_shares(o)
               /\ in2 \in OrderRecord(names) /\ Aged(in2, in)
               /\ o2 \in OrderRecord(names) /\ Aged(o2, o) /\ remaining_shares(o2) \in Nat
               /\ match \in MatchRecord(names) /\ GoodFill(match)
               /\ remaining_shares(o2) > 0 => remaining_shares(in2) = 0 \/ Hopeless(in2, o2)
<1> DEFINE in == acc.incoming
           bid == BidOf(in, o)
           ask == AskOf(in, o)
           upper == Least(remaining_shares(in), remaining_shares(o))
           in2 == Filled(in, fill, price)
           o2 == Filled(o, fill, price)
           match == [bid |-> bid, ask |-> ask, fillShares |-> fill, executionYesPrice |-> price]
<1>1. in \in OrderRecord(names)
  BY DEF Visiting
<1>2. price \in 1 .. (PRICE_SCALE - 1) /\ price \in {in.limitYesPrice, o.limitYesPrice}
  BY <1>1, PriceOfPair DEF Traded
<1>3. price \in 0 .. PRICE_SCALE
  BY <1>2, MatchingAssumption
<1>4. upper \in Nat /\ remaining_shares(in) \in Nat /\ remaining_shares(o) \in Nat
      /\ upper = Least(remaining_shares(bid), remaining_shares(ask))
  BY <1>1, OrdersAreCapped, NoFillSymmetric DEF Least, BidOf, AskOf
<1>5. fill = max_fill(bid, ask, price, upper) /\ fill # None /\ CrossesWith(in, o)
  BY DEF Traded
<1>6. fill \in 1 .. upper /\ split_collateral(fill, price) /\ CapsOk(bid, ask, fill, price)
  <2> HIDE DEF upper, bid, ask
  <2> QED
    BY <1>4, <1>5, MaxFillResult
<1>7. fill \in Nat /\ fill > 0 /\ fill <= remaining_shares(in) /\ fill <= remaining_shares(o)
  BY <1>4, <1>6 DEF Least
<1>8. /\ in2 \in OrderRecord(names) /\ Aged(in2, in) /\ o2 \in OrderRecord(names) /\ Aged(o2, o)
      /\ remaining_shares(in2) = remaining_shares(in) - fill /\ remaining_shares(o2) = remaining_shares(o) - fill
  BY <1>1, <1>3, <1>7, FilledAges
<1>9. match \in MatchRecord(names)
  <2>1. bid \in OrderRecord(names) /\ ask \in OrderRecord(names)
    BY <1>1 DEF BidOf, AskOf
  <2>2. price \in Nat
    BY <1>3, MatchingAssumption
  <2> HIDE DEF bid, ask
  <2> QED
    BY <1>7, <2>1, <2>2 DEF MatchRecord
<1>10. GoodFill(match)
  <2>1. ask.limitYesPrice <= price /\ price <= bid.limitYesPrice
    <3>1. in.limitYesPrice \in Int /\ o.limitYesPrice \in Int
      BY <1>1, MatchingAssumption DEF OrderRecord
    <3> QED
      BY <1>2, <1>5, <3>1 DEF BidOf, AskOf, CrossesWith, crosses
  <2>2. ASSUME NEW p \in {in, o}
        PROVE  /\ Filled(p, fill, price).sharesFilled <= p.qtyShares
               /\ p.action = "BUY" => Filled(p, fill, price).collateralFilled <= p.collateralCap
    <3>1. p \in OrderRecord(names) /\ fill <= remaining_shares(p) /\ within_cap(p, fill, price)
      BY <1>1, <1>6, <1>7 DEF CapsOk, BidOf, AskOf
    <3>2. p.sharesFilled + fill <= p.qtyShares
      BY <1>7, <3>1 DEF OrderRecord, remaining_shares
    <3>3. /\ Filled(p, fill, price).sharesFilled = p.sharesFilled + fill
          /\ Filled(p, fill, price).collateralFilled = p.collateralFilled + leg_collateral(p, fill, price)
      BY <1>3, <1>7, <3>1, FilledAges
    <3> QED
      BY <3>1, <3>2, <3>3 DEF within_cap
  <2>3. {bid, ask} = {in, o}
    BY DEF BidOf, AskOf
  <2> HIDE DEF bid, ask
  <2> QED
    BY <2>1, <2>2, <2>3 DEF GoodFill
<1>11. ASSUME remaining_shares(o2) > 0, remaining_shares(in2) # 0
       PROVE  Hopeless(in2, o2)
  <2>1. remaining_shares(in2) > 0
    BY <1>4, <1>7, <1>8, <1>11
  <2>2. NoFill(Filled(bid, fill, price), Filled(ask, fill, price), price)
    <3>1. bid \in OrderRecord(names) /\ ask \in OrderRecord(names)
      BY <1>1 DEF BidOf, AskOf
    <3>2. remaining_shares(Filled(bid, fill, price)) > 0 /\ remaining_shares(Filled(ask, fill, price)) > 0
      BY <1>11, <2>1 DEF BidOf, AskOf
    <3>3. fill = max_fill(bid, ask, price, Least(remaining_shares(bid), remaining_shares(ask)))
      BY <1>4, <1>5
    <3> HIDE DEF bid, ask
    <3> QED
      BY <1>3, <1>5, <3>1, <3>2, <3>3, FillLeavesNothing
  <2>3. NoFill(in2, o2, price)
    <3> HIDE DEF in2, o2
    <3>1. CASE is_bid(in)
      BY <2>2, <3>1 DEF BidOf, AskOf, in2, o2
    <3>2. CASE ~is_bid(in)
      <4>1. NoFill(o2, in2, price)
        BY <2>2, <3>2 DEF BidOf, AskOf, in2, o2
      <4> QED
        BY <1>8, <4>1, NoFillSymmetric
    <3> QED
      BY <3>1, <3>2
  <2>4. execution_price(o2, in2) = price
    BY <1>8, TermsDecide DEF Aged, Traded
  <2> QED
    BY <2>3, <2>4 DEF Hopeless
<1>12. remaining_shares(o2) \in Nat
  BY <1>4, <1>7, <1>8
<1> QED
  BY <1>2, <1>6, <1>7, <1>8, <1>9, <1>10, <1>11, <1>12

-----------------------------------------------------------------------------
(* The walk. *)

\* The queue of an arriving order: orders with something left, those that cross
\* it first.
QueueOk(queue, in, names) ==
    /\ queue \in Seq(OrderRecord(names))
    /\ \A j \in 1 .. Len(queue) : remaining_shares(queue[j]) > 0
    /\ \A i, j \in 1 .. Len(queue) : i < j /\ CrossesWith(in, queue[j]) => CrossesWith(in, queue[i])

\* What is kept comes from the first k of the queue, in its order: src tells
\* from where.
Traced(kept, src, k, queue) ==
    /\ src \in Seq(Nat) /\ Len(src) = Len(kept)
    /\ \A i \in 1 .. Len(kept) : /\ src[i] \in 1 .. k
                                 /\ Aged(kept[i], queue[src[i]])
                                 /\ remaining_shares(kept[i]) > 0
    /\ \A i, j \in 1 .. Len(kept) : i < j => src[i] < src[j]

\* What is kept of the visited orders, and what is left of the arriving one,
\* can not be filled against each other; only a walk that stopped keeps orders
\* for not crossing.
Met(acc, k, in, queue) ==
    /\ ~acc.stopped => \A i \in 1 .. Len(acc.kept) :
           remaining_shares(acc.incoming) = 0 \/ Hopeless(acc.incoming, acc.kept[i])
    /\ acc.stopped => \E j \in 1 .. k : ~CrossesWith(in, queue[j])
    /\ \A i \in 1 .. Len(acc.kept) :
           \/ remaining_shares(acc.incoming) = 0
           \/ ~CrossesWith(acc.incoming, acc.kept[i])
           \/ Hopeless(acc.incoming, acc.kept[i])

\* The arriving order's state before a match, and the other order's.
Own(match, in) == IF is_bid(in) THEN match.bid ELSE match.ask
Other(match, in) == IF is_bid(in) THEN match.ask ELSE match.bid

\* Every match is good, and whatever was kept of the queue before the order it
\* took had nothing to offer at that time.
Prior(acc, src, k, in, queue) ==
    \A m \in 1 .. Len(acc.matches) :
        LET match == acc.matches[m]
        IN  /\ GoodFill(match)
            /\ SameTerms(Own(match, in), in)
            /\ \E j \in 1 .. k :
                   /\ SameTerms(Other(match, in), queue[j])
                   /\ \A i \in 1 .. Len(acc.kept) : src[i] < j => Hopeless(Own(match, in), acc.kept[i])

WalkInv(acc, src, k, in, queue, names) ==
    /\ acc \in Visiting(names)
    /\ Aged(acc.incoming, in)
    /\ Traced(acc.kept, src, k, queue)
    /\ Met(acc, k, in, queue)
    /\ Prior(acc, src, k, in, queue)

\* Appending leaves what was there where it was.
LEMMA AppendFacts ==
    ASSUME NEW S, NEW s \in Seq(S), NEW e \in S
    PROVE  /\ Append(s, e) \in Seq(S) /\ Len(Append(s, e)) = Len(s) + 1 /\ Len(s) \in Nat
           /\ \A i \in 1 .. Len(s) : Append(s, e)[i] = s[i]
           /\ Append(s, e)[Len(s) + 1] = e
           /\ \A i \in 1 .. Len(s) + 1 : i \in 1 .. Len(s) \/ i = Len(s) + 1
  OBVIOUS

\* An order that is kept is traced to the place visited.
LEMMA TraceGrows ==
    ASSUME NEW names, NEW kept \in Seq(OrderRecord(names)), NEW src, NEW k \in Nat, NEW queue,
           Traced(kept, src, k, queue)
    PROVE  /\ Traced(kept, src, k + 1, queue)
           /\ \A o \in OrderRecord(names) :
                  Aged(o, queue[k + 1]) /\ remaining_shares(o) > 0 =>
                      Traced(Append(kept, o), Append(src, k + 1), k + 1, queue)
<1>1. Traced(kept, src, k + 1, queue)
  BY DEF Traced
<1>2. ASSUME NEW o \in OrderRecord(names), Aged(o, queue[k + 1]), remaining_shares(o) > 0
      PROVE  Traced(Append(kept, o), Append(src, k + 1), k + 1, queue)
  <2> DEFINE kept2 == Append(kept, o)
             src2 == Append(src, k + 1)
             n == Len(kept)
  <2>1. src \in Seq(Nat) /\ Len(src) = n /\ k + 1 \in Nat
    BY DEF Traced
  <2>2. /\ n \in Nat /\ Len(kept2) = n + 1
        /\ \A i \in 1 .. n : kept2[i] = kept[i]
        /\ kept2[n + 1] = o
        /\ \A i \in 1 .. n + 1 : i \in 1 .. n \/ i = n + 1
    BY AppendFacts
  <2>3. /\ src2 \in Seq(Nat) /\ Len(src2) = n + 1
        /\ \A i \in 1 .. n : src2[i] = src[i]
        /\ src2[n + 1] = k + 1
    BY <2>1, AppendFacts
  <2>4. \A i \in 1 .. n : src[i] \in 1 .. k /\ Aged(kept[i], queue[src[i]]) /\ remaining_shares(kept[i]) > 0
    BY DEF Traced
  <2>5. \A i, j \in 1 .. n : i < j => src[i] < src[j]
    BY DEF Traced
  <2> HIDE DEF kept2, src2, n
  <2>6. \A i \in 1 .. n + 1 : /\ src2[i] \in 1 .. k + 1
                              /\ Aged(kept2[i], queue[src2[i]])
                              /\ remaining_shares(kept2[i]) > 0
    <3> TAKE i \in 1 .. n + 1
    <3>1. CASE i \in 1 .. n
      BY <2>2, <2>3, <2>4, <3>1
    <3>2. CASE i = n + 1
      BY <1>2, <2>2, <2>3, <3>2
    <3> QED
      BY <2>2, <3>1, <3>2
  <2>7. \A i, j \in 1 .. n + 1 : i < j => src2[i] < src2[j]
    <3> SUFFICES ASSUME NEW i \in 1 .. n + 1, NEW j \in 1 .. n + 1, i < j
                 PROVE  src2[i] < src2[j]
      OBVIOUS
    <3>1. i \in 1 .. n /\ src2[i] = src[i] /\ src[i] \in 1 .. k
      BY <2>2, <2>3, <2>4
    <3>2. CASE j \in 1 .. n
      BY <2>3, <2>5, <3>1, <3>2
    <3>3. CASE j = n + 1
      BY <2>3, <3>1, <3>3
    <3> QED
      BY <2>2, <3>2, <3>3
  <2>8. Traced(kept2, src2, k + 1, queue)
    BY <2>2, <2>3, <2>6, <2>7 DEF Traced
  <2> QED
    BY <2>8 DEF kept2, src2
<1> QED
  BY <1>1, <1>2

\* At the start nothing was visited.
LEMMA WalkStarts ==
    ASSUME NEW names, NEW in \in OrderRecord(names), NEW queue
    PROVE  WalkInv(Outset(in), <<>>, 0, in, queue, names)
<1>1. Outset(in) \in Visiting(names)
  BY DEF Outset, Visiting
<1>2. Aged(in, in)
  BY OrdersAreCapped
<1>3. /\ Outset(in).kept = <<>> /\ Outset(in).matches = <<>> /\ Outset(in).incoming = in /\ ~Outset(in).stopped
  BY DEF Outset
<1>4. Len(<<>>) = 0 /\ <<>> \in Seq(Nat) /\ 1 .. 0 = {}
  OBVIOUS
<1>5. Traced(Outset(in).kept, <<>>, 0, queue)
  BY <1>3, <1>4 DEF Traced
<1>6. Met(Outset(in), 0, in, queue) /\ Prior(Outset(in), <<>>, 0, in, queue)
  BY <1>3, <1>4 DEF Met, Prior
<1> QED
  BY <1>1, <1>2, <1>3, <1>5, <1>6 DEF WalkInv

\* A visit that leaves the arriving order and the matches alone, and keeps the
\* visited order.
LEMMA KeepVisit ==
    ASSUME NEW names, NEW in \in OrderRecord(names), NEW queue, QueueOk(queue, in, names),
           NEW k \in Nat, k < Len(queue), NEW acc, NEW src, WalkInv(acc, src, k, in, queue, names),
           NEW next \in Visiting(names),
           Passed(acc, next, queue[k + 1]) \/ Ended(acc, next, queue[k + 1])
    PROVE  WalkInv(next, Append(src, k + 1), k + 1, in, queue, names)
<1> DEFINE o == queue[k + 1]
           n == Len(acc.kept)
           src2 == Append(src, k + 1)
<1>1. /\ next.incoming = acc.incoming /\ next.matches = acc.matches /\ next.kept = Append(acc.kept, o)
  BY DEF Passed, Ended
<1>2. o \in OrderRecord(names) /\ remaining_shares(o) > 0 /\ k + 1 \in 1 .. Len(queue)
  BY DEF QueueOk
<1>3. acc \in Visiting(names) /\ Aged(acc.incoming, in) /\ Traced(acc.kept, src, k, queue)
      /\ Met(acc, k, in, queue) /\ Prior(acc, src, k, in, queue)
  BY DEF WalkInv
<1>4. acc.kept \in Seq(OrderRecord(names)) /\ acc.incoming \in OrderRecord(names)
  BY <1>3 DEF Visiting
<1>5. /\ n \in Nat /\ Len(next.kept) = n + 1
      /\ \A i \in 1 .. n : next.kept[i] = acc.kept[i]
      /\ next.kept[n + 1] = o
      /\ \A i \in 1 .. n + 1 : i \in 1 .. n \/ i = n + 1
  BY <1>1, <1>2, <1>4, AppendFacts
<1>6. src \in Seq(Nat) /\ Len(src) = n /\ \A i \in 1 .. n : src[i] \in 1 .. k
  BY <1>3 DEF Traced
<1>7. (\A i \in 1 .. n : src2[i] = src[i]) /\ src2[n + 1] = k + 1
  BY <1>6, AppendFacts
<1>8. Traced(next.kept, src2, k + 1, queue)
  <2>1. Aged(o, queue[k + 1])
    BY <1>2, OrdersAreCapped
  <2> QED
    BY <1>1, <1>2, <1>3, <1>4, <2>1, TraceGrows
<1>9. CrossesWith(acc.incoming, o) <=> CrossesWith(in, o)
  <2>1. SameTerms(o, o)
    BY DEF SameTerms
  <2> QED
    BY <1>3, <2>1, TermsDecide DEF Aged
<1>10. acc.stopped => ~CrossesWith(in, o)
  <2> SUFFICES ASSUME acc.stopped PROVE ~CrossesWith(in, o)
    OBVIOUS
  <2>1. PICK j \in 1 .. k : ~CrossesWith(in, queue[j])
    BY <1>3 DEF Met
  <2>2. j \in 1 .. Len(queue) /\ j < k + 1
    BY <1>2
  <2> QED
    BY <1>2, <2>1, <2>2 DEF QueueOk
<1> HIDE DEF o, n, src2
<1>11. Met(next, k + 1, in, queue)
  <2>1. ~next.stopped => \A i \in 1 .. n + 1 :
            remaining_shares(next.incoming) = 0 \/ Hopeless(next.incoming, next.kept[i])
    <3> SUFFICES ASSUME ~next.stopped, NEW i \in 1 .. n + 1
                 PROVE  remaining_shares(next.incoming) = 0 \/ Hopeless(next.incoming, next.kept[i])
      OBVIOUS
    <3>1. Passed(acc, next, o) /\ ~acc.stopped
      BY DEF Passed, Ended, o
    <3>2. CASE i \in 1 .. n
      BY <1>1, <1>3, <1>5, <3>1, <3>2 DEF Met, n
    <3>3. CASE i = n + 1
      BY <1>1, <1>5, <3>1, <3>3 DEF Passed
    <3> QED
      BY <1>5, <3>2, <3>3
  <2>2. next.stopped => \E j \in 1 .. k + 1 : ~CrossesWith(in, queue[j])
    <3>1. next.stopped => ~CrossesWith(in, o)
      BY <1>9, <1>10 DEF Passed, Ended, o
    <3>2. k + 1 \in 1 .. k + 1
      OBVIOUS
    <3> QED
      BY <3>1, <3>2 DEF o
  <2>3. \A i \in 1 .. n + 1 : \/ remaining_shares(next.incoming) = 0
                              \/ ~CrossesWith(next.incoming, next.kept[i])
                              \/ Hopeless(next.incoming, next.kept[i])
    <3> TAKE i \in 1 .. n + 1
    <3>1. CASE i \in 1 .. n
      BY <1>1, <1>3, <1>5, <3>1 DEF Met, n
    <3>2. CASE i = n + 1
      <4>1. \/ remaining_shares(acc.incoming) = 0 \/ Hopeless(acc.incoming, o) \/ ~CrossesWith(acc.incoming, o)
        BY <1>9, <1>10 DEF Passed, Ended, o
      <4> QED
        BY <1>1, <1>5, <3>2, <4>1
    <3> QED
      BY <1>5, <3>1, <3>2
  <2> QED
    BY <1>5, <2>1, <2>2, <2>3 DEF Met
<1>12. Prior(next, src2, k + 1, in, queue)
  <2> SUFFICES ASSUME NEW m \in 1 .. Len(next.matches)
               PROVE  LET match == next.matches[m]
                      IN  /\ GoodFill(match)
                          /\ SameTerms(Own(match, in), in)
                          /\ \E j \in 1 .. k + 1 :
                                 /\ SameTerms(Other(match, in), queue[j])
                                 /\ \A i \in 1 .. Len(next.kept) : src2[i] < j => Hopeless(Own(match, in), next.kept[i])
    BY DEF Prior
  <2> DEFINE match == next.matches[m]
  <2>1. GoodFill(match) /\ SameTerms(Own(match, in), in)
    BY <1>1, <1>3 DEF Prior
  <2>2. PICK j \in 1 .. k : /\ SameTerms(Other(match, in), queue[j])
                            /\ \A i \in 1 .. n : src[i] < j => Hopeless(Own(match, in), acc.kept[i])
    BY <1>1, <1>3 DEF Prior, n
  <2> HIDE DEF match
  <2>3. ASSUME NEW i \in 1 .. n + 1, src2[i] < j
        PROVE  Hopeless(Own(match, in), next.kept[i])
    <3>1. i \in 1 .. n
      BY <1>5, <1>7, <2>3
    <3> QED
      BY <1>5, <1>7, <2>2, <2>3, <3>1
  <2>4. j \in 1 .. k + 1
    OBVIOUS
  <2> QED
    BY <1>5, <2>1, <2>2, <2>3, <2>4 DEF match
<1> QED
  BY <1>1, <1>3, <1>8, <1>11, <1>12 DEF WalkInv, src2

\* A visit that trades.
LEMMA TradeVisit ==
    ASSUME NEW names, NEW in \in OrderRecord(names), NEW queue, QueueOk(queue, in, names),
           NEW k \in Nat, k < Len(queue), NEW acc, NEW src, WalkInv(acc, src, k, in, queue, names),
           NEW next, next = [stopped |-> next.stopped, incoming |-> next.incoming, kept |-> next.kept, matches |-> next.matches],
           next.stopped \in BOOLEAN,
           NEW fill, NEW price, Traded(acc, next, queue[k + 1], fill, price)
    PROVE  \E src2 : WalkInv(next, src2, k + 1, in, queue, names)
<1> DEFINE o == queue[k + 1]
           n == Len(acc.kept)
           own == acc.incoming
           own2 == Filled(own, fill, price)
           o2 == Filled(o, fill, price)
           last == [bid |-> BidOf(own, o), ask |-> AskOf(own, o), fillShares |-> fill, executionYesPrice |-> price]
           gone == remaining_shares(o2) = 0
           src2 == IF gone THEN src ELSE Append(src, k + 1)
<1>1. o \in OrderRecord(names) /\ remaining_shares(o) > 0 /\ k + 1 \in 1 .. Len(queue)
  BY DEF QueueOk
<1>2. acc \in Visiting(names) /\ Aged(own, in) /\ Traced(acc.kept, src, k, queue)
      /\ Met(acc, k, in, queue) /\ Prior(acc, src, k, in, queue)
  BY DEF WalkInv
<1>3. /\ acc.kept \in Seq(OrderRecord(names)) /\ own \in OrderRecord(names)
      /\ acc.matches \in Seq(MatchRecord(names)) /\ n \in Nat
  BY <1>2 DEF Visiting
<1>4. /\ own2 \in OrderRecord(names) /\ Aged(own2, own)
      /\ o2 \in OrderRecord(names) /\ Aged(o2, o) /\ remaining_shares(o2) \in Nat
      /\ last \in MatchRecord(names) /\ GoodFill(last)
      /\ remaining_shares(o2) > 0 => remaining_shares(own2) = 0 \/ Hopeless(own2, o2)
  BY <1>1, <1>2, TradeFacts
<1>5. /\ ~acc.stopped /\ ~next.stopped /\ remaining_shares(own) # 0
      /\ next.incoming = own2
      /\ next.kept = IF gone THEN acc.kept ELSE Append(acc.kept, o2)
      /\ next.matches = Append(acc.matches, last)
  BY DEF Traded
<1> HIDE DEF o, own, own2, o2, last
<1>6. Aged(own2, in) /\ SameTerms(own, in)
  BY <1>2, <1>3, <1>4, AgedTwice DEF Aged
<1>7. next \in Visiting(names)
  <2>1. next.kept \in Seq(OrderRecord(names)) /\ next.matches \in Seq(MatchRecord(names))
    BY <1>3, <1>4, <1>5, AppendFacts
  <2>2. next.incoming \in OrderRecord(names)
    BY <1>4, <1>5
  <2> QED
    BY <2>1, <2>2 DEF Visiting
<1>8. Traced(next.kept, src2, k + 1, queue)
  <2>1. CASE gone
    BY <1>2, <1>3, <1>5, <2>1, TraceGrows
  <2>2. CASE ~gone
    <3>1. remaining_shares(o2) > 0 /\ Aged(o2, queue[k + 1])
      BY <1>4, <2>2 DEF o
    <3> QED
      BY <1>2, <1>3, <1>4, <1>5, <2>2, <3>1, TraceGrows
  <2> QED
    BY <2>1, <2>2
<1>9. src \in Seq(Nat) /\ Len(src) = n /\ \A i \in 1 .. n : src[i] \in 1 .. k
  BY <1>2 DEF Traced
\* An order that is kept was kept before, or is the one traded with.
<1>10. ASSUME NEW i \in 1 .. Len(next.kept)
       PROVE  \/ i \in 1 .. n /\ next.kept[i] = acc.kept[i] /\ src2[i] = src[i]
              \/ ~gone /\ next.kept[i] = o2 /\ src2[i] = k + 1
  <2>1. CASE gone
    BY <1>5, <2>1
  <2>2. CASE ~gone
    <3>1. /\ Len(next.kept) = n + 1
          /\ \A h \in 1 .. n : next.kept[h] = acc.kept[h]
          /\ next.kept[n + 1] = o2
          /\ \A h \in 1 .. n + 1 : h \in 1 .. n \/ h = n + 1
      BY <1>3, <1>4, <1>5, <2>2, AppendFacts
    <3>2. (\A h \in 1 .. n : src2[h] = src[h]) /\ src2[n + 1] = k + 1
      BY <1>9, <2>2, AppendFacts
    <3> QED
      BY <2>2, <3>1, <3>2
  <2> QED
    BY <2>1, <2>2
<1>11. \A i \in 1 .. n : acc.kept[i] \in OrderRecord(names) /\ Hopeless(own, acc.kept[i])
  BY <1>2, <1>3, <1>5 DEF Met, own
<1> HIDE DEF n, gone, src2
<1>12. Met(next, k + 1, in, queue)
  <2>1. ASSUME NEW i \in 1 .. Len(next.kept)
        PROVE  remaining_shares(own2) = 0 \/ Hopeless(own2, next.kept[i])
    <3>1. CASE i \in 1 .. n /\ next.kept[i] = acc.kept[i]
      <4>1. Aged(acc.kept[i], acc.kept[i])
        BY <1>11, <3>1, OrdersAreCapped
      <4> QED
        BY <1>3, <1>4, <1>11, <3>1, <4>1, HopelessAges
    <3>2. CASE ~gone /\ next.kept[i] = o2
      <4>1. remaining_shares(o2) > 0
        BY <1>4, <3>2 DEF gone
      <4> QED
        BY <1>4, <3>2, <4>1
    <3> QED
      BY <1>10, <3>1, <3>2
  <2> QED
    BY <1>5, <2>1 DEF Met
<1>13. Prior(next, src2, k + 1, in, queue)
  <2> SUFFICES ASSUME NEW m \in 1 .. Len(next.matches)
               PROVE  LET match == next.matches[m]
                      IN  /\ GoodFill(match)
                          /\ SameTerms(Own(match, in), in)
                          /\ \E j \in 1 .. k + 1 :
                                 /\ SameTerms(Other(match, in), queue[j])
                                 /\ \A i \in 1 .. Len(next.kept) : src2[i] < j => Hopeless(Own(match, in), next.kept[i])
    BY DEF Prior
  <2> DEFINE match == next.matches[m]
             u == Len(acc.matches)
  <2>1. /\ u \in Nat /\ Len(next.matches) = u + 1
        /\ \A h \in 1 .. u : next.matches[h] = acc.matches[h]
        /\ next.matches[u + 1] = last
        /\ \A h \in 1 .. u + 1 : h \in 1 .. u \/ h = u + 1
    BY <1>3, <1>4, <1>5, AppendFacts
  <2>2. CASE m \in 1 .. u
    <3>1. match = acc.matches[m]
      BY <2>1, <2>2
    <3>2. GoodFill(match) /\ SameTerms(Own(match, in), in)
      BY <1>2, <2>2, <3>1 DEF Prior
    <3>3. PICK j \in 1 .. k : /\ SameTerms(Other(match, in), queue[j])
                              /\ \A i \in 1 .. n : src[i] < j => Hopeless(Own(match, in), acc.kept[i])
      BY <1>2, <2>2, <3>1 DEF Prior, n
    <3> HIDE DEF match
    <3>4. ASSUME NEW i \in 1 .. Len(next.kept), src2[i] < j
          PROVE  Hopeless(Own(match, in), next.kept[i])
      <4>1. ~(src2[i] = k + 1)
        BY <3>3, <3>4
      <4>2. i \in 1 .. n /\ next.kept[i] = acc.kept[i] /\ src2[i] = src[i]
        BY <1>10, <4>1
      <4> QED
        BY <3>3, <3>4, <4>2
    <3>5. j \in 1 .. k + 1
      OBVIOUS
    <3> QED
      BY <3>2, <3>3, <3>4, <3>5 DEF match
  <2>3. CASE m = u + 1
    <3>1. match = last
      BY <2>1, <2>3
    <3>2. is_bid(own) <=> is_bid(in)
      BY <1>6 DEF is_bid, SameTerms
    <3>3. Own(last, in) = own /\ Other(last, in) = o
      BY <3>2 DEF Own, Other, BidOf, AskOf, last
    <3>4. SameTerms(o, queue[k + 1])
      BY DEF SameTerms, o
    <3>5. ASSUME NEW i \in 1 .. Len(next.kept), src2[i] < k + 1
          PROVE  Hopeless(own, next.kept[i])
      <4>1. ~(src2[i] = k + 1)
        BY <3>5
      <4>2. i \in 1 .. n /\ next.kept[i] = acc.kept[i]
        BY <1>10, <4>1
      <4> QED
        BY <1>11, <4>2
    <3>6. k + 1 \in 1 .. k + 1
      OBVIOUS
    <3> HIDE DEF match
    <3> QED
      BY <1>4, <1>6, <3>1, <3>3, <3>4, <3>5, <3>6 DEF match
  <2> QED
    BY <2>1, <2>2, <2>3
<1>14. Aged(next.incoming, in)
  BY <1>5, <1>6
<1> QED
  BY <1>7, <1>8, <1>12, <1>13, <1>14 DEF WalkInv

\* A visit leaves a record of the same shape.
LEMMA VisitShape ==
    ASSUME NEW names, NEW acc \in Visiting(names), NEW o \in OrderRecord(names), NEW now
    PROVE  LET next == Visit(acc, o, now)
           IN  /\ next = [stopped |-> next.stopped, incoming |-> next.incoming,
                          kept |-> next.kept, matches |-> next.matches]
               /\ next.stopped \in BOOLEAN
<1> DEFINE Shaped(r) == \E s \in BOOLEAN : \E a, b, c :
                            r = [stopped |-> s, incoming |-> a, kept |-> b, matches |-> c]
           kept == [acc EXCEPT !.kept = Append(@, o)]
           ended == [kept EXCEPT !.stopped = TRUE]
           next == Visit(acc, o, now)
<1>1. ASSUME NEW r \in Visiting(names)
      PROVE  Shaped(r)
  <2> DEFINE s == r.stopped
             a == r.incoming
             b == r.kept
             c == r.matches
  <2>1. s \in BOOLEAN /\ r = [stopped |-> s, incoming |-> a, kept |-> b, matches |-> c]
    BY DEF Visiting
  <2> HIDE DEF s, a, b, c
  <2> QED
    BY <2>1, Zenon
<1>2. ASSUME NEW r \in Visiting(names), NEW s \in BOOLEAN, NEW b \in Seq(OrderRecord(names))
      PROVE  [r EXCEPT !.stopped = s] \in Visiting(names) /\ [r EXCEPT !.kept = b] \in Visiting(names)
  BY Zenon DEF Visiting
<1>3. Append(acc.kept, o) \in Seq(OrderRecord(names))
  BY DEF Visiting
<1>4. kept \in Visiting(names)
  BY <1>2, <1>3, Zenon
<1>5. ended \in Visiting(names)
  <2> HIDE DEF kept
  <2>1. \A s \in BOOLEAN : [kept EXCEPT !.stopped = s] \in Visiting(names)
    BY <1>2, <1>3, <1>4, Zenon
  <2>2. TRUE \in BOOLEAN
    OBVIOUS
  <2> QED
    BY <2>1, <2>2, Zenon
<1>6. Shaped(acc) /\ Shaped(kept) /\ Shaped(ended)
  <2> HIDE DEF Shaped, kept, ended
  <2> QED
    BY <1>1, <1>4, <1>5
<1>7. \A a, b, c : Shaped([stopped |-> FALSE, incoming |-> a, kept |-> b, matches |-> c])
  OBVIOUS
<1>8. Shaped(next)
  <2> HIDE DEF Shaped
  <2> QED
    BY <1>6, <1>7 DEF Visit, kept, ended
<1>9. PICK s \in BOOLEAN : \E a, b, c : next = [stopped |-> s, incoming |-> a, kept |-> b, matches |-> c]
  BY <1>8
<1>10. PICK a, b, c : next = [stopped |-> s, incoming |-> a, kept |-> b, matches |-> c]
  BY <1>9
<1> HIDE DEF next
<1>11. next.stopped = s /\ next.incoming = a /\ next.kept = b /\ next.matches = c
  BY <1>10
<1>12. next = [stopped |-> next.stopped, incoming |-> next.incoming, kept |-> next.kept, matches |-> next.matches]
       /\ next.stopped \in BOOLEAN
  BY <1>10, <1>11
<1> QED
  BY <1>12 DEF next

\* At every point of the walk.
LEMMA WalkTraced ==
    ASSUME NEW names, NEW in \in OrderRecord(names), NEW queue, QueueOk(queue, in, names), NEW now
    PROVE  \A k \in 0 .. Len(queue) : \E src : WalkInv(Walk(in, queue, now)[k], src, k, in, queue, names)
<1> DEFINE w == Walk(in, queue, now)
           T == {k \in Nat : k <= Len(queue) => \E src : WalkInv(w[k], src, k, in, queue, names)}
<1>1. Len(queue) \in Nat /\ \A j \in 1 .. Len(queue) : queue[j] \in OrderRecord(names)
  BY DEF QueueOk
<1>2. w[0] = Outset(in) /\ \A k \in 1 .. Len(queue) : w[k] = Visit(w[k - 1], queue[k], now)
  BY <1>1, WalkSteps
<1> HIDE DEF w
<1>3. 0 \in T
  BY <1>2, WalkStarts
<1>4. ASSUME NEW k \in T PROVE k + 1 \in T
  <2>1. k \in Nat
    OBVIOUS
  <2> SUFFICES ASSUME k + 1 <= Len(queue)
               PROVE  \E src : WalkInv(w[k + 1], src, k + 1, in, queue, names)
    BY <2>1
  <2>2. k < Len(queue) /\ k + 1 \in 1 .. Len(queue) /\ (k + 1) - 1 = k
    BY <1>1, <2>1
  <2>3. PICK src : WalkInv(w[k], src, k, in, queue, names)
    BY <2>1, <2>2
  <2> DEFINE acc == w[k]
             next == w[k + 1]
             o == queue[k + 1]
  <2>4. next = Visit(acc, o, now) /\ o \in OrderRecord(names)
    BY <1>1, <1>2, <2>2
  <2>5. acc \in Visiting(names)
    BY <2>3 DEF WalkInv
  <2> HIDE DEF T, acc, next
  <2>6. /\ next = [stopped |-> next.stopped, incoming |-> next.incoming,
                   kept |-> next.kept, matches |-> next.matches]
        /\ next.stopped \in BOOLEAN
    BY <2>4, <2>5, VisitShape
  <2>7. CASE next = acc
    <3>1. acc.kept \in Seq(OrderRecord(names)) /\ Traced(acc.kept, src, k, queue)
      BY <2>3, <2>5 DEF WalkInv, Visiting, acc
    <3>2. Traced(acc.kept, src, k + 1, queue)
      BY <2>1, <3>1, TraceGrows
    <3>3. 1 .. k \subseteq 1 .. k + 1
      BY <2>1
    <3>4. Met(acc, k + 1, in, queue)
      BY <2>3, <3>3 DEF Met, WalkInv, acc
    <3>5. Prior(acc, src, k + 1, in, queue)
      <4>1. Prior(acc, src, k, in, queue)
        BY <2>3 DEF WalkInv, acc
      <4> QED
        BY <3>3, <4>1, Zenon DEF Prior
    <3>6. WalkInv(acc, src, k + 1, in, queue, names)
      BY <2>3, <3>2, <3>4, <3>5 DEF WalkInv, acc
    <3> QED
      BY <2>7, <3>6 DEF next
  <2>8. CASE Passed(acc, next, o) \/ Ended(acc, next, o)
    <3>1. next.kept = Append(acc.kept, o) /\ next.incoming = acc.incoming /\ next.matches = acc.matches
      BY <2>8 DEF Passed, Ended
    <3>2. /\ acc.kept \in Seq(OrderRecord(names)) /\ acc.incoming \in OrderRecord(names)
          /\ acc.matches \in Seq(MatchRecord(names))
      BY <2>5 DEF Visiting
    <3>3. next.kept \in Seq(OrderRecord(names))
      BY <2>4, <3>1, <3>2, AppendFacts
    <3>4. next \in Visiting(names)
      BY <2>6, <3>1, <3>2, <3>3 DEF Visiting
    <3>5. WalkInv(acc, src, k, in, queue, names)
      BY <2>3 DEF acc
    <3>6. WalkInv(next, Append(src, k + 1), k + 1, in, queue, names)
      BY <2>1, <2>2, <2>8, <3>4, <3>5, KeepVisit
    <3> QED
      BY <3>6 DEF next
  <2>9. CASE \E fill, price : Traded(acc, next, o, fill, price)
    <3>1. PICK fill, price : Traded(acc, next, o, fill, price)
      BY <2>9
    <3>2. WalkInv(acc, src, k, in, queue, names)
      BY <2>3 DEF acc
    <3>3. \E src2 : WalkInv(next, src2, k + 1, in, queue, names)
      BY <2>1, <2>2, <2>6, <3>1, <3>2, TradeVisit
    <3> QED
      BY <3>3 DEF next
  <2> QED
    BY <2>4, <2>5, <2>7, <2>8, <2>9, VisitOutcome
<1>5. T = Nat
  <2>1. T \subseteq Nat
    OBVIOUS
  <2> HIDE DEF T
  <2> QED
    BY <1>3, <1>4, <2>1, NatSetInduction
<1>6. \A k \in 0 .. Len(queue) : k \in T /\ k <= Len(queue)
  BY <1>1, <1>5
<1> QED
  BY <1>6 DEF w

-----------------------------------------------------------------------------
(* What add and remove make of a book. *)

\* The sides of a book hold orders that have something left.
SideOk(s, names) ==
    /\ s \in Seq(OrderRecord(names))
    /\ \A i \in 1 .. Len(s) : remaining_shares(s[i]) > 0

BookOk(book, names) ==
    /\ book = [bids |-> book.bids, asks |-> book.asks]
    /\ SideOk(book.bids, names) /\ SideOk(book.asks, names)

\* The side an arriving order is matched against, and the one it rests on.
Facing(book, in) == IF is_bid(in) THEN book.asks ELSE book.bids
Beside(book, in) == IF is_bid(in) THEN book.bids ELSE book.asks

\* kept is what is left of side: place tells where an order was.  Equal prices
\* keep their order.
Left(kept, place, side) ==
    /\ \A i \in 1 .. Len(kept) : /\ place[i] \in 1 .. Len(side)
                                 /\ Aged(kept[i], side[place[i]])
    /\ \A i, j \in 1 .. Len(kept) :
           i < j => /\ place[i] # place[j]
                    /\ kept[i].limitYesPrice = kept[j].limitYesPrice => place[i] < place[j]

\* What is left of a side from which an order was taken out.
From(kept, side) == \A i \in 1 .. Len(kept) : \E j \in 1 .. Len(side) : kept[i] = side[j]

\* A match is good, and what is left of the orders before the one it took had
\* nothing to offer.
InTurn(match, kept, place, side, in) ==
    /\ GoodFill(match)
    /\ SameTerms(Own(match, in), in)
    /\ \E h \in 1 .. Len(side) :
           /\ SameTerms(Other(match, in), side[h])
           /\ \A i \in 1 .. Len(kept) : Better(side, is_bid(in), place[i], h) => Hopeless(Own(match, in), kept[i])

Matched(book, in, own, place, result, names) ==
    LET kept == Facing(result.book, in)
    IN  /\ own \in OrderRecord(names) /\ Aged(own, in)
        /\ BookOk(result.book, names)
        /\ Left(kept, place, Facing(book, in))
        /\ Beside(result.book, in) = IF remaining_shares(own) > 0 THEN Append(Beside(book, in), own)
                                     ELSE Beside(book, in)
        /\ \A i \in 1 .. Len(kept) : \/ remaining_shares(own) = 0
                                     \/ ~CrossesWith(own, kept[i])
                                     \/ Hopeless(own, kept[i])
        /\ result.matches \in Seq(MatchRecord(names))
        /\ \A m \in 1 .. Len(result.matches) :
               InTurn(result.matches[m], kept, place, Facing(book, in), in)

\* Adding an order matches it in price-time priority, keeps what is left of the
\* other side and rests the remainder; a late or empty order changes nothing.
LEMMA AddOutcome ==
    ASSUME NEW names, NEW book, BookOk(book, names), NEW in \in OrderRecord(names), NEW now
    PROVE  LET result == add(book, in, now)
           IN  \/ result = [book |-> book, matches |-> <<>>]
               \/ \E own, place : Matched(book, in, own, place, result, names)
<1> DEFINE asAsks == is_bid(in)
           opposite == Facing(book, in)
           same == Beside(book, in)
           queue == BestFirst(opposite, asAsks)
           n == Len(opposite)
           end == Walk(in, queue, now)[n]
           own == end.incoming
           rested == IF remaining_shares(own) > 0 THEN Append(same, own) ELSE same
           result == add(book, in, now)
<1>1. SideOk(opposite, names) /\ SideOk(same, names) /\ asAsks \in BOOLEAN
  BY DEF BookOk, Facing, Beside, is_bid
<1>2. opposite \in Seq(OrderRecord(names)) /\ n \in Nat /\ same \in Seq(OrderRecord(names))
  BY <1>1 DEF SideOk
<1>3. result = IF Expired(in, now) \/ remaining_shares(in) = 0
               THEN [book |-> book, matches |-> <<>>]
               ELSE [book |-> IF asAsks THEN [bids |-> rested, asks |-> end.kept]
                              ELSE [bids |-> end.kept, asks |-> rested],
                     matches |-> end.matches]
  BY DEF add, Facing, Beside
<1>4. /\ queue \in Seq(OrderRecord(names)) /\ Len(queue) = n
      /\ \E at \in [1 .. n -> 1 .. n] :
             /\ \A k \in 1 .. n : queue[k] = opposite[at[k]]
             /\ \A k, l \in 1 .. n : k < l => Better(opposite, asAsks, at[k], at[l])
  BY <1>1, <1>2, BestFirstSorts, ZenonT(60)
<1>5. PICK at \in [1 .. n -> 1 .. n] :
             /\ \A k \in 1 .. n : queue[k] = opposite[at[k]]
             /\ \A k, l \in 1 .. n : k < l => Better(opposite, asAsks, at[k], at[l])
  BY <1>4
<1> HIDE DEF queue, end, opposite, same, result
<1>6. \A i \in 1 .. n : /\ opposite[i] \in OrderRecord(names)
                        /\ opposite[i].limitYesPrice \in Int /\ remaining_shares(opposite[i]) > 0
  <2>1. \A o \in OrderRecord(names) : o.limitYesPrice \in Int
    BY MatchingAssumption DEF OrderRecord
  <2> QED
    BY <1>1, <1>2, <2>1 DEF SideOk
<1>7. in.limitYesPrice \in Int
  BY MatchingAssumption DEF OrderRecord
<1>8. QueueOk(queue, in, names)
  <2>1. \A j \in 1 .. n : remaining_shares(queue[j]) > 0
    BY <1>5, <1>6
  <2>2. ASSUME NEW i \in 1 .. n, NEW j \in 1 .. n, i < j, CrossesWith(in, queue[j])
        PROVE  CrossesWith(in, queue[i])
    <3>1. Better(opposite, asAsks, at[i], at[j]) /\ at[i] \in 1 .. n /\ at[j] \in 1 .. n
      BY <1>5, <2>2
    <3>2. queue[i] = opposite[at[i]] /\ queue[j] = opposite[at[j]]
      BY <1>5
    <3>3. queue[i].limitYesPrice \in Int /\ queue[j].limitYesPrice \in Int
      BY <1>6, <3>1, <3>2
    <3> QED
      BY <1>7, <2>2, <3>1, <3>2, <3>3 DEF Better, CrossesWith, crosses
  <2> QED
    BY <1>4, <2>1, <2>2 DEF QueueOk
<1>9. PICK src : WalkInv(end, src, n, in, queue, names)
  <2>1. \E src : WalkInv(Walk(in, queue, now)[n], src, n, in, queue, names)
    <3>1. n \in 0 .. Len(queue)
      BY <1>2, <1>4
    <3> QED
      BY <1>8, <3>1, WalkTraced
  <2> QED
    BY <2>1 DEF end
<1>10. CASE Expired(in, now) \/ remaining_shares(in) = 0
  BY <1>3, <1>10 DEF result
<1>11. CASE ~(Expired(in, now) \/ remaining_shares(in) = 0)
  <2> DEFINE kept == end.kept
             place == [i \in 1 .. Len(kept) |-> at[src[i]]]
  <2>1. /\ end \in Visiting(names) /\ Aged(own, in) /\ Traced(kept, src, n, queue)
        /\ Met(end, n, in, queue) /\ Prior(end, src, n, in, queue)
    BY <1>9 DEF WalkInv
  <2>2. own \in OrderRecord(names) /\ kept \in Seq(OrderRecord(names)) /\ end.matches \in Seq(MatchRecord(names))
    BY <2>1 DEF Visiting
  <2>3. result = [book |-> IF asAsks THEN [bids |-> rested, asks |-> kept]
                           ELSE [bids |-> kept, asks |-> rested],
                  matches |-> end.matches]
    BY <1>3, <1>11
  <2> HIDE DEF own, rested, asAsks
  <2>4. /\ Facing(result.book, in) = kept /\ Beside(result.book, in) = rested
        /\ result.matches = end.matches
        /\ result.book = [bids |-> result.book.bids, asks |-> result.book.asks]
        /\ {result.book.bids, result.book.asks} = {kept, rested}
    BY <2>3 DEF Facing, Beside, asAsks
  <2> HIDE DEF kept, n
  <2>5. \A i \in 1 .. Len(kept) : /\ src[i] \in 1 .. n /\ place[i] = at[src[i]] /\ place[i] \in 1 .. n
                                  /\ Aged(kept[i], opposite[place[i]])
                                  /\ remaining_shares(kept[i]) > 0
    BY <1>5, <2>1 DEF Traced
  <2>6. \A i, j \in 1 .. Len(kept) : i < j => src[i] < src[j]
    BY <2>1 DEF Traced
  <2> HIDE DEF place
  <2>7. Left(kept, place, opposite)
    <3>1. ASSUME NEW i \in 1 .. Len(kept), NEW j \in 1 .. Len(kept), i < j
          PROVE  /\ place[i] # place[j]
                 /\ kept[i].limitYesPrice = kept[j].limitYesPrice => place[i] < place[j]
      <4>1. Better(opposite, asAsks, place[i], place[j])
        BY <1>5, <2>5, <2>6, <3>1
      <4>2. /\ kept[i].limitYesPrice = opposite[place[i]].limitYesPrice
            /\ kept[j].limitYesPrice = opposite[place[j]].limitYesPrice
        BY <2>5 DEF Aged, SameTerms
      <4>3. place[i] \in 1 .. n /\ place[j] \in 1 .. n
        BY <2>5
      <4> QED
        BY <4>1, <4>2, <4>3 DEF Better
    <3> QED
      BY <2>5, <3>1 DEF Left, n
  <2>8. SideOk(kept, names)
    BY <2>2, <2>5 DEF SideOk
  <2>9. SideOk(rested, names)
    <3>1. CASE ~(remaining_shares(own) > 0)
      BY <1>1, <3>1 DEF rested
    <3>2. CASE remaining_shares(own) > 0
      <4>1. rested = Append(same, own)
        BY <3>2 DEF rested
      <4>2. /\ rested \in Seq(OrderRecord(names)) /\ Len(rested) = Len(same) + 1
            /\ \A i \in 1 .. Len(same) : rested[i] = same[i]
            /\ rested[Len(same) + 1] = own
            /\ \A i \in 1 .. Len(same) + 1 : i \in 1 .. Len(same) \/ i = Len(same) + 1
        BY <1>2, <2>2, <4>1, AppendFacts
      <4>3. \A i \in 1 .. Len(same) : remaining_shares(same[i]) > 0
        BY <1>1 DEF SideOk
      <4>4. ASSUME NEW i \in 1 .. Len(rested) PROVE remaining_shares(rested[i]) > 0
        <5>1. CASE i \in 1 .. Len(same)
          BY <4>2, <4>3, <5>1
        <5>2. CASE i = Len(same) + 1
          BY <3>2, <4>2, <5>2
        <5> QED
          BY <4>2, <5>1, <5>2
      <4> QED
        BY <4>2, <4>4 DEF SideOk
    <3> QED
      BY <3>1, <3>2
  <2>10. BookOk(result.book, names)
    <3>1. SideOk(result.book.bids, names) /\ SideOk(result.book.asks, names)
      BY <2>4, <2>8, <2>9
    <3> QED
      BY <2>4, <3>1 DEF BookOk
  <2>11. \A i \in 1 .. Len(kept) : \/ remaining_shares(own) = 0
                                   \/ ~CrossesWith(own, kept[i])
                                   \/ Hopeless(own, kept[i])
    BY <2>1 DEF Met, kept, own
  <2>12. ASSUME NEW m \in 1 .. Len(result.matches)
         PROVE  InTurn(result.matches[m], kept, place, opposite, in)
    <3> DEFINE match == result.matches[m]
    <3>1. match = end.matches[m] /\ m \in 1 .. Len(end.matches)
      BY <2>4
    <3>2. GoodFill(match) /\ SameTerms(Own(match, in), in)
      BY <2>1, <3>1 DEF Prior
    <3>3. PICK j \in 1 .. n : /\ SameTerms(Other(match, in), queue[j])
                              /\ \A i \in 1 .. Len(kept) : src[i] < j => Hopeless(Own(match, in), kept[i])
      BY <2>1, <3>1 DEF Prior, kept
    <3> HIDE DEF match
    <3>4. at[j] \in 1 .. n /\ SameTerms(Other(match, in), opposite[at[j]])
      BY <1>5, <3>3
    <3>5. ASSUME NEW i \in 1 .. Len(kept), Better(opposite, asAsks, place[i], at[j])
          PROVE  src[i] < j
      <4>1. /\ opposite[place[i]].limitYesPrice \in Int /\ opposite[at[j]].limitYesPrice \in Int
            /\ place[i] \in Int /\ at[j] \in Int
        BY <1>6, <2>5, <3>4 DEF n
      <4>2. ~Better(opposite, asAsks, at[j], place[i]) /\ place[i] # at[j]
        BY <3>5, <4>1 DEF Better
      <4>3. ~(j < src[i]) /\ src[i] # j
        BY <1>5, <2>5, <4>2
      <4> QED
        BY <2>5, <4>3
    <3>6. \A i \in 1 .. Len(kept) : Better(opposite, is_bid(in), place[i], at[j]) => Hopeless(Own(match, in), kept[i])
      BY <3>3, <3>5 DEF asAsks
    <3> QED
      BY <3>2, <3>4, <3>6 DEF InTurn, match, n
  <2>13. Matched(book, in, own, place, result, names)
    BY <2>1, <2>2, <2>4, <2>7, <2>10, <2>11, <2>12 DEF Matched, opposite, rested, same
  <2> QED
    BY <2>13 DEF result
<1> QED
  BY <1>10, <1>11

LEMMA LeastOne ==
    ASSUME NEW S, S \subseteq Nat, S # {}
    PROVE  \E x \in S : \A y \in S : x =< y
<1>1. PICK x \in S : \A y \in S : ~ (<<y, x>> \in OpToRel(<, Nat))
  BY NatLessThanWellFounded, WFMin
<1>2. ASSUME NEW y \in S PROVE x =< y
  <2>1. CASE y < x
    <3>1. <<y, x>> \in Nat \X Nat /\ <<y, x>>[1] < <<y, x>>[2]
      BY <2>1
    <3>2. <<y, x>> \in OpToRel(<, Nat)
      BY <3>1 DEF OpToRel
    <3> QED
      BY <1>1, <3>2
  <2>2. CASE ~(y < x)
    <3>1. x \in Nat /\ y \in Nat
      OBVIOUS
    <3> QED
      BY <2>2, <3>1
  <2> QED
    BY <2>1, <2>2
<1> QED
  BY <1>2

\* A sequence without the element at a place.
LEMMA RemoveAtFacts ==
    ASSUME NEW S, NEW s \in Seq(S), NEW h \in 1 .. Len(s)
    PROVE  /\ RemoveAt(s, h) \in Seq(S) /\ Len(RemoveAt(s, h)) = Len(s) - 1
           /\ \A i \in 1 .. Len(s) - 1 : RemoveAt(s, h)[i] = s[IF i < h THEN i ELSE i + 1]
<1> DEFINE n == Len(s)
           front == SubSeq(s, 1, h - 1)
           back == SubSeq(s, h + 1, n)
           r == front \o back
<1>1. n \in Nat /\ h \in Nat /\ 1 <= h /\ h <= n
  OBVIOUS
<1>2. front \in Seq(S) /\ Len(front) = h - 1 /\ \A i \in 1 .. h - 1 : front[i] = s[i]
  <2>1. \A i \in 1 .. h - 1 : s[i] \in S
    BY <1>1
  <2> QED
    BY <1>1, <2>1
<1>3. back \in Seq(S) /\ Len(back) = n - h /\ \A i \in 1 .. n - h : back[i] = s[h + i]
  <2>1. \A i \in h + 1 .. n : s[i] \in S
    BY <1>1
  <2> QED
    BY <1>1, <2>1
<1> HIDE DEF front, back
<1>4. r \in Seq(S) /\ Len(r) = n - 1
  <2>1. r \in Seq(S) /\ Len(r) = Len(front) + Len(back)
    BY <1>2, <1>3
  <2> HIDE DEF r
  <2> QED
    BY <1>1, <1>2, <1>3, <2>1
<1>5. ASSUME NEW i \in 1 .. n - 1
      PROVE  r[i] = s[IF i < h THEN i ELSE i + 1]
  <2>1. CASE i < h
    BY <1>1, <1>2, <1>3, <2>1
  <2>2. CASE ~(i < h)
    <3>1. r[i] = back[i - Len(front)] /\ i - Len(front) \in 1 .. n - h
      BY <1>1, <1>2, <1>3, <2>2
    <3>2. back[i - Len(front)] = s[h + (i - (h - 1))] /\ h + (i - (h - 1)) = i + 1
      BY <1>1, <1>2, <1>3, <3>1
    <3> QED
      BY <2>2, <3>1, <3>2
  <2> QED
    BY <2>1, <2>2
<1> QED
  BY <1>4, <1>5 DEF RemoveAt, front, back

\* All of a side is left of it.
LEMMA LeftAll ==
    ASSUME NEW names, NEW s, SideOk(s, names)
    PROVE  \E place : Left(s, place, s)
<1> DEFINE place == [i \in 1 .. Len(s) |-> i]
<1>1. Len(s) \in Nat /\ \A i \in 1 .. Len(s) : s[i] \in OrderRecord(names)
  BY DEF SideOk
<1>2. \A i \in 1 .. Len(s) : place[i] = i /\ Aged(s[i], s[i])
  BY <1>1, OrdersAreCapped
<1> HIDE DEF place
<1>3. Left(s, place, s)
  BY <1>1, <1>2 DEF Left
<1> QED
  BY <1>3

\* Removing an order leaves the others in their order.
LEMMA RemoveOutcome ==
    ASSUME NEW names, NEW book, BookOk(book, names), NEW txId
    PROVE  LET new == remove(book, txId)
           IN  /\ BookOk(new, names)
               /\ \E place : Left(new.bids, place, book.bids)
               /\ \E place : Left(new.asks, place, book.asks)
               /\ From(new.bids, book.bids) /\ From(new.asks, book.asks)
<1> DEFINE without(side) == IF \E i \in 1 .. Len(side) : side[i].txId = txId
                            THEN RemoveAt(side, SelectInSeq(side, LAMBDA o : o.txId = txId))
                            ELSE side
           new == remove(book, txId)
<1>1. new = IF without(book.bids) # book.bids THEN [book EXCEPT !.bids = without(book.bids)]
            ELSE [book EXCEPT !.asks = without(book.asks)]
  BY DEF remove, RemoveFirstMatch
<1>2. \A s : SideOk(s, names) => From(s, s) /\ \E place : Left(s, place, s)
  BY LeftAll DEF From
<1>3. ASSUME NEW s, SideOk(s, names)
      PROVE  /\ SideOk(without(s), names) /\ From(without(s), s)
             /\ \E place : Left(without(s), place, s)
  <2>1. CASE ~ \E i \in 1 .. Len(s) : s[i].txId = txId
    BY <1>2, <1>3, <2>1
  <2>2. CASE \E i \in 1 .. Len(s) : s[i].txId = txId
    <3> DEFINE n == Len(s)
               those == {i \in 1 .. n : s[i].txId = txId}
               h == SelectInSeq(s, LAMBDA o : o.txId = txId)
               r == RemoveAt(s, h)
               place == [i \in 1 .. n - 1 |-> IF i < h THEN i ELSE i + 1]
    <3>1. s \in Seq(OrderRecord(names)) /\ n \in Nat
      BY <1>3 DEF SideOk
    <3>2. h \in 1 .. n
      <4>1. h = CHOOSE x \in those : \A y \in those : x =< y
        BY <2>2 DEF SelectInSeq, Min
      <4>2. \E x \in those : \A y \in those : x =< y
        <5>1. those # {} /\ those \in SUBSET Nat
          BY <2>2, <3>1
        <5> HIDE DEF those
        <5> QED
          BY <5>1, LeastOne
      <4> QED
        BY <4>1, <4>2
    <3> HIDE DEF h
    <3>3. /\ r \in Seq(OrderRecord(names)) /\ Len(r) = n - 1
          /\ \A i \in 1 .. n - 1 : r[i] = s[IF i < h THEN i ELSE i + 1]
      BY <3>1, <3>2, RemoveAtFacts
    <3> HIDE DEF r
    <3>4. \A i \in 1 .. n - 1 : place[i] = (IF i < h THEN i ELSE i + 1) /\ place[i] \in 1 .. n /\ r[i] = s[place[i]]
      BY <3>1, <3>2, <3>3
    <3>5. \A i, j \in 1 .. n - 1 : i < j => place[i] < place[j]
      BY <3>1, <3>2, <3>4
    <3> HIDE DEF place, n
    <3>6. \A i \in 1 .. n : s[i] \in OrderRecord(names) /\ remaining_shares(s[i]) > 0
      BY <1>3 DEF SideOk, n
    <3>7. SideOk(r, names)
      BY <3>3, <3>4, <3>6 DEF SideOk
    <3>8. Left(r, place, s)
      <4>1. \A i \in 1 .. n - 1 : Aged(r[i], s[place[i]])
        BY <3>4, <3>6, OrdersAreCapped
      <4>2. \A i, j \in 1 .. n - 1 : i < j => place[i] # place[j] /\ place[i] < place[j]
        BY <3>2, <3>4, <3>5
      <4> QED
        BY <3>3, <3>4, <4>1, <4>2 DEF Left, n
    <3>9. From(r, s)
      BY <3>3, <3>4 DEF From, n
    <3>10. without(s) = r
      BY <2>2 DEF r, h
    <3> QED
      BY <3>7, <3>8, <3>9, <3>10
  <2> QED
    BY <2>1, <2>2
<1> HIDE DEF without
<1>4. book = [bids |-> book.bids, asks |-> book.asks] /\ SideOk(book.bids, names) /\ SideOk(book.asks, names)
  BY DEF BookOk
<1>5. CASE new.bids = without(book.bids) /\ new.asks = book.asks /\ new = [bids |-> new.bids, asks |-> new.asks]
  BY <1>2, <1>3, <1>4, <1>5 DEF BookOk
<1>6. CASE new.bids = book.bids /\ new.asks = without(book.asks) /\ new = [bids |-> new.bids, asks |-> new.asks]
  BY <1>2, <1>3, <1>4, <1>6 DEF BookOk
<1>7. \/ new.bids = without(book.bids) /\ new.asks = book.asks /\ new = [bids |-> new.bids, asks |-> new.asks]
      \/ new.bids = book.bids /\ new.asks = without(book.asks) /\ new = [bids |-> new.bids, asks |-> new.asks]
  <2>1. \A a, b, c : /\ [[bids |-> a, asks |-> b] EXCEPT !.bids = c] = [bids |-> c, asks |-> b]
                     /\ [[bids |-> a, asks |-> b] EXCEPT !.asks = c] = [bids |-> a, asks |-> c]
    OBVIOUS
  <2>2. new = [bids |-> without(book.bids), asks |-> book.asks] \/ new = [bids |-> book.bids, asks |-> without(book.asks)]
    BY <1>1, <1>4, <2>1
  <2> HIDE DEF new
  <2> QED
    BY <2>2
<1> QED
  BY <1>5, <1>6, <1>7
=============================================================================
