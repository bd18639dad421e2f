----------------------------- MODULE ClobProofs -----------------------------
(***************************************************************************)
(* Two parts of the CLOB beside its books: max_fill, which returns the     *)
(* largest fill both orders and the contract admit, for every price scale, *)
(* every pair of orders and every upper bound; and the book across         *)
(* restarts (BookRebuild), for any orders and any number of crashes,       *)
(* rebuilds, lost messages and cancellations.                              *)
(***************************************************************************)
EXTENDS MaxFill, BookRebuild, MatchingProofs

-----------------------------------------------------------------------------
(* The loop. *)

\* The argument of the loop: the type of its variables, the search
\* invariant, and what is known at the end.
EnterInv == pc = "enter" => result = None
LoopInv == SearchTypeOK /\ EnterInv /\ SearchInvariant /\ ResultIsLargest

\* The loop invariant holds at the call.
LEMMA LoopInit == SearchInit => LoopInv
<1> SUFFICES ASSUME SearchInit PROVE LoopInv
  OBVIOUS
<1>1. SearchTypeOK
  BY MaxFillAssumption, MatchingAssumption DEF SearchInit, SearchTypeOK, None
<1> QED
  BY <1>1 DEF SearchInit, LoopInv, EnterInv, SearchInvariant, ResultIsLargest

\* Entering the loop establishes its invariant.
LEMMA EnterStep ==
    ASSUME LoopInv, Enter
    PROVE  LoopInv'
<1> USE DEF LoopInv
<1>1. SearchTypeOK'
  BY DEF SearchTypeOK, Enter, args
<1>2. args' = args /\ result' = result
  BY DEF Enter
<1>3. CASE upper = 0 \/ price = 0 \/ price >= PRICE_SCALE
  <2>1. pc' = "done"
    BY <1>3 DEF Enter
  <2>2. \A fill \in 1 .. upper : ~split_collateral(fill, price)
    BY <1>3, MatchingAssumption DEF split_collateral, SearchTypeOK
  <2>3. result = None
    BY DEF EnterInv, Enter
  <2> QED
    BY <1>1, <1>2, <2>1, <2>2, <2>3 DEF EnterInv, SearchInvariant, ResultIsLargest, Admissible, args
<1>4. CASE ~(upper = 0 \/ price = 0 \/ price >= PRICE_SCALE)
  <2>1. pc' = "search" /\ hi' = upper /\ lo' = IF CapsOk(bid, ask, upper, price) THEN upper ELSE 0
    BY <1>4 DEF Enter
  <2>2. SearchInvariant'
    BY <2>1, <1>2 DEF SearchInvariant, SearchTypeOK, args
  <2> QED
    BY <1>1, <2>1, <2>2 DEF EnterInv, ResultIsLargest
<1> QED
  BY <1>3, <1>4

\* Halving the range keeps the loop invariant.
LEMMA HalveStep ==
    ASSUME LoopInv, Halve
    PROVE  LoopInv'
<1> USE DEF LoopInv
<1> DEFINE mid == lo + (hi - lo + 1) \div 2
<1>1. /\ pc = "search" /\ pc' = "search" /\ lo < hi
      /\ bid' = bid /\ ask' = ask /\ price' = price /\ upper' = upper /\ result' = result
  BY DEF Halve, args
<1>2. lo \in 0 .. upper /\ hi \in 0 .. upper /\ upper \in Nat
  BY DEF SearchTypeOK
<1>3. mid \in Nat /\ lo < mid /\ mid <= hi
  BY <1>1, <1>2
<1>4. IF CapsOk(bid, ask, mid, price) THEN lo' = mid /\ hi' = hi ELSE lo' = lo /\ hi' = mid - 1
  BY DEF Halve
<1> HIDE DEF mid
<1>5. SearchTypeOK'
  BY <1>1, <1>2, <1>3, <1>4 DEF SearchTypeOK
<1>6. SearchInvariant'
  <2>1. CASE CapsOk(bid, ask, mid, price)
    BY <2>1, <1>1, <1>2, <1>3, <1>4 DEF SearchInvariant
  <2>2. CASE ~CapsOk(bid, ask, mid, price)
    <3>1. \A fill \in mid .. upper : ~CapsOk(bid, ask, fill, price)
      <4> SUFFICES ASSUME NEW fill \in mid .. upper, CapsOk(bid, ask, fill, price)
                   PROVE  FALSE
        OBVIOUS
      <4>1. fill \in Nat /\ mid <= fill
        BY <1>2, <1>3
      <4>2. CapsOk(bid, ask, mid, price)
        BY <4>1, <1>3, CapsPrefix DEF SearchTypeOK, OrderType, Capped
      <4> QED
        BY <4>2, <2>2
    <3> QED
      BY <2>2, <3>1, <1>1, <1>2, <1>3, <1>4 DEF SearchInvariant
  <2> QED
    BY <2>1, <2>2
<1> QED
  BY <1>1, <1>5, <1>6 DEF EnterInv, ResultIsLargest

\* On leaving the loop the invariant gives the result.
LEMMA FinishStep ==
    ASSUME LoopInv, Finish
    PROVE  LoopInv'
<1> USE DEF LoopInv
<1>1. /\ pc = "search" /\ pc' = "done" /\ lo = hi
      /\ bid' = bid /\ ask' = ask /\ price' = price /\ upper' = upper
      /\ result' = IF split_collateral(lo, price) THEN lo ELSE None
  BY DEF Finish, args, SearchInvariant, SearchTypeOK
<1>2. SearchTypeOK'
  BY <1>1 DEF SearchTypeOK, Finish
<1>3. lo \in 0 .. upper /\ upper \in Nat /\ price \in 0 .. PRICE_SCALE
  BY DEF SearchTypeOK
<1>4. lo # 0 => CapsOk(bid, ask, lo, price)
  BY <1>1 DEF SearchInvariant
<1>5. \A fill \in 1 .. upper : CapsOk(bid, ask, fill, price) => fill <= lo
  BY <1>1, <1>3 DEF SearchInvariant
<1>6. CASE split_collateral(lo, price)
  <2>1. lo # 0
    BY <1>6 DEF split_collateral
  <2>2. lo # None
    BY <1>3 DEF None
  <2> QED
    BY <1>1, <1>2, <1>3, <1>4, <1>5, <1>6, <2>1, <2>2 DEF EnterInv, ResultIsLargest, SearchInvariant, Admissible
<1>7. CASE ~split_collateral(lo, price)
  <2>1. ASSUME NEW fill \in 1 .. upper, CapsOk(bid, ask, fill, price), split_collateral(fill, price)
        PROVE  FALSE
    <3>1. fill <= lo /\ fill \in Nat
      BY <1>5, <2>1, <1>3
    <3>2. split_collateral(lo, price)
      BY <2>1, <3>1, <1>3, SplitSuffix
    <3> QED
      BY <3>2, <1>7
  <2> QED
    BY <1>1, <1>2, <1>7, <2>1 DEF EnterInv, ResultIsLargest, SearchInvariant, Admissible
<1> QED
  BY <1>6, <1>7

\* Every step keeps the loop invariant.
LEMMA LoopStep == LoopInv /\ [SearchNext]_searchVars => LoopInv'
<1> SUFFICES ASSUME LoopInv, [SearchNext]_searchVars PROVE LoopInv'
  OBVIOUS
<1>1. CASE Enter
  BY <1>1, EnterStep
<1>2. CASE Halve
  BY <1>2, HalveStep
<1>3. CASE Finish
  BY <1>3, FinishStep
<1>4. CASE UNCHANGED searchVars
  BY <1>4 DEF searchVars, args, LoopInv, SearchTypeOK, EnterInv, SearchInvariant, ResultIsLargest, Admissible
<1> QED
  BY <1>1, <1>2, <1>3, <1>4 DEF SearchNext

\* Whatever the scale, the orders and the bound, max_fill
\* (matching.rs:47-68) returns the largest fill that stays within both caps
\* and pays both legs, and None only when there is no such fill.
THEOREM MaxFillCorrect == SearchSpec => []ResultIsLargest
<1>1. LoopInv /\ [SearchNext]_searchVars => LoopInv'
  BY LoopStep
<1> QED
  BY LoopInit, <1>1, PTL DEF SearchSpec, LoopInv

\* max_fill of the book (Matching) is the value this loop returns.
THEOREM LoopReturnsMaxFill == SearchSpec => []LoopIsMaxFill
<1>1. SearchTypeOK /\ ResultIsLargest => LoopIsMaxFill
  <2> SUFFICES ASSUME SearchTypeOK, ResultIsLargest, pc = "done"
               PROVE  result = max_fill(bid, ask, price, upper)
    BY DEF LoopIsMaxFill
  <2> DEFINE admissible == {fill \in 1 .. upper : split_collateral(fill, price) /\ CapsOk(bid, ask, fill, price)}
  <2>1. /\ result # None => Admissible(result)
        /\ \A fill \in admissible : result # None /\ fill <= result
    BY DEF ResultIsLargest, Admissible
  <2>2. upper \in Nat /\ result \in 0 .. upper \cup {None}
    BY DEF SearchTypeOK
  <2>3. CASE result = None
    BY <2>1, <2>3 DEF max_fill
  <2>4. CASE result # None
    <3>1. result \in admissible
      BY <2>1, <2>2, <2>4 DEF Admissible, split_collateral
    <3>2. \A fill \in admissible : (\A other \in admissible : other <= fill) => fill = result
      BY <2>1, <2>2, <3>1
    <3> QED
      BY <2>1, <3>1, <3>2 DEF max_fill
  <2> QED
    BY <2>3, <2>4
<1>2. LoopInv /\ [SearchNext]_searchVars => LoopInv'
  BY LoopStep
<1> QED
  BY LoopInit, <1>1, <1>2, PTL DEF SearchSpec, LoopInv

-----------------------------------------------------------------------------
(* The book across restarts: what the argument rests on. *)

\* The names that occur in orders, and what messages, rows and calls are.
Names == UNION {{o.txId, o.marketId, o.evmAddress, o.accountId} : o \in Orders}
Recs == OrderRecord(Names)
Fills == [bid : Names, ask : Names, bidFilled : Nat, askFilled : Nat, fill : Nat, price : 0 .. PRICE_SCALE]
Rows == [accepted : BOOLEAN, delivered : BOOLEAN, cancelled : BOOLEAN, sharesFilled : Nat, collateralFilled : Nat]
Recreations == [life : Nat, pc : {"create", "read", "loop", "done", "failed"}, todo : SUBSET Recs]
Books == [bids : Seq(Recs), asks : Seq(Recs)]
Clobs == [up : BOOLEAN, life : Nat, consumer : BOOLEAN, market : BOOLEAN, book : Books, lut : SUBSET Names,
          hand : Nat, placed : BOOLEAN, publishing : Seq(Fills)]

TableTypeOK ==
    /\ matches \in [DOMAIN matches -> {"pending", "failed", "finalized"}]
    /\ DOMAIN matches \subseteq Fills /\ IsFiniteSet(DOMAIN matches)

RebuildTypeOK ==
    /\ intents \in [TxIds -> Rows]
    /\ orderStream \in Seq(Recs)
    /\ clob \in Clobs /\ BookOk(clob.book, Names)
    /\ matchStream \in Seq(Fills)
    /\ TableTypeOK
    /\ rebuilds \in Seq(Recreations)

\* No order is twice on a side, and none on both.
Within(side, t) == \E i \in 1 .. Len(side) : side[i].txId = t
OneEach(side) == \A i, j \in 1 .. Len(side) : side[i].txId = side[j].txId => i = j
OnBook(book, t) == Within(book.bids, t) \/ Within(book.asks, t)
Once(book) ==
    /\ OneEach(book.bids) /\ OneEach(book.asks)
    /\ \A t \in Names : ~(Within(book.bids, t) /\ Within(book.asks, t))

\* What rests was seen, and what is about to be placed was not.
SeenInv ==
    /\ Once(clob.book)
    /\ \A t \in Names : OnBook(clob.book, t) => t \in clob.lut
    /\ clob.hand # 0 => /\ clob.hand \in 1 .. Len(orderStream)
                        /\ ~clob.placed => orderStream[clob.hand].txId \notin clob.lut

\* A fill is in the stream once, and a finalized one no more.
StreamInv ==
    /\ \A i \in 1 .. Len(matchStream) : MessageId(matchStream[i]) \in DOMAIN matchIds
    /\ \A i, j \in 1 .. Len(matchStream) : MessageId(matchStream[i]) = MessageId(matchStream[j]) => i = j
    /\ \A f \in DOMAIN matches : MessageId(f) \in DOMAIN matchIds
    /\ \A f \in DOMAIN matches : matches[f] = "finalized" =>
           \A i \in 1 .. Len(matchStream) : MessageId(matchStream[i]) # MessageId(f)

\* What a rebuild has read of an order is no more than what is finalized now.
ReadInv ==
    \A k \in 1 .. Len(rebuilds) : \A o \in rebuilds[k].todo : o.sharesFilled <= Shares(Finalized(o.txId))

RebuildInv ==
    /\ OrdersAsSigned
    /\ RebuildTypeOK
    /\ SeenInv /\ StreamInv /\ ReadInv
    /\ NothingCountedTwice /\ SettledWithinOrder

-----------------------------------------------------------------------------
(* Orders and fills. *)

\* An order is found by its txId.
LEMMA OrderFound ==
    ASSUME OrdersAsSigned, NEW t \in TxIds
    PROVE  /\ Order[t] \in Recs /\ Order[t].txId = t /\ t \in Names
           /\ Order[t].sharesFilled = 0 /\ Order[t].collateralFilled = 0
<1>1. PICK o \in Orders : o.txId = t
  BY DEF TxIds
<1>2. Order[t] \in Orders /\ Order[t].txId = t
  BY <1>1 DEF Order
<1>3. t \in Names
  BY <1>1 DEF Names
<1>4. Orders \subseteq Recs
  BY DEF OrdersAsSigned, Recs, Names
<1> QED
  BY <1>2, <1>3, <1>4 DEF OrdersAsSigned

Quantity == [f \in Fills |-> f.fill]

LEMMA QuantityType == \A f \in Fills : Quantity[f] = f.fill /\ f.fill \in Nat
  BY DEF Quantity, Fills

LEMMA SharesAre ==
    ASSUME NEW S \in SUBSET Fills, IsFiniteSet(S)
    PROVE  Shares(S) = SumFunctionOnSet(Quantity, S) /\ Shares(S) \in Nat
<1> DEFINE g == [f \in S |-> f.fill]
<1>1. \A f \in S : g[f] = Quantity[f] /\ Quantity[f] \in Nat
  BY QuantityType
<1>2. Shares(S) = SumFunctionOnSet(g, S)
  BY DEF Shares
<1> HIDE DEF g
<1>3. SumFunctionOnSet(g, S) = SumFunctionOnSet(Quantity, S)
  BY <1>1, SumCongruence
<1>4. SumFunctionOnSet(Quantity, S) \in Nat
  BY <1>1, SumType
<1> QED
  BY <1>2, <1>3, <1>4

\* The shares of some fills and of the rest add up.
LEMMA SharesSplit ==
    ASSUME NEW S \in SUBSET Fills, IsFiniteSet(S), NEW R \in SUBSET S
    PROVE  /\ Shares(S) = Shares(R) + Shares(S \ R)
           /\ Shares(R) \in Nat /\ Shares(S \ R) \in Nat /\ Shares(R) <= Shares(S)
<1>1. IsFiniteSet(R) /\ IsFiniteSet(S \ R) /\ R \in SUBSET Fills /\ S \ R \in SUBSET Fills
  BY FS_Subset
<1>2. \A f \in S : Quantity[f] \in Nat
  BY QuantityType
<1>3. SumFunctionOnSet(Quantity, S) = SumFunctionOnSet(Quantity, R) + SumFunctionOnSet(Quantity, S \ R)
  BY <1>2, SumSplit
<1>4. /\ Shares(S) = SumFunctionOnSet(Quantity, S)
      /\ Shares(R) = SumFunctionOnSet(Quantity, R) /\ Shares(R) \in Nat
      /\ Shares(S \ R) = SumFunctionOnSet(Quantity, S \ R) /\ Shares(S \ R) \in Nat
  BY <1>1, SharesAre
<1> QED
  BY <1>3, <1>4

LEMMA SharesOfOneMore ==
    ASSUME NEW S \in SUBSET Fills, IsFiniteSet(S), NEW f \in Fills, f \notin S
    PROVE  Shares(S \cup {f}) = Shares(S) + f.fill
<1>1. \A x \in S \cup {f} : Quantity[x] \in Nat
  BY QuantityType
<1>2. SumFunctionOnSet(Quantity, S \cup {f}) = Quantity[f] + SumFunctionOnSet(Quantity, S)
  BY <1>1, SumOfAdded
<1>3. IsFiniteSet(S \cup {f}) /\ S \cup {f} \in SUBSET Fills
  BY FS_AddElement
<1>4. /\ Shares(S) = SumFunctionOnSet(Quantity, S) /\ Shares(S) \in Nat
      /\ Shares(S \cup {f}) = SumFunctionOnSet(Quantity, S \cup {f})
  BY <1>3, SharesAre
<1> QED
  BY <1>2, <1>4, QuantityType

LEMMA LegType ==
    ASSUME NEW f \in Fills, NEW o
    PROVE  leg_collateral(o, f.fill, f.price) \in Nat
  BY YesLegType DEF leg_collateral, Fills

LEMMA CollateralType ==
    ASSUME NEW S \in SUBSET Fills, IsFiniteSet(S), NEW o
    PROVE  Collateral(o, S) \in Nat
<1> DEFINE g == [f \in S |-> leg_collateral(o, f.fill, f.price)]
<1>1. \A f \in S : g[f] \in Nat
  BY LegType
<1>2. Collateral(o, S) = SumFunctionOnSet(g, S)
  BY DEF Collateral
<1> HIDE DEF g
<1> QED
  BY <1>1, <1>2, SumType

-----------------------------------------------------------------------------
(* The table of matches. *)

LEMMA TableSets ==
    ASSUME TableTypeOK, NEW t
    PROVE  /\ Of(t) \in SUBSET Fills /\ IsFiniteSet(Of(t))
           /\ Finalized(t) \in SUBSET Of(t) /\ Finalized(t) \in SUBSET Fills /\ IsFiniteSet(Finalized(t))
           /\ Shares(Of(t)) \in Nat /\ Shares(Finalized(t)) \in Nat
           /\ Of(t) \ Finalized(t) = {f \in Of(t) : matches[f] # "finalized"}
<1>1. Of(t) \in SUBSET DOMAIN matches /\ Of(t) \in SUBSET Fills
  BY DEF Of, TableTypeOK
<1>2. Finalized(t) \in SUBSET Of(t) /\ Of(t) \ Finalized(t) = {f \in Of(t) : matches[f] # "finalized"}
  BY DEF Finalized
<1>3. IsFiniteSet(Of(t)) /\ IsFiniteSet(Finalized(t))
  BY <1>1, <1>2, FS_Subset DEF TableTypeOK
<1>4. Finalized(t) \in SUBSET Fills
  BY <1>1, <1>2
<1> QED
  BY <1>1, <1>2, <1>3, <1>4, SharesAre

\* A table that loses no row and no finalization.
TableGrows ==
    /\ TableTypeOK /\ TableTypeOK'
    /\ DOMAIN matches \subseteq DOMAIN matches'
    /\ \A f \in DOMAIN matches : matches[f] = "finalized" => matches'[f] = "finalized"

LEMMA SharesGrow ==
    ASSUME TableGrows, NEW t
    PROVE  Shares(Of(t)) <= Shares(Of(t))' /\ Shares(Finalized(t)) <= Shares(Finalized(t))'
<1>1. Of(t) \in SUBSET Of(t)' /\ Finalized(t) \in SUBSET Finalized(t)'
  BY DEF TableGrows, Of, Finalized
<1>2. /\ Of(t)' \in SUBSET Fills /\ IsFiniteSet(Of(t)')
      /\ Finalized(t)' \in SUBSET Fills /\ IsFiniteSet(Finalized(t)')
  <2>1. TableTypeOK'
    BY DEF TableGrows
  <2>2. Of(t)' \in SUBSET DOMAIN matches' /\ Finalized(t)' \in SUBSET DOMAIN matches'
    BY DEF Of, Finalized
  <2>3. DOMAIN matches' \in SUBSET Fills /\ IsFiniteSet(DOMAIN matches')
    BY <2>1 DEF TableTypeOK
  <2> QED
    BY <2>2, <2>3, FS_Subset
<1>3. Shares(Of(t)) <= Shares(Of(t)') /\ Shares(Finalized(t)) <= Shares(Finalized(t)')
  BY <1>1, <1>2, SharesSplit
<1> QED
  BY <1>3

\* The order a rebuild publishes counts no fill twice.
LEMMA CountedFacts ==
    ASSUME TableTypeOK, NEW o \in Recs, o.sharesFilled <= Shares(Finalized(o.txId))
    PROVE  /\ Counted(o) \in Recs /\ Counted(o).txId = o.txId
           /\ Counted(o).sharesFilled <= Shares(Of(o.txId))
<1> DEFINE t == o.txId
           unsettled == {f \in Of(t) : matches[f] # "finalized"}
<1>1. /\ unsettled = Of(t) \ Finalized(t) /\ Finalized(t) \in SUBSET Of(t)
      /\ Of(t) \in SUBSET Fills /\ IsFiniteSet(Of(t))
  BY TableSets
<1> DEFINE s == Shares(unsettled)
           c == Collateral(o, unsettled)
<1>2. Counted(o) = [o EXCEPT !.sharesFilled = @ + s, !.collateralFilled = @ + c]
  BY DEF Counted
<1>3. /\ s \in Nat /\ Shares(Of(t)) = Shares(Finalized(t)) + s /\ Shares(Finalized(t)) \in Nat
  BY <1>1, SharesSplit
<1>4. c \in Nat
  <2>1. unsettled \in SUBSET Fills /\ IsFiniteSet(unsettled)
    BY <1>1, FS_Subset
  <2> QED
    BY <2>1, CollateralType
<1> HIDE DEF s, c, unsettled
<1> DEFINE shares == o.sharesFilled + s
           paid == o.collateralFilled + c
<1>5. shares \in Nat /\ paid \in Nat /\ o.sharesFilled \in Nat
  BY <1>3, <1>4 DEF Recs, OrderRecord
<1>6. Counted(o) = [o EXCEPT !.sharesFilled = shares, !.collateralFilled = paid]
  BY <1>2
<1>7. shares = o.sharesFilled + s
  OBVIOUS
<1> HIDE DEF shares, paid
<1>8. Counted(o) \in Recs
  BY <1>5, <1>6, Zenon DEF Recs, OrderRecord
<1>9. Counted(o).txId = o.txId /\ Counted(o).sharesFilled = shares
  BY <1>6 DEF Recs, OrderRecord
<1> QED
  BY <1>3, <1>5, <1>7, <1>8, <1>9

-----------------------------------------------------------------------------
(* The book. *)

\* What is left of a side has no order it did not have, and none twice.
LEMMA LeftOnce ==
    ASSUME NEW side \in Seq(Recs), NEW kept \in Seq(Recs), NEW place, Left(kept, place, side)
    PROVE  /\ OneEach(side) => OneEach(kept)
           /\ \A t : Within(kept, t) => Within(side, t)
<1>1. Len(kept) \in Nat /\ Len(side) \in Nat
  OBVIOUS
<1>2. \A i \in 1 .. Len(kept) : place[i] \in 1 .. Len(side) /\ kept[i].txId = side[place[i]].txId
  BY DEF Left, Aged, SameTerms
<1>3. \A i, j \in 1 .. Len(kept) : place[i] = place[j] => i = j
  BY <1>1 DEF Left
<1>4. ASSUME OneEach(side) PROVE OneEach(kept)
  <2> SUFFICES ASSUME NEW i \in 1 .. Len(kept), NEW j \in 1 .. Len(kept), kept[i].txId = kept[j].txId
               PROVE  i = j
    BY DEF OneEach
  <2>1. place[i] \in 1 .. Len(side) /\ place[j] \in 1 .. Len(side)
    BY <1>2
  <2>2. side[place[i]].txId = side[place[j]].txId
    BY <1>2
  <2>3. place[i] = place[j]
    BY <1>4, <2>1, <2>2, Zenon DEF OneEach
  <2> QED
    BY <1>3, <2>3
<1>5. ASSUME NEW t, Within(kept, t) PROVE Within(side, t)
  <2>1. PICK i \in 1 .. Len(kept) : kept[i].txId = t
    BY <1>5 DEF Within
  <2>2. place[i] \in 1 .. Len(side) /\ side[place[i]].txId = t
    BY <1>2, <2>1
  <2> QED
    BY <2>2 DEF Within
<1> QED
  BY <1>4, <1>5

LEMMA AddOnce ==
    ASSUME NEW book, BookOk(book, Names), Once(book), NEW in \in Recs, NEW now, ~OnBook(book, in.txId)
    PROVE  LET made == add(book, in, now)
           IN  /\ BookOk(made.book, Names) /\ Once(made.book)
               /\ \A t \in Names : OnBook(made.book, t) => OnBook(book, t) \/ t = in.txId
               /\ made.matches \in Seq(MatchRecord(Names))
               /\ \A m \in 1 .. Len(made.matches) : made.matches[m].executionYesPrice \in 0 .. PRICE_SCALE
<1> DEFINE made == add(book, in, now)
<1>0. in \in OrderRecord(Names)
  BY DEF Recs
<1>1. \/ made = [book |-> book, matches |-> <<>>]
      \/ \E own, place : Matched(book, in, own, place, made, Names)
  BY <1>0, AddOutcome
<1> HIDE DEF made
<1> DEFINE good ==
         /\ BookOk(made.book, Names) /\ Once(made.book)
         /\ \A t \in Names : OnBook(made.book, t) => OnBook(book, t) \/ t = in.txId
         /\ made.matches \in Seq(MatchRecord(Names))
         /\ \A m \in 1 .. Len(made.matches) : made.matches[m].executionYesPrice \in 0 .. PRICE_SCALE
<1>2. CASE made = [book |-> book, matches |-> <<>>]
  <2>1. made.book = book /\ made.matches = <<>>
    BY <1>2
  <2>2. good
    BY <2>1
  <2> QED
    BY <2>2 DEF made
<1>3. CASE \E own, place : Matched(book, in, own, place, made, Names)
  <2>1. PICK own, place : Matched(book, in, own, place, made, Names)
    BY <1>3
  <2> DEFINE kept == Facing(made.book, in)
             same == Beside(book, in)
             rested == Beside(made.book, in)
             side == Facing(book, in)
  <2>2. /\ BookOk(made.book, Names) /\ own \in Recs /\ own.txId = in.txId
        /\ Left(kept, place, side)
        /\ rested = Append(same, own) \/ rested = same
        /\ made.matches \in Seq(MatchRecord(Names))
    BY <2>1 DEF Matched, Recs, Aged, SameTerms
  <2>3. /\ side \in Seq(Recs) /\ kept \in Seq(Recs) /\ same \in Seq(Recs)
    BY <2>2 DEF BookOk, SideOk, Facing, Beside, Recs
  <2>4. /\ OneEach(side) /\ OneEach(same) /\ \A t \in Names : ~(Within(side, t) /\ Within(same, t))
        /\ \A t : OnBook(book, t) <=> Within(side, t) \/ Within(same, t)
    BY DEF Once, OnBook, Facing, Beside
  <2>5. \A t : OnBook(made.book, t) <=> Within(kept, t) \/ Within(rested, t)
    BY DEF OnBook, Facing, Beside
  <2> HIDE DEF kept, same, rested, side
  <2>6. OneEach(kept) /\ \A t : Within(kept, t) => Within(side, t)
    BY <2>2, <2>3, <2>4, LeftOnce
  <2>7. OneEach(rested) /\ \A t : Within(rested, t) => Within(same, t) \/ t = in.txId
    <3>1. CASE rested = same
      BY <2>4, <3>1
    <3>2. CASE rested = Append(same, own)
      <4>1. /\ Len(rested) = Len(same) + 1 /\ Len(same) \in Nat
            /\ \A i \in 1 .. Len(same) : rested[i] = same[i]
            /\ rested[Len(same) + 1] = own
            /\ \A i \in 1 .. Len(rested) : i \in 1 .. Len(same) \/ i = Len(same) + 1
        BY <2>2, <2>3, <3>2, AppendFacts
      <4>2. \A i \in 1 .. Len(same) : same[i].txId # own.txId
        BY <2>2, <2>4 DEF Within
      <4> QED
        BY <2>2, <2>4, <4>1, <4>2 DEF OneEach, Within
    <3> QED
      BY <2>2, <3>1, <3>2
  <2>8. \A t \in Names : ~(Within(kept, t) /\ Within(rested, t))
    BY <2>4, <2>6, <2>7
  <2>9. Once(made.book)
    BY <2>6, <2>7, <2>8 DEF Once, kept, rested, Facing, Beside
  <2>10. \A m \in 1 .. Len(made.matches) : made.matches[m].executionYesPrice \in 0 .. PRICE_SCALE
    <3> SUFFICES ASSUME NEW m \in 1 .. Len(made.matches)
                 PROVE  made.matches[m].executionYesPrice \in 0 .. PRICE_SCALE
      OBVIOUS
    <3> DEFINE match == made.matches[m]
    <3>1. match \in MatchRecord(Names)
      BY <2>2
    <3>2. match.executionYesPrice <= match.bid.limitYesPrice
      BY <2>1 DEF Matched, InTurn, GoodFill
    <3> HIDE DEF match
    <3>3. match.executionYesPrice \in Nat /\ match.bid.limitYesPrice \in 0 .. PRICE_SCALE
      BY <3>1 DEF MatchRecord, OrderRecord
    <3>4. match.executionYesPrice \in 0 .. PRICE_SCALE
      BY <3>2, <3>3, MatchingAssumption
    <3> QED
      BY <3>4 DEF match
  <2>11. good
    BY <2>2, <2>4, <2>5, <2>6, <2>7, <2>9, <2>10
  <2> QED
    BY <2>11 DEF made
<1> QED
  BY <1>1, <1>2, <1>3

LEMMA RemoveOnce ==
    ASSUME NEW book, BookOk(book, Names), Once(book), NEW txId
    PROVE  LET new == remove(book, txId)
           IN  /\ BookOk(new, Names) /\ Once(new)
               /\ \A t : OnBook(new, t) => OnBook(book, t)
<1> DEFINE new == remove(book, txId)
<1>1. /\ BookOk(new, Names)
      /\ \E place : Left(new.bids, place, book.bids)
      /\ \E place : Left(new.asks, place, book.asks)
  BY RemoveOutcome
<1> HIDE DEF new
<1>2. /\ new.bids \in Seq(Recs) /\ new.asks \in Seq(Recs) /\ book.bids \in Seq(Recs) /\ book.asks \in Seq(Recs)
  BY <1>1 DEF BookOk, SideOk, Recs
<1>3. OneEach(new.bids) /\ \A t : Within(new.bids, t) => Within(book.bids, t)
  BY <1>1, <1>2, LeftOnce DEF Once
<1>4. OneEach(new.asks) /\ \A t : Within(new.asks, t) => Within(book.asks, t)
  BY <1>1, <1>2, LeftOnce DEF Once
<1>5. Once(new) /\ \A t : OnBook(new, t) => OnBook(book, t)
  BY <1>3, <1>4 DEF Once, OnBook
<1> QED
  BY <1>1, <1>5 DEF new

\* The fills of a sequence of matches.
LEMMA FillsOfMatches ==
    ASSUME NEW ms \in Seq(MatchRecord(Names)),
           \A m \in 1 .. Len(ms) : ms[m].executionYesPrice \in 0 .. PRICE_SCALE
    PROVE  [k \in DOMAIN ms |-> FillOf(ms[k])] \in Seq(Fills)
<1>1. DOMAIN ms = 1 .. Len(ms) /\ Len(ms) \in Nat
  OBVIOUS
<1>2. \A k \in 1 .. Len(ms) : FillOf(ms[k]) \in Fills
  <2> SUFFICES ASSUME NEW k \in 1 .. Len(ms) PROVE FillOf(ms[k]) \in Fills
    OBVIOUS
  <2> DEFINE m == ms[k]
  <2>1. m \in MatchRecord(Names) /\ m.executionYesPrice \in 0 .. PRICE_SCALE
    OBVIOUS
  <2> HIDE DEF m
  <2>2. /\ m.bid.txId \in Names /\ m.ask.txId \in Names /\ m.bid.sharesFilled \in Nat
        /\ m.ask.sharesFilled \in Nat /\ m.fillShares \in Nat
    BY <2>1 DEF MatchRecord, OrderRecord
  <2>3. FillOf(m) \in Fills
    BY <2>1, <2>2 DEF FillOf, Fills
  <2> QED
    BY <2>3 DEF m
<1> QED
  BY <1>1, <1>2

-----------------------------------------------------------------------------
(* The steps.  First what a step leaves alone. *)

LEMMA SameTable ==
    ASSUME UNCHANGED matches
    PROVE  /\ \A t : Of(t)' = Of(t) /\ Finalized(t)' = Finalized(t)
           /\ TableTypeOK => TableTypeOK'
  BY DEF Of, Finalized, TableTypeOK

LEMMA SeenKept ==
    ASSUME SeenInv, UNCHANGED clob, Len(orderStream) \in Nat, Len(orderStream') \in Nat,
           Len(orderStream) <= Len(orderStream'),
           \A i \in 1 .. Len(orderStream) : orderStream'[i] = orderStream[i]
    PROVE  SeenInv'
  BY DEF SeenInv

LEMMA StreamKept ==
    ASSUME StreamInv, UNCHANGED <<matchStream, matchIds, matches>>
    PROVE  StreamInv'
  BY DEF StreamInv

LEMMA ReadKept ==
    ASSUME ReadInv, UNCHANGED <<rebuilds, matches>>
    PROVE  ReadInv'
  BY SameTable DEF ReadInv

LEMMA CountKept ==
    ASSUME NothingCountedTwice, UNCHANGED <<orderStream, matches>>
    PROVE  NothingCountedTwice'
  BY SameTable DEF NothingCountedTwice

LEMMA SettledKept ==
    ASSUME SettledWithinOrder, UNCHANGED matches,
           \A t \in TxIds : /\ intents'[t].sharesFilled = intents[t].sharesFilled
                            /\ intents'[t].collateralFilled = intents[t].collateralFilled
    PROVE  SettledWithinOrder'
  BY SameTable DEF SettledWithinOrder

LEMMA OrdersStay == OrdersAsSigned => OrdersAsSigned'
  BY DEF OrdersAsSigned

\* A message more, that counts no fill twice.
LEMMA MessageAppended ==
    ASSUME RebuildInv, NEW o \in Recs, o.sharesFilled <= Shares(Of(o.txId)),
           orderStream' = Append(orderStream, o), UNCHANGED matches
    PROVE  /\ orderStream' \in Seq(Recs) /\ NothingCountedTwice'
           /\ UNCHANGED clob => SeenInv'
<1>1. /\ orderStream \in Seq(Recs)
      /\ \A i \in 1 .. Len(orderStream) : orderStream[i].sharesFilled <= Shares(Of(orderStream[i].txId))
  BY DEF RebuildInv, RebuildTypeOK, NothingCountedTwice
<1>2. /\ orderStream' \in Seq(Recs) /\ Len(orderStream') = Len(orderStream) + 1 /\ Len(orderStream) \in Nat
      /\ \A i \in 1 .. Len(orderStream) : orderStream'[i] = orderStream[i]
      /\ orderStream'[Len(orderStream) + 1] = o
      /\ \A i \in 1 .. Len(orderStream) + 1 : i \in 1 .. Len(orderStream) \/ i = Len(orderStream) + 1
  BY <1>1, AppendFacts
<1>3. \A i \in 1 .. Len(orderStream') : orderStream'[i].sharesFilled <= Shares(Of(orderStream'[i].txId))
  BY <1>1, <1>2
<1>4. DOMAIN orderStream' = 1 .. Len(orderStream')
  BY <1>2
<1>5. NothingCountedTwice'
  BY <1>3, <1>4, SameTable DEF NothingCountedTwice
<1>6. UNCHANGED clob => SeenInv'
  BY <1>2, SeenKept DEF RebuildInv
<1> QED
  BY <1>2, <1>5, <1>6

-----------------------------------------------------------------------------
(* Intake, outbox and cancellation of rows. *)

LEMMA RebuildStarts == OrdersAsSigned /\ Init => RebuildInv
<1> SUFFICES ASSUME OrdersAsSigned, Init PROVE RebuildInv
  OBVIOUS
<1>1. /\ Len(orderStream) = 0 /\ Len(matchStream) = 0 /\ Len(rebuilds) = 0 /\ DOMAIN matches = {}
      /\ DOMAIN orderStream = {}
      /\ orderStream \in Seq(Recs) /\ matchStream \in Seq(Fills) /\ rebuilds \in Seq(Recreations)
  BY DEF Init
<1>2. /\ clob = [up |-> TRUE, life |-> 1, consumer |-> TRUE, market |-> TRUE, book |-> EmptyBook,
                 lut |-> {}, hand |-> 0, placed |-> TRUE, publishing |-> <<>>]
      /\ EmptyBook.bids = <<>> /\ EmptyBook.asks = <<>> /\ EmptyBook = [bids |-> <<>>, asks |-> <<>>]
  BY DEF Init, Started, EmptyBook
<1>3. clob \in Clobs /\ BookOk(clob.book, Names)
  <2>1. BookOk(EmptyBook, Names) /\ EmptyBook \in Books /\ <<>> \in Seq(Fills) /\ {} \in SUBSET Names
    BY <1>2 DEF BookOk, SideOk, Books
  <2> HIDE DEF EmptyBook
  <2>2. clob \in Clobs
    BY <1>2, <2>1 DEF Clobs
  <2> QED
    BY <1>2, <2>1, <2>2
<1>4. TableTypeOK
  BY <1>1, FS_EmptySet DEF TableTypeOK
<1>5. intents \in [TxIds -> Rows]
  BY DEF Init, Rows
<1>6. SeenInv
  BY <1>2 DEF SeenInv, Once, OneEach, OnBook, Within
<1>7. StreamInv /\ ReadInv /\ NothingCountedTwice
  BY <1>1 DEF StreamInv, ReadInv, NothingCountedTwice
<1>8. SettledWithinOrder
  <2> SUFFICES ASSUME NEW t \in TxIds
               PROVE  /\ intents[t].sharesFilled <= Order[t].qtyShares
                      /\ Order[t].action = "BUY" => intents[t].collateralFilled <= Order[t].collateralCap
                      /\ intents[t].sharesFilled = Shares(Finalized(t))
    BY DEF SettledWithinOrder
  <2>1. intents[t].sharesFilled = 0 /\ intents[t].collateralFilled = 0
    BY DEF Init
  <2>2. Order[t].qtyShares \in Nat /\ Order[t].collateralCap \in Nat
    BY OrderFound DEF Recs, OrderRecord
  <2>3. Finalized(t) = {}
    BY <1>1 DEF Finalized, Of
  <2>4. Shares({}) = SumFunctionOnSet(Quantity, {})
    BY FS_EmptySet, SharesAre
  <2>5. SumFunctionOnSet(Quantity, {}) = 0
    BY FS_EmptySet, SumUnfolds
  <2> QED
    BY <2>1, <2>2, <2>3, <2>4, <2>5
<1> QED
  BY <1>1, <1>3, <1>4, <1>5, <1>6, <1>7, <1>8 DEF RebuildInv, RebuildTypeOK

LEMMA OrderAccepted ==
    ASSUME RebuildInv, NEW t \in TxIds, CreateOrderIntentRequestWithOutbox(t)
    PROVE  RebuildInv'
<1>1. /\ intents' = [intents EXCEPT ![t].accepted = TRUE]
      /\ UNCHANGED <<orderStream, orderIds, clob, matchStream, matchIds, matches, rebuilds>>
  BY DEF CreateOrderIntentRequestWithOutbox
<1>2. intents \in [TxIds -> Rows]
  BY DEF RebuildInv, RebuildTypeOK
<1> DEFINE r == intents[t]
<1>3. r \in Rows /\ intents' = [intents EXCEPT ![t] = [r EXCEPT !.accepted = TRUE]]
  BY <1>1, <1>2
<1> HIDE DEF r
<1>4. /\ [r EXCEPT !.accepted = TRUE] \in Rows
      /\ [r EXCEPT !.accepted = TRUE].sharesFilled = r.sharesFilled
      /\ [r EXCEPT !.accepted = TRUE].collateralFilled = r.collateralFilled
  BY <1>3 DEF Rows
<1>5. intents' \in [TxIds -> Rows]
  BY <1>2, <1>3, <1>4
<1>6. \A u \in TxIds : /\ intents'[u].sharesFilled = intents[u].sharesFilled
                       /\ intents'[u].collateralFilled = intents[u].collateralFilled
  BY <1>2, <1>3, <1>4 DEF r
<1>7. RebuildTypeOK'
  BY <1>1, <1>5, SameTable DEF RebuildInv, RebuildTypeOK
<1>8. SeenInv'
  BY <1>1 DEF RebuildInv, SeenInv
<1> QED
  BY <1>1, <1>6, <1>7, <1>8, OrdersStay, StreamKept, ReadKept, CountKept, SettledKept DEF RebuildInv

LEMMA OutboxRuns ==
    ASSUME RebuildInv, NEW t \in TxIds, NEW marked \in BOOLEAN, runOrderOutbox(t, marked)
    PROVE  RebuildInv'
<1>1. /\ intents' = [intents EXCEPT ![t].delivered = marked]
      /\ orderStream' = orderStream \/ orderStream' = Append(orderStream, Order[t])
      /\ UNCHANGED <<clob, matchStream, matchIds, matches, rebuilds>>
  BY DEF runOrderOutbox
<1>2. intents \in [TxIds -> Rows]
  BY DEF RebuildInv, RebuildTypeOK
<1> DEFINE r == intents[t]
<1>3. r \in Rows /\ intents' = [intents EXCEPT ![t] = [r EXCEPT !.delivered = marked]]
  BY <1>1, <1>2
<1> HIDE DEF r
<1>4. /\ [r EXCEPT !.delivered = marked] \in Rows
      /\ [r EXCEPT !.delivered = marked].sharesFilled = r.sharesFilled
      /\ [r EXCEPT !.delivered = marked].collateralFilled = r.collateralFilled
  BY <1>3 DEF Rows
<1>5. intents' \in [TxIds -> Rows]
  BY <1>2, <1>3, <1>4
<1>6. \A u \in TxIds : /\ intents'[u].sharesFilled = intents[u].sharesFilled
                       /\ intents'[u].collateralFilled = intents[u].collateralFilled
  BY <1>2, <1>3, <1>4 DEF r
<1>7. orderStream' \in Seq(Recs) /\ SeenInv' /\ NothingCountedTwice'
  <2>1. CASE orderStream' = orderStream
    BY <1>1, <2>1, CountKept DEF RebuildInv, RebuildTypeOK, SeenInv
  <2>2. CASE orderStream' = Append(orderStream, Order[t])
    <3>1. Order[t] \in Recs /\ Order[t].sharesFilled = 0
      BY OrderFound DEF RebuildInv
    <3>2. Shares(Of(Order[t].txId)) \in Nat
      BY TableSets DEF RebuildInv, RebuildTypeOK
    <3>3. Order[t].sharesFilled <= Shares(Of(Order[t].txId))
      BY <3>1, <3>2
    <3> QED
      BY <1>1, <2>2, <3>1, <3>3, MessageAppended
  <2> QED
    BY <1>1, <2>1, <2>2
<1>8. RebuildTypeOK'
  BY <1>1, <1>5, <1>7, SameTable DEF RebuildInv, RebuildTypeOK
<1> QED
  BY <1>1, <1>6, <1>7, <1>8, OrdersStay, StreamKept, ReadKept, SettledKept DEF RebuildInv

LEMMA OrderCancelled ==
    ASSUME RebuildInv, NEW t \in TxIds, CancelPredictionIntentNoSigCheck(t)
    PROVE  RebuildInv'
<1>1. /\ intents' = [intents EXCEPT ![t].cancelled = TRUE]
      /\ clob' = [clob EXCEPT !.book = remove(@, t)]
      /\ UNCHANGED <<orderStream, orderIds, matchStream, matchIds, matches, rebuilds>>
  BY DEF CancelPredictionIntentNoSigCheck
<1>2. intents \in [TxIds -> Rows] /\ clob \in Clobs /\ BookOk(clob.book, Names) /\ Once(clob.book)
  BY DEF RebuildInv, RebuildTypeOK, SeenInv
<1> DEFINE r == intents[t]
           new == remove(clob.book, t)
<1>3. r \in Rows /\ intents' = [intents EXCEPT ![t] = [r EXCEPT !.cancelled = TRUE]]
  BY <1>1, <1>2
<1>4. BookOk(new, Names) /\ Once(new) /\ \A u : OnBook(new, u) => OnBook(clob.book, u)
  BY <1>2, RemoveOnce
<1>5. clob' = [clob EXCEPT !.book = new]
  BY <1>1
<1> HIDE DEF r, new
<1>6. /\ [r EXCEPT !.cancelled = TRUE] \in Rows
      /\ [r EXCEPT !.cancelled = TRUE].sharesFilled = r.sharesFilled
      /\ [r EXCEPT !.cancelled = TRUE].collateralFilled = r.collateralFilled
  BY <1>3 DEF Rows
<1>7. intents' \in [TxIds -> Rows]
  BY <1>2, <1>3, <1>6
<1>8. \A u \in TxIds : /\ intents'[u].sharesFilled = intents[u].sharesFilled
                       /\ intents'[u].collateralFilled = intents[u].collateralFilled
  BY <1>2, <1>3, <1>6 DEF r
<1>9. new \in Books
  BY <1>4 DEF BookOk, SideOk, Books, Recs
<1>10. /\ clob' \in Clobs /\ clob'.book = new /\ clob'.lut = clob.lut /\ clob'.hand = clob.hand
       /\ clob'.placed = clob.placed
  BY <1>2, <1>5, <1>9 DEF Clobs
<1>11. RebuildTypeOK'
  BY <1>1, <1>4, <1>7, <1>10, SameTable DEF RebuildInv, RebuildTypeOK
<1>12. SeenInv'
  BY <1>1, <1>4, <1>10 DEF RebuildInv, SeenInv
<1> QED
  BY <1>1, <1>8, <1>11, <1>12, OrdersStay, StreamKept, ReadKept, CountKept, SettledKept DEF RebuildInv


-----------------------------------------------------------------------------
(* The CLOB. *)

\* A step of the CLOB that changes neither book nor what was seen, and has no
\* order in hand that was seen.
LEMMA ClobMoves ==
    ASSUME RebuildInv, clob' \in Clobs, clob'.book = clob.book, clob'.lut = clob.lut,
           clob'.hand # 0 => /\ clob'.hand \in 1 .. Len(orderStream)
                             /\ ~clob'.placed => orderStream[clob'.hand].txId \notin clob.lut,
           UNCHANGED <<intents, orderStream, matchStream, matchIds, matches>>
    PROVE  /\ OrdersAsSigned' /\ SeenInv' /\ StreamInv' /\ NothingCountedTwice' /\ SettledWithinOrder'
           /\ rebuilds' \in Seq(Recreations) => RebuildTypeOK'
           /\ rebuilds' = rebuilds => RebuildInv'
<1>1. SeenInv'
  BY DEF RebuildInv, SeenInv
<1>2. rebuilds' \in Seq(Recreations) => RebuildTypeOK'
  BY SameTable DEF RebuildInv, RebuildTypeOK
<1>3. OrdersAsSigned' /\ StreamInv' /\ NothingCountedTwice' /\ SettledWithinOrder'
  BY OrdersStay, StreamKept, CountKept, SettledKept DEF RebuildInv
<1>4. rebuilds' = rebuilds => rebuilds' \in Seq(Recreations) /\ ReadInv'
  BY ReadKept DEF RebuildInv, RebuildTypeOK
<1> QED
  BY <1>1, <1>2, <1>3, <1>4 DEF RebuildInv

\* A CLOB that stops or starts has an empty book and has seen nothing.
LEMMA ClobEmpty ==
    ASSUME RebuildInv, NEW up \in BOOLEAN, NEW life \in Nat,
           clob' = [up |-> up, life |-> life, consumer |-> TRUE, market |-> FALSE, book |-> EmptyBook,
                    lut |-> {}, hand |-> 0, placed |-> TRUE, publishing |-> <<>>],
           UNCHANGED <<intents, orderStream, matchStream, matchIds, matches>>
    PROVE  /\ OrdersAsSigned' /\ SeenInv' /\ StreamInv' /\ NothingCountedTwice' /\ SettledWithinOrder'
           /\ rebuilds' \in Seq(Recreations) => RebuildTypeOK'
           /\ rebuilds' = rebuilds => RebuildInv'
<1>1. EmptyBook = [bids |-> <<>>, asks |-> <<>>] /\ EmptyBook.bids = <<>> /\ EmptyBook.asks = <<>>
  BY DEF EmptyBook
<1>2. BookOk(EmptyBook, Names) /\ EmptyBook \in Books /\ <<>> \in Seq(Fills) /\ {} \in SUBSET Names
  BY <1>1 DEF BookOk, SideOk, Books
<1>3. Once(EmptyBook) /\ \A t : ~OnBook(EmptyBook, t)
  BY <1>1 DEF Once, OneEach, OnBook, Within
<1> HIDE DEF EmptyBook
<1>4. clob' \in Clobs
  BY <1>2, Zenon DEF Clobs
<1>5. clob'.book = EmptyBook /\ clob'.hand = 0
  OBVIOUS
<1>6. SeenInv'
  BY <1>3, <1>5 DEF SeenInv
<1>7. rebuilds' \in Seq(Recreations) => RebuildTypeOK'
  BY <1>4, <1>2, <1>5, SameTable DEF RebuildInv, RebuildTypeOK
<1>8. OrdersAsSigned' /\ StreamInv' /\ NothingCountedTwice' /\ SettledWithinOrder'
  BY OrdersStay, StreamKept, CountKept, SettledKept DEF RebuildInv
<1>9. rebuilds' = rebuilds => rebuilds' \in Seq(Recreations) /\ ReadInv'
  BY ReadKept DEF RebuildInv, RebuildTypeOK
<1> QED
  BY <1>6, <1>7, <1>8, <1>9 DEF RebuildInv

LEMMA MessageTaken ==
    ASSUME RebuildInv, NEW i \in DOMAIN orderStream, subscribe_and_place_orders(i)
    PROVE  RebuildInv'
<1>1. /\ \/ clob' = [clob EXCEPT !.hand = i, !.placed = TRUE]
         \/ /\ orderStream[i].txId \notin clob.lut
            /\ clob' = [clob EXCEPT !.hand = i, !.placed = FALSE]
      /\ UNCHANGED <<intents, orderStream, matchStream, matchIds, matches, rebuilds>>
  BY DEF subscribe_and_place_orders, order_exists
<1>2. clob \in Clobs /\ i \in 1 .. Len(orderStream) /\ i \in Nat
  BY DEF RebuildInv, RebuildTypeOK
<1>3. /\ clob' \in Clobs /\ clob'.book = clob.book /\ clob'.lut = clob.lut /\ clob'.hand = i
      /\ ~clob'.placed => orderStream[i].txId \notin clob.lut
  BY <1>1, <1>2 DEF Clobs
<1> QED
  BY <1>1, <1>2, <1>3, ClobMoves

LEMMA OrderPlaced ==
    ASSUME RebuildInv, place_order
    PROVE  RebuildInv'
<1> DEFINE order == orderStream[clob.hand]
           made == add(clob.book, order, 0)
           fills == [k \in DOMAIN made.matches |-> FillOf(made.matches[k])]
<1>1. /\ clob.hand # 0 /\ ~clob.placed
      /\ clob' = [clob EXCEPT !.placed = TRUE, !.book = made.book, !.lut = clob.lut \cup {order.txId},
                     !.publishing = fills]
      /\ UNCHANGED <<intents, orderStream, matchStream, matchIds, matches, rebuilds>>
  BY DEF place_order
<1>2. /\ clob \in Clobs /\ BookOk(clob.book, Names) /\ Once(clob.book) /\ orderStream \in Seq(Recs)
      /\ clob.hand \in 1 .. Len(orderStream)
      /\ order.txId \notin clob.lut
      /\ \A t \in Names : OnBook(clob.book, t) => t \in clob.lut
  BY <1>1 DEF RebuildInv, RebuildTypeOK, SeenInv
<1>3. order \in Recs
  BY <1>2
<1> HIDE DEF order
<1>4. order.txId \in Names
  BY <1>3 DEF Recs, OrderRecord
<1>5. ~OnBook(clob.book, order.txId)
  BY <1>2, <1>4 DEF order
<1>6. /\ BookOk(made.book, Names) /\ Once(made.book)
      /\ \A t \in Names : OnBook(made.book, t) => OnBook(clob.book, t) \/ t = order.txId
      /\ made.matches \in Seq(MatchRecord(Names))
      /\ \A m \in 1 .. Len(made.matches) : made.matches[m].executionYesPrice \in 0 .. PRICE_SCALE
  BY <1>2, <1>3, <1>5, AddOnce
<1> HIDE DEF made
<1>7. fills \in Seq(Fills)
  BY <1>6, FillsOfMatches
<1> HIDE DEF fills
<1> DEFINE new == made.book
<1>8. new \in Books
  BY <1>6 DEF BookOk, SideOk, Books, Recs
<1>9. BookOk(new, Names) /\ Once(new) /\ \A t \in Names : OnBook(new, t) => t \in clob.lut \cup {order.txId}
  BY <1>2, <1>6
<1>10. clob' = [clob EXCEPT !.placed = TRUE, !.book = new, !.lut = clob.lut \cup {order.txId}, !.publishing = fills]
  BY <1>1
<1> HIDE DEF new
<1>11. /\ clob' \in Clobs /\ clob'.book = new /\ clob'.lut = clob.lut \cup {order.txId} /\ clob'.hand = clob.hand
       /\ clob'.placed
  BY <1>2, <1>4, <1>7, <1>8, <1>10 DEF Clobs
<1>12. SeenInv'
  BY <1>1, <1>2, <1>9, <1>11 DEF SeenInv
<1>13. RebuildTypeOK'
  BY <1>1, <1>9, <1>11, SameTable DEF RebuildInv, RebuildTypeOK
<1> QED
  BY <1>1, <1>12, <1>13, OrdersStay, StreamKept, ReadKept, CountKept, SettledKept DEF RebuildInv

LEMMA FillPublished ==
    ASSUME RebuildInv, NEW ok \in BOOLEAN, publish_match_with_retry(ok)
    PROVE  RebuildInv'
<1> DEFINE f == Head(clob.publishing)
           rest == Tail(clob.publishing)
           n == Len(matchStream)
<1>1. /\ clob.publishing # <<>>
      /\ clob' = [clob EXCEPT !.publishing = rest]
      /\ \/ /\ MessageId(f) \notin DOMAIN matchIds
            /\ matchStream' = Append(matchStream, f) /\ matchIds' = With(matchIds, MessageId(f), f)
         \/ UNCHANGED <<matchStream, matchIds>>
      /\ UNCHANGED <<intents, orderStream, orderIds, matches, rebuilds>>
  BY DEF publish_match_with_retry
<1>2. clob \in Clobs /\ clob.publishing \in Seq(Fills) /\ matchStream \in Seq(Fills)
  BY DEF RebuildInv, RebuildTypeOK, Clobs
<1>3. f \in Fills /\ rest \in Seq(Fills)
  BY <1>1, <1>2
<1> HIDE DEF f, rest
<1>4. /\ clob' \in Clobs /\ clob'.book = clob.book /\ clob'.lut = clob.lut /\ clob'.hand = clob.hand
      /\ clob'.placed = clob.placed
  BY <1>1, <1>2, <1>3 DEF Clobs
<1>5. SeenInv'
  BY <1>1, <1>4 DEF RebuildInv, SeenInv
<1>6. CASE UNCHANGED <<matchStream, matchIds>>
  BY <1>1, <1>4, <1>6, ClobMoves DEF RebuildInv, SeenInv
<1>7. CASE /\ MessageId(f) \notin DOMAIN matchIds
           /\ matchStream' = Append(matchStream, f) /\ matchIds' = With(matchIds, MessageId(f), f)
  <2>1. /\ matchStream' \in Seq(Fills) /\ Len(matchStream') = n + 1 /\ n \in Nat
        /\ \A i \in 1 .. n : matchStream'[i] = matchStream[i]
        /\ matchStream'[n + 1] = f
        /\ \A i \in 1 .. n + 1 : i \in 1 .. n \/ i = n + 1
    BY <1>2, <1>3, <1>7, AppendFacts
  <2>2. DOMAIN matchIds' = DOMAIN matchIds \cup {MessageId(f)}
    BY <1>7 DEF With
  <2>3. /\ \A i \in 1 .. n : MessageId(matchStream[i]) \in DOMAIN matchIds
        /\ \A i, j \in 1 .. n : MessageId(matchStream[i]) = MessageId(matchStream[j]) => i = j
        /\ \A g \in DOMAIN matches : MessageId(g) \in DOMAIN matchIds
        /\ \A g \in DOMAIN matches : matches[g] = "finalized" =>
               \A i \in 1 .. n : MessageId(matchStream[i]) # MessageId(g)
    BY DEF RebuildInv, StreamInv
  <2> HIDE DEF n
  <2>4. \A i, j \in 1 .. n + 1 : MessageId(matchStream'[i]) = MessageId(matchStream'[j]) => i = j
    BY <1>7, <2>1, <2>3
  <2>5. \A g \in DOMAIN matches : matches[g] = "finalized" =>
            \A i \in 1 .. n + 1 : MessageId(matchStream'[i]) # MessageId(g)
    BY <1>7, <2>1, <2>3
  <2>6. \A i \in 1 .. n + 1 : MessageId(matchStream'[i]) \in DOMAIN matchIds'
    BY <2>1, <2>2, <2>3
  <2>7. StreamInv'
    BY <1>1, <2>1, <2>2, <2>3, <2>4, <2>5, <2>6 DEF StreamInv
  <2>8. RebuildTypeOK'
    BY <1>1, <1>4, <2>1, SameTable DEF RebuildInv, RebuildTypeOK
  <2> QED
    BY <1>1, <1>5, <2>7, <2>8, OrdersStay, ReadKept, CountKept, SettledKept DEF RebuildInv
<1> QED
  BY <1>1, <1>6, <1>7

LEMMA MessageAcknowledged ==
    ASSUME RebuildInv, NEW outcome, ack(outcome)
    PROVE  RebuildInv'
<1>1. /\ clob.hand # 0
      /\ clob' = [clob EXCEPT !.hand = 0, !.consumer = outcome # "error"]
      /\ orderStream' = orderStream \/ orderStream' = RemoveAt(orderStream, clob.hand)
      /\ UNCHANGED <<intents, orderIds, matchStream, matchIds, matches, rebuilds>>
  BY DEF ack
<1>2. clob \in Clobs /\ orderStream \in Seq(Recs) /\ clob.hand \in 1 .. Len(orderStream)
  BY <1>1 DEF RebuildInv, RebuildTypeOK, SeenInv
<1>3. clob' \in Clobs /\ clob'.book = clob.book /\ clob'.lut = clob.lut /\ clob'.hand = 0
  <2>1. (outcome # "error") \in BOOLEAN
    OBVIOUS
  <2> QED
    BY <1>1, <1>2, <2>1 DEF Clobs
<1>4. CASE orderStream' = orderStream
  BY <1>1, <1>3, <1>4, ClobMoves
<1>5. CASE orderStream' = RemoveAt(orderStream, clob.hand)
  <2> DEFINE h == clob.hand
             n == Len(orderStream)
  <2>1. /\ orderStream' \in Seq(Recs) /\ Len(orderStream') = n - 1 /\ n \in Nat /\ h \in 1 .. n
        /\ \A i \in 1 .. n - 1 : orderStream'[i] = orderStream[IF i < h THEN i ELSE i + 1]
    BY <1>2, <1>5, RemoveAtFacts
  <2>2. \A i \in 1 .. n : orderStream[i].sharesFilled <= Shares(Of(orderStream[i].txId))
    BY <1>2 DEF RebuildInv, NothingCountedTwice
  <2> HIDE DEF h, n
  <2>3. \A i \in 1 .. n - 1 : (IF i < h THEN i ELSE i + 1) \in 1 .. n
    BY <2>1
  <2>4. \A i \in 1 .. n - 1 : orderStream'[i].sharesFilled <= Shares(Of(orderStream'[i].txId))
    BY <2>1, <2>2, <2>3
  <2>5. DOMAIN orderStream' = 1 .. n - 1
    BY <2>1
  <2>6. NothingCountedTwice'
    BY <1>1, <2>4, <2>5, SameTable DEF NothingCountedTwice
  <2>7. SeenInv'
    BY <1>3 DEF RebuildInv, SeenInv
  <2>8. RebuildTypeOK'
    BY <1>1, <1>3, <2>1, SameTable DEF RebuildInv, RebuildTypeOK
  <2> QED
    BY <1>1, <2>6, <2>7, <2>8, OrdersStay, StreamKept, ReadKept, SettledKept DEF RebuildInv
<1> QED
  BY <1>1, <1>4, <1>5


LEMMA ClobStops ==
    ASSUME RebuildInv, clob' = Stopped, UNCHANGED <<intents, orderStream, matchStream, matchIds, matches>>
    PROVE  /\ OrdersAsSigned' /\ SeenInv' /\ StreamInv' /\ NothingCountedTwice' /\ SettledWithinOrder'
           /\ rebuilds' \in Seq(Recreations) => RebuildTypeOK'
           /\ rebuilds' = rebuilds => RebuildInv'
<1>1. clob.life \in Nat
  BY DEF RebuildInv, RebuildTypeOK, Clobs
<1>2. clob' = [up |-> FALSE, life |-> clob.life, consumer |-> TRUE, market |-> FALSE, book |-> EmptyBook,
               lut |-> {}, hand |-> 0, placed |-> TRUE, publishing |-> <<>>]
  BY DEF Stopped, Started
<1> QED
  BY <1>1, <1>2, ClobEmpty

LEMMA ClobStarts ==
    ASSUME RebuildInv, Start
    PROVE  RebuildInv'
<1> DEFINE life == clob.life + 1
           call == [life |-> life, pc |-> "create", todo |-> {}]
           n == Len(rebuilds)
<1>1. /\ clob' = Started(life) /\ rebuilds' = Append(rebuilds, call)
      /\ UNCHANGED <<intents, orderStream, orderIds, matchStream, matchIds, matches>>
  BY DEF Start
<1>2. life \in Nat /\ call \in Recreations /\ rebuilds \in Seq(Recreations) /\ call.todo = {}
  BY DEF RebuildInv, RebuildTypeOK, Clobs, Recreations
<1>3. clob' = [up |-> TRUE, life |-> life, consumer |-> TRUE, market |-> FALSE, book |-> EmptyBook,
               lut |-> {}, hand |-> 0, placed |-> TRUE, publishing |-> <<>>]
  BY <1>1 DEF Started
<1> HIDE DEF life, call
<1>4. /\ rebuilds' \in Seq(Recreations) /\ Len(rebuilds') = n + 1 /\ n \in Nat
      /\ \A k \in 1 .. n : rebuilds'[k] = rebuilds[k]
      /\ rebuilds'[n + 1] = call
      /\ \A k \in 1 .. n + 1 : k \in 1 .. n \/ k = n + 1
  BY <1>1, <1>2, AppendFacts
<1>5. OrdersAsSigned' /\ SeenInv' /\ StreamInv' /\ NothingCountedTwice' /\ SettledWithinOrder' /\ RebuildTypeOK'
  BY <1>1, <1>2, <1>3, <1>4, ClobEmpty
<1>6. ReadInv'
  BY <1>1, <1>2, <1>4, SameTable DEF RebuildInv, ReadInv
<1> QED
  BY <1>5, <1>6 DEF RebuildInv

-----------------------------------------------------------------------------
(* TriggerRecreateClob. *)

\* A rebuild moves on and has no order to publish that it had not.
LEMMA RebuildMoves ==
    ASSUME RebuildInv, NEW k \in DOMAIN rebuilds, NEW call \in Recreations,
           rebuilds' = [rebuilds EXCEPT ![k] = call], UNCHANGED matches,
           \A o \in call.todo : o.sharesFilled <= Shares(Finalized(o.txId))
    PROVE  rebuilds' \in Seq(Recreations) /\ ReadInv'
<1>1. rebuilds \in Seq(Recreations) /\ k \in 1 .. Len(rebuilds) /\ Len(rebuilds) \in Nat
  BY DEF RebuildInv, RebuildTypeOK
<1>2. /\ rebuilds' \in Seq(Recreations) /\ Len(rebuilds') = Len(rebuilds)
      /\ \A j \in 1 .. Len(rebuilds) : rebuilds'[j] = IF j = k THEN call ELSE rebuilds[j]
  BY <1>1
<1>3. \A j \in 1 .. Len(rebuilds') : \A o \in rebuilds'[j].todo : o.sharesFilled <= Shares(Finalized(o.txId))
  BY <1>2 DEF RebuildInv, ReadInv
<1> QED
  BY <1>2, <1>3, SameTable DEF ReadInv

\* A rebuild's own record.
LEMMA CallOf ==
    ASSUME RebuildInv, NEW k \in DOMAIN rebuilds
    PROVE  /\ rebuilds[k] \in Recreations
           /\ \A o \in rebuilds[k].todo : o.sharesFilled <= Shares(Finalized(o.txId))
           /\ \A step \in {"create", "read", "loop", "done", "failed"} :
                  /\ [rebuilds[k] EXCEPT !.pc = step] \in Recreations
                  /\ [rebuilds[k] EXCEPT !.pc = step].todo = rebuilds[k].todo
                  /\ Goto(k, step) => rebuilds' = [rebuilds EXCEPT ![k] = [rebuilds[k] EXCEPT !.pc = step]]
<1>1. rebuilds \in Seq(Recreations) /\ k \in 1 .. Len(rebuilds)
  BY DEF RebuildInv, RebuildTypeOK
<1> DEFINE call == rebuilds[k]
<1>2. call \in Recreations
  BY <1>1
<1>3. \A o \in call.todo : o.sharesFilled <= Shares(Finalized(o.txId))
  BY <1>1 DEF RebuildInv, ReadInv
<1>4. ASSUME NEW step PROVE Goto(k, step) => rebuilds' = [rebuilds EXCEPT ![k] = [call EXCEPT !.pc = step]]
  BY DEF Goto
<1> HIDE DEF call
<1>5. \A step \in {"create", "read", "loop", "done", "failed"} :
          [call EXCEPT !.pc = step] \in Recreations /\ [call EXCEPT !.pc = step].todo = call.todo
  BY <1>2 DEF Recreations
<1> QED
  BY <1>2, <1>3, <1>4, <1>5 DEF call

LEMMA RebuildTurns ==
    ASSUME RebuildInv, NEW k \in DOMAIN rebuilds,
           NEW step \in {"create", "read", "loop", "done", "failed"}, Goto(k, step),
           UNCHANGED <<intents, orderStream, matchStream, matchIds, matches>>,
           clob' = clob \/ clob' = [clob EXCEPT !.market = TRUE] \/ clob' = Stopped
    PROVE  RebuildInv'
<1>1. rebuilds' \in Seq(Recreations) /\ ReadInv'
  <2> DEFINE call == [rebuilds[k] EXCEPT !.pc = step]
  <2>1. /\ \A o \in rebuilds[k].todo : o.sharesFilled <= Shares(Finalized(o.txId))
        /\ call \in Recreations /\ call.todo = rebuilds[k].todo
        /\ rebuilds' = [rebuilds EXCEPT ![k] = call]
    BY CallOf
  <2> HIDE DEF call
  <2>2. \A o \in call.todo : o.sharesFilled <= Shares(Finalized(o.txId))
    BY <2>1
  <2> QED
    BY <2>1, <2>2, RebuildMoves
<1>2. CASE clob' = Stopped
  BY <1>1, <1>2, ClobStops DEF RebuildInv
<1>3. CASE clob' = clob \/ clob' = [clob EXCEPT !.market = TRUE]
  <2>1. clob \in Clobs
    BY DEF RebuildInv, RebuildTypeOK
  <2>2. /\ clob' \in Clobs /\ clob'.book = clob.book /\ clob'.lut = clob.lut /\ clob'.hand = clob.hand
        /\ clob'.placed = clob.placed
    BY <1>3, <2>1 DEF Clobs
  <2>3. clob'.hand # 0 => /\ clob'.hand \in 1 .. Len(orderStream)
                          /\ ~clob'.placed => orderStream[clob'.hand].txId \notin clob.lut
    BY <2>2 DEF RebuildInv, SeenInv
  <2>4. OrdersAsSigned' /\ SeenInv' /\ StreamInv' /\ NothingCountedTwice' /\ SettledWithinOrder' /\ RebuildTypeOK'
    BY <1>1, <2>2, <2>3, ClobMoves
  <2> QED
    BY <1>1, <2>4 DEF RebuildInv
<1> QED
  BY <1>2, <1>3

LEMMA MarketCreated ==
    ASSUME RebuildInv, NEW k \in DOMAIN rebuilds, RecreateMarketOnClob(k)
    PROVE  RebuildInv'
<1>1. \/ Goto(k, "read") /\ clob' = [clob EXCEPT !.market = TRUE]
      \/ Goto(k, "failed") /\ (clob' = Stopped \/ clob' = clob)
  BY DEF RecreateMarketOnClob, Failed
<1>2. UNCHANGED <<intents, orderStream, matchStream, matchIds, matches>>
  BY DEF RecreateMarketOnClob
<1> QED
  BY <1>1, <1>2, RebuildTurns

LEMMA RebuildEnds ==
    ASSUME RebuildInv, NEW k \in DOMAIN rebuilds, RebuildDone(k) \/ RebuildFails(k)
    PROVE  RebuildInv'
<1>1. \/ Goto(k, "done") /\ clob' = clob
      \/ Goto(k, "failed") /\ (clob' = Stopped \/ clob' = clob)
  BY DEF RebuildDone, RebuildFails, Failed
<1>2. UNCHANGED <<intents, orderStream, matchStream, matchIds, matches>>
  BY DEF RebuildDone, RebuildFails
<1> QED
  BY <1>1, <1>2, RebuildTurns

LEMMA OrdersRead ==
    ASSUME RebuildInv, NEW k \in DOMAIN rebuilds, GetAllOpenPredictionIntentsByMarketId(k)
    PROVE  RebuildInv'
<1> DEFINE open(t) == [Order[t] EXCEPT !.sharesFilled = intents[t].sharesFilled,
                                       !.collateralFilled = intents[t].collateralFilled]
           all == {open(t) : t \in {u \in TxIds : IsOpen(u)}}
           call == rebuilds[k]
           new == [call EXCEPT !.pc = "loop", !.todo = all]
<1>1. /\ rebuilds' = [rebuilds EXCEPT ![k] = new]
      /\ UNCHANGED <<intents, orderStream, orderIds, clob, matchStream, matchIds, matches>>
  BY DEF GetAllOpenPredictionIntentsByMarketId
<1>2. call \in Recreations
  BY CallOf
<1>3. ASSUME NEW t \in TxIds
      PROVE  /\ open(t) \in Recs /\ open(t).txId = t
             /\ open(t).sharesFilled <= Shares(Finalized(open(t).txId))
  <2>1. Order[t] \in Recs /\ Order[t].txId = t
    BY OrderFound DEF RebuildInv
  <2>2. intents[t] \in Rows
    BY DEF RebuildInv, RebuildTypeOK
  <2>3. /\ intents[t].sharesFilled \in Nat /\ intents[t].collateralFilled \in Nat
        /\ intents[t].sharesFilled = Shares(Finalized(t))
    BY <2>2 DEF Rows, RebuildInv, SettledWithinOrder
  <2>4. open(t) \in Recs /\ open(t).txId = t /\ open(t).sharesFilled = intents[t].sharesFilled
    BY <2>1, <2>3 DEF Recs, OrderRecord
  <2> QED
    BY <2>3, <2>4
<1>4. \A o \in all : o \in Recs /\ o.sharesFilled <= Shares(Finalized(o.txId))
  BY <1>3
<1> HIDE DEF all, call
<1>5. all \in SUBSET Recs
  BY <1>4
<1>6. new \in Recreations /\ new.todo = all
  BY <1>2, <1>5 DEF Recreations
<1> HIDE DEF new
<1>7. rebuilds' \in Seq(Recreations) /\ ReadInv'
  BY <1>1, <1>4, <1>6, RebuildMoves
<1>8. RebuildTypeOK'
  BY <1>1, <1>7, SameTable DEF RebuildInv, RebuildTypeOK
<1>9. SeenInv'
  BY <1>1 DEF RebuildInv, SeenInv
<1> QED
  BY <1>1, <1>7, <1>8, <1>9, OrdersStay, StreamKept, CountKept, SettledKept DEF RebuildInv

LEMMA OrderRepublished ==
    ASSUME RebuildInv, NEW k \in DOMAIN rebuilds, NEW o \in rebuilds[k].todo, TriggerRecreateClob(k, o)
    PROVE  RebuildInv'
<1> DEFINE call == rebuilds[k]
           new == [call EXCEPT !.todo = call.todo \ {o}]
<1>1. /\ rebuilds' = [rebuilds EXCEPT ![k] = new]
      /\ orderStream' = orderStream \/ orderStream' = Append(orderStream, Counted(o))
      /\ UNCHANGED <<intents, orderIds, clob, matchStream, matchIds, matches>>
  BY DEF TriggerRecreateClob
<1>2. call \in Recreations /\ o \in call.todo /\ \A p \in call.todo : p.sharesFilled <= Shares(Finalized(p.txId))
  BY CallOf
<1> HIDE DEF call
<1>3. o \in Recs /\ new \in Recreations /\ new.todo = call.todo \ {o}
  BY <1>2 DEF Recreations
<1> HIDE DEF new
<1>4. rebuilds' \in Seq(Recreations) /\ ReadInv'
  BY <1>1, <1>2, <1>3, RebuildMoves
<1>5. orderStream' \in Seq(Recs) /\ SeenInv' /\ NothingCountedTwice'
  <2>1. CASE orderStream' = orderStream
    BY <1>1, <2>1, CountKept DEF RebuildInv, RebuildTypeOK, SeenInv
  <2>2. CASE orderStream' = Append(orderStream, Counted(o))
    <3>1. /\ Counted(o) \in Recs /\ Counted(o).txId = o.txId
          /\ Counted(o).sharesFilled <= Shares(Of(o.txId))
      BY <1>2, <1>3, CountedFacts DEF RebuildInv, RebuildTypeOK
    <3>2. Counted(o).sharesFilled <= Shares(Of(Counted(o).txId))
      BY <3>1
    <3> QED
      BY <1>1, <2>2, <3>1, <3>2, MessageAppended
  <2> QED
    BY <1>1, <2>1, <2>2
<1>6. RebuildTypeOK'
  BY <1>1, <1>4, <1>5, SameTable DEF RebuildInv, RebuildTypeOK
<1> QED
  BY <1>1, <1>4, <1>5, <1>6, OrdersStay, StreamKept, SettledKept DEF RebuildInv

-----------------------------------------------------------------------------
(* Settlement. *)

\* A table that grows breaks nothing but what the rows of orders count.
LEMMA TableWritten ==
    ASSUME RebuildInv, TableGrows, intents' \in [TxIds -> Rows], matchStream' \in Seq(Fills),
           UNCHANGED <<orderStream, clob, rebuilds>>
    PROVE  RebuildTypeOK' /\ SeenInv' /\ ReadInv' /\ NothingCountedTwice' /\ OrdersAsSigned'
<1>1. RebuildTypeOK'
  BY DEF RebuildInv, RebuildTypeOK, TableGrows
<1>2. SeenInv'
  BY DEF RebuildInv, SeenInv
<1>3. TableTypeOK /\ TableTypeOK'
  BY DEF TableGrows
<1>4. \A t : /\ Shares(Of(t)) <= Shares(Of(t))' /\ Shares(Finalized(t)) <= Shares(Finalized(t))'
             /\ Shares(Of(t)) \in Nat /\ Shares(Finalized(t)) \in Nat
             /\ Shares(Of(t))' \in Nat /\ Shares(Finalized(t))' \in Nat
  <2> SUFFICES ASSUME NEW t
               PROVE  /\ Shares(Of(t)) <= Shares(Of(t))' /\ Shares(Finalized(t)) <= Shares(Finalized(t))'
                      /\ Shares(Of(t)) \in Nat /\ Shares(Finalized(t)) \in Nat
                      /\ Shares(Of(t))' \in Nat /\ Shares(Finalized(t))' \in Nat
    OBVIOUS
  <2>1. Shares(Of(t)) \in Nat /\ Shares(Finalized(t)) \in Nat
    BY <1>3, TableSets
  <2>2. Shares(Of(t))' \in Nat /\ Shares(Finalized(t))' \in Nat
    <3>1. Of(t)' \in SUBSET DOMAIN matches' /\ Finalized(t)' \in SUBSET DOMAIN matches'
      BY DEF Of, Finalized
    <3>2. DOMAIN matches' \in SUBSET Fills /\ IsFiniteSet(DOMAIN matches')
      BY <1>3 DEF TableTypeOK
    <3>3. /\ Of(t)' \in SUBSET Fills /\ IsFiniteSet(Of(t)')
          /\ Finalized(t)' \in SUBSET Fills /\ IsFiniteSet(Finalized(t)')
      BY <3>1, <3>2, FS_Subset
    <3>4. Shares(Of(t)') \in Nat /\ Shares(Finalized(t)') \in Nat
      BY <3>3, SharesAre
    <3> QED
      BY <3>4
  <2> QED
    BY <2>1, <2>2, SharesGrow
<1>5. ReadInv'
  <2> SUFFICES ASSUME NEW k \in 1 .. Len(rebuilds), NEW o \in rebuilds[k].todo
               PROVE  o.sharesFilled <= Shares(Finalized(o.txId))'
    BY DEF ReadInv
  <2>1. o.sharesFilled <= Shares(Finalized(o.txId))
    BY DEF RebuildInv, ReadInv
  <2>2. rebuilds[k] \in Recreations
    BY DEF RebuildInv, RebuildTypeOK
  <2>3. o.sharesFilled \in Nat
    BY <2>2 DEF Recreations, Recs, OrderRecord
  <2> QED
    BY <1>4, <2>1, <2>3
<1>6. NothingCountedTwice'
  <2> SUFFICES ASSUME NEW i \in DOMAIN orderStream
               PROVE  orderStream[i].sharesFilled <= Shares(Of(orderStream[i].txId))'
    BY DEF NothingCountedTwice
  <2>1. orderStream[i].sharesFilled <= Shares(Of(orderStream[i].txId))
    BY DEF RebuildInv, NothingCountedTwice
  <2>2. orderStream[i] \in Recs
    BY DEF RebuildInv, RebuildTypeOK
  <2>3. orderStream[i].sharesFilled \in Nat
    BY <2>2 DEF Recs, OrderRecord
  <2> QED
    BY <1>4, <2>1, <2>3
<1> QED
  BY <1>1, <1>2, <1>5, <1>6, OrdersStay DEF RebuildInv

\* The first fill of the stream.
LEMMA FirstFill ==
    ASSUME RebuildInv, matchStream # <<>>
    PROVE  /\ Next1 \in Fills /\ 1 \in 1 .. Len(matchStream) /\ matchStream[1] = Next1
           /\ MessageId(Next1) \in DOMAIN matchIds
           /\ Next1 \in DOMAIN matches => matches[Next1] # "finalized"
           /\ Tail(matchStream) \in Seq(Fills) /\ Len(Tail(matchStream)) = Len(matchStream) - 1
           /\ Len(matchStream) \in Nat
           /\ \A i \in 1 .. Len(matchStream) - 1 : Tail(matchStream)[i] = matchStream[i + 1]
<1>1. matchStream \in Seq(Fills)
  BY DEF RebuildInv, RebuildTypeOK
<1>2. /\ Next1 \in Fills /\ 1 \in 1 .. Len(matchStream) /\ matchStream[1] = Next1
      /\ Tail(matchStream) \in Seq(Fills) /\ Len(Tail(matchStream)) = Len(matchStream) - 1
      /\ Len(matchStream) \in Nat
      /\ \A i \in 1 .. Len(matchStream) - 1 : Tail(matchStream)[i] = matchStream[i + 1]
  BY <1>1 DEF Next1
<1>3. /\ MessageId(Next1) \in DOMAIN matchIds
      /\ Next1 \in DOMAIN matches => matches[Next1] # "finalized"
  BY <1>2 DEF RebuildInv, StreamInv
<1> QED
  BY <1>2, <1>3

LEMMA MatchRecorded ==
    ASSUME RebuildInv, CreateMatchV2
    PROVE  RebuildInv'
<1> DEFINE f == Next1
<1>1. /\ matchStream # <<>> /\ f \notin DOMAIN matches
      /\ matches' = With(matches, f, "pending")
      /\ UNCHANGED <<intents, orderStream, orderIds, clob, matchStream, matchIds, rebuilds>>
  BY DEF CreateMatchV2
<1>2. TableTypeOK /\ intents \in [TxIds -> Rows] /\ matchStream \in Seq(Fills)
  BY DEF RebuildInv, RebuildTypeOK
<1>3. f \in Fills /\ MessageId(f) \in DOMAIN matchIds
  BY <1>1, FirstFill
<1> HIDE DEF f
<1>4. /\ DOMAIN matches' = DOMAIN matches \cup {f} /\ matches'[f] = "pending"
      /\ \A g \in DOMAIN matches : matches'[g] = matches[g]
      /\ matches' = [g \in DOMAIN matches' |-> matches'[g]]
  BY <1>1 DEF With
<1>5. TableTypeOK'
  <2>1. IsFiniteSet(DOMAIN matches \cup {f})
    BY <1>2, FS_AddElement DEF TableTypeOK
  <2>2. \A g \in DOMAIN matches : matches[g] \in {"pending", "failed", "finalized"}
    BY <1>2 DEF TableTypeOK
  <2>3. \A g \in DOMAIN matches' : matches'[g] \in {"pending", "failed", "finalized"}
    BY <1>4, <2>2
  <2>4. matches' \in [DOMAIN matches' -> {"pending", "failed", "finalized"}]
    BY <1>4, <2>3
  <2> QED
    BY <1>2, <1>3, <1>4, <2>1, <2>4 DEF TableTypeOK
<1>6. TableGrows
  BY <1>2, <1>4, <1>5 DEF TableGrows
<1>7. RebuildTypeOK' /\ SeenInv' /\ ReadInv' /\ NothingCountedTwice' /\ OrdersAsSigned'
  BY <1>1, <1>2, <1>6, TableWritten
<1>8. StreamInv'
  <2>1. \A g \in DOMAIN matches' : MessageId(g) \in DOMAIN matchIds
    BY <1>3, <1>4 DEF RebuildInv, StreamInv
  <2>2. \A g \in DOMAIN matches' : matches'[g] = "finalized" => g \in DOMAIN matches /\ matches[g] = "finalized"
    BY <1>4
  <2> QED
    BY <1>1, <2>1, <2>2 DEF RebuildInv, StreamInv
<1>9. SettledWithinOrder'
  <2>1. \A t : Finalized(t)' = Finalized(t)
    BY <1>1, <1>4 DEF Finalized, Of
  <2> QED
    BY <1>1, <2>1 DEF RebuildInv, SettledWithinOrder
<1> QED
  BY <1>7, <1>8, <1>9 DEF RebuildInv

\* A row that was not finalized gets a status.
LEMMA RowWritten ==
    ASSUME RebuildInv, matchStream # <<>>, Next1 \in DOMAIN matches,
           NEW status \in {"pending", "failed", "finalized"}, matches' = [matches EXCEPT ![Next1] = status]
    PROVE  /\ TableGrows /\ DOMAIN matches' = DOMAIN matches /\ matches'[Next1] = status
           /\ \A g \in DOMAIN matches : g # Next1 => matches'[g] = matches[g]
<1> DEFINE f == Next1
<1>1. TableTypeOK /\ matches[f] # "finalized" /\ f \in DOMAIN matches /\ matches' = [matches EXCEPT ![f] = status]
  BY FirstFill DEF RebuildInv, RebuildTypeOK
<1> HIDE DEF f
<1>2. /\ DOMAIN matches' = DOMAIN matches /\ matches'[f] = status
      /\ \A g \in DOMAIN matches : g # f => matches'[g] = matches[g]
  BY <1>1
<1>3. matches' \in [DOMAIN matches' -> {"pending", "failed", "finalized"}]
  BY <1>1, <1>2 DEF TableTypeOK
<1>4. TableTypeOK'
  BY <1>1, <1>2, <1>3 DEF TableTypeOK
<1> QED
  BY <1>1, <1>2, <1>4 DEF TableGrows, f

LEMMA SubmissionFails ==
    ASSUME RebuildInv, SettleFails
    PROVE  RebuildInv'
<1> DEFINE f == Next1
<1>1. /\ matchStream # <<>> /\ f \in DOMAIN matches
      /\ matches' = [matches EXCEPT ![Next1] = "failed"]
      /\ UNCHANGED <<intents, orderStream, orderIds, clob, matchStream, matchIds, rebuilds>>
  BY DEF SettleFails
<1>2. /\ TableGrows /\ DOMAIN matches' = DOMAIN matches /\ matches'[f] = "failed"
      /\ \A g \in DOMAIN matches : g # f => matches'[g] = matches[g]
      /\ matches[f] # "finalized"
  BY <1>1, RowWritten, FirstFill
<1> HIDE DEF f
<1>3. RebuildTypeOK' /\ SeenInv' /\ ReadInv' /\ NothingCountedTwice' /\ OrdersAsSigned'
  BY <1>1, <1>2, TableWritten DEF RebuildInv, RebuildTypeOK
<1>4. \A g \in DOMAIN matches : matches'[g] = "finalized" <=> matches[g] = "finalized"
  BY <1>2
<1>5. StreamInv'
  BY <1>1, <1>2, <1>4 DEF RebuildInv, StreamInv
<1>6. SettledWithinOrder'
  <2>1. \A t : Finalized(t)' = Finalized(t)
    BY <1>2, <1>4 DEF Finalized, Of
  <2> QED
    BY <1>1, <2>1 DEF RebuildInv, SettledWithinOrder
<1> QED
  BY <1>3, <1>5, <1>6 DEF RebuildInv

\* The head leaves the stream with a status.
LEMMA StreamShortens ==
    ASSUME RebuildInv, matchStream # <<>>, Next1 \in DOMAIN matches,
           NEW status \in {"failed", "finalized"}, matches' = [matches EXCEPT ![Next1] = status],
           matchStream' = Tail(matchStream), UNCHANGED matchIds
    PROVE  StreamInv'
<1> DEFINE n == Len(matchStream)
<1>1. /\ Len(matchStream') = n - 1 /\ n \in Nat /\ 1 \in 1 .. n /\ matchStream[1] = Next1
      /\ \A i \in 1 .. n - 1 : matchStream'[i] = matchStream[i + 1]
  BY FirstFill
<1>2. /\ DOMAIN matches' = DOMAIN matches
      /\ \A g \in DOMAIN matches : g # Next1 => matches'[g] = matches[g]
  BY RowWritten
<1>3. /\ \A i \in 1 .. n : MessageId(matchStream[i]) \in DOMAIN matchIds
      /\ \A i, j \in 1 .. n : MessageId(matchStream[i]) = MessageId(matchStream[j]) => i = j
      /\ \A g \in DOMAIN matches : MessageId(g) \in DOMAIN matchIds
      /\ \A g \in DOMAIN matches : matches[g] = "finalized" =>
             \A i \in 1 .. n : MessageId(matchStream[i]) # MessageId(g)
  BY DEF RebuildInv, StreamInv
<1> HIDE DEF n
<1>4. \A i \in 1 .. n - 1 : i + 1 \in 1 .. n /\ i + 1 # 1
  BY <1>1
<1>5. \A i \in 1 .. n - 1 : MessageId(matchStream'[i]) \in DOMAIN matchIds
  BY <1>1, <1>3, <1>4
<1>6. \A i, j \in 1 .. n - 1 : MessageId(matchStream'[i]) = MessageId(matchStream'[j]) => i = j
  <2> SUFFICES ASSUME NEW i \in 1 .. n - 1, NEW j \in 1 .. n - 1,
                      MessageId(matchStream'[i]) = MessageId(matchStream'[j])
               PROVE  i = j
    OBVIOUS
  <2>1. i + 1 = j + 1
    BY <1>1, <1>3, <1>4
  <2> QED
    BY <1>1, <2>1
<1>7. \A i \in 1 .. n - 1 : MessageId(matchStream'[i]) # MessageId(Next1)
  BY <1>1, <1>3, <1>4
<1>8. \A g \in DOMAIN matches : matches'[g] = "finalized" =>
          \A i \in 1 .. n - 1 : MessageId(matchStream'[i]) # MessageId(g)
  BY <1>1, <1>2, <1>3, <1>4, <1>7
<1> QED
  BY <1>1, <1>2, <1>3, <1>5, <1>6, <1>8 DEF StreamInv

LEMMA FillSettled ==
    ASSUME RebuildInv, settleMatchV2
    PROVE  RebuildInv'
<1> DEFINE f == Next1
           legs == {f.bid, f.ask}
           ok == \A t \in legs : Settleable(t, f)
           paid(t) == intents[t].collateralFilled + leg_collateral(Order[t], f.fill, f.price)
<1>1. /\ matchStream # <<>> /\ f \in DOMAIN matches /\ matchStream' = Tail(matchStream)
      /\ UNCHANGED <<orderStream, orderIds, clob, matchIds, rebuilds>>
      /\ ~ok => matches' = [matches EXCEPT ![Next1] = "failed"] /\ UNCHANGED intents
      /\ ok => /\ matches' = [matches EXCEPT ![Next1] = "finalized"]
               /\ intents' = [t \in TxIds |->
                      IF t \in legs
                      THEN [intents[t] EXCEPT !.sharesFilled = @ + f.fill,
                               !.collateralFilled = @ + leg_collateral(Order[t], f.fill, f.price)]
                      ELSE intents[t]]
  BY DEF settleMatchV2
<1>2. f \in Fills /\ matches[f] # "finalized" /\ matchStream' \in Seq(Fills)
  BY <1>1, FirstFill
<1>3. intents \in [TxIds -> Rows] /\ TableTypeOK
  BY DEF RebuildInv, RebuildTypeOK
<1>4. CASE ~ok
  <2>1. /\ TableGrows /\ DOMAIN matches' = DOMAIN matches /\ matches'[f] = "failed"
        /\ \A g \in DOMAIN matches : g # f => matches'[g] = matches[g]
    BY <1>1, <1>4, RowWritten
  <2>2. StreamInv'
    BY <1>1, <1>4, StreamShortens
  <2> HIDE DEF f
  <2>3. RebuildTypeOK' /\ SeenInv' /\ ReadInv' /\ NothingCountedTwice' /\ OrdersAsSigned'
    BY <1>1, <1>2, <1>3, <1>4, <2>1, TableWritten
  <2>4. \A t : Finalized(t)' = Finalized(t)
    BY <1>2, <2>1 DEF Finalized, Of
  <2>5. SettledWithinOrder'
    BY <1>1, <1>4, <2>4 DEF RebuildInv, SettledWithinOrder
  <2> QED
    BY <2>2, <2>3, <2>5 DEF RebuildInv
<1>5. CASE ok
  <2>1. /\ TableGrows /\ DOMAIN matches' = DOMAIN matches /\ matches'[f] = "finalized"
        /\ \A g \in DOMAIN matches : g # f => matches'[g] = matches[g]
    BY <1>1, <1>5, RowWritten
  <2>2. StreamInv'
    BY <1>1, <1>5, StreamShortens
  <2>3. \A t \in TxIds : intents'[t] = IF t \in legs
                 THEN [intents[t] EXCEPT !.sharesFilled = @ + f.fill,
                          !.collateralFilled = @ + leg_collateral(Order[t], f.fill, f.price)]
                 ELSE intents[t]
    BY <1>1, <1>5
  <2> HIDE DEF f
  <2>4. ASSUME NEW t \in TxIds, t \in legs
        PROVE  /\ intents'[t] \in Rows
               /\ intents'[t].sharesFilled = intents[t].sharesFilled + f.fill
               /\ intents'[t].collateralFilled = paid(t)
    <3> DEFINE r == intents[t]
               d == leg_collateral(Order[t], f.fill, f.price)
    <3>1. r \in Rows /\ d \in Nat /\ f.fill \in Nat
      BY <1>2, <1>3, LegType, QuantityType
    <3>2. intents'[t] = [r EXCEPT !.sharesFilled = @ + f.fill, !.collateralFilled = @ + d]
      BY <2>3, <2>4
    <3>3. paid(t) = r.collateralFilled + d
      OBVIOUS
    <3> HIDE DEF r, d, paid
    <3> DEFINE x == r.sharesFilled + f.fill
               y == r.collateralFilled + d
    <3>4. x \in Nat /\ y \in Nat
      BY <3>1 DEF Rows
    <3>5. intents'[t] = [r EXCEPT !.sharesFilled = x, !.collateralFilled = y]
      BY <3>2
    <3>6. x = intents[t].sharesFilled + f.fill /\ y = paid(t)
      BY <3>3 DEF r
    <3> HIDE DEF x, y
    <3>7. intents'[t] \in Rows /\ intents'[t].sharesFilled = x /\ intents'[t].collateralFilled = y
      BY <3>1, <3>4, <3>5 DEF Rows
    <3> QED
      BY <3>6, <3>7
  <2>5. intents' \in [TxIds -> Rows]
    <3>1. intents' = [t \in TxIds |-> intents'[t]]
      BY <1>1, <1>5
    <3>2. \A t \in TxIds : intents'[t] \in Rows
      BY <1>3, <2>3, <2>4
    <3> QED
      BY <3>1, <3>2
  <2>6. RebuildTypeOK' /\ SeenInv' /\ ReadInv' /\ NothingCountedTwice' /\ OrdersAsSigned'
    BY <1>1, <1>2, <2>1, <2>5, TableWritten
  <2>7. ASSUME NEW t \in TxIds
        PROVE  /\ intents'[t].sharesFilled <= Order[t].qtyShares
               /\ Order[t].action = "BUY" => intents'[t].collateralFilled <= Order[t].collateralCap
               /\ intents'[t].sharesFilled = Shares(Finalized(t)')
    <3>1. /\ intents[t].sharesFilled <= Order[t].qtyShares
          /\ Order[t].action = "BUY" => intents[t].collateralFilled <= Order[t].collateralCap
          /\ intents[t].sharesFilled = Shares(Finalized(t))
      BY DEF RebuildInv, SettledWithinOrder
    <3>2. CASE t \notin legs
      <4>1. Finalized(t)' = Finalized(t)
        BY <1>2, <2>1, <3>2 DEF Finalized, Of
      <4> QED
        BY <2>3, <3>1, <3>2, <4>1
    <3>3. CASE t \in legs
      <4>1. Settleable(t, f)
        BY <1>5, <3>3
      <4>2. /\ intents'[t].sharesFilled = intents[t].sharesFilled + f.fill
            /\ intents'[t].collateralFilled = paid(t)
        BY <2>4, <3>3
      <4>3. /\ intents'[t].sharesFilled <= Order[t].qtyShares
            /\ Order[t].action = "BUY" => intents'[t].collateralFilled <= Order[t].collateralCap
        BY <4>1, <4>2 DEF Settleable
      <4>4. Finalized(t)' = Finalized(t) \cup {f} /\ f \notin Finalized(t)
        <5>1. f \in Of(t)' /\ f \in DOMAIN matches
          BY <1>1, <2>1, <3>3 DEF Of, f
        <5>2. Of(t)' = Of(t)
          BY <2>1 DEF Of
        <5>3. Of(t) \in SUBSET DOMAIN matches
          BY DEF Of
        <5> QED
          BY <1>2, <2>1, <5>1, <5>2, <5>3 DEF Finalized
      <4>5. Shares(Finalized(t) \cup {f}) = Shares(Finalized(t)) + f.fill
        <5>1. Finalized(t) \in SUBSET Fills /\ IsFiniteSet(Finalized(t))
          BY <1>3, TableSets
        <5> QED
          BY <1>2, <4>4, <5>1, SharesOfOneMore
      <4> QED
        BY <3>1, <4>2, <4>3, <4>4, <4>5
    <3> QED
      BY <3>2, <3>3
  <2>8. SettledWithinOrder'
    BY <2>7 DEF SettledWithinOrder
  <2> QED
    BY <2>2, <2>6, <2>8 DEF RebuildInv
<1> QED
  BY <1>4, <1>5

-----------------------------------------------------------------------------
(* All steps. *)

LEMMA RebuildSteps == RebuildInv /\ [Next]_vars => RebuildInv'
<1> SUFFICES ASSUME RebuildInv, [Next]_vars PROVE RebuildInv'
  OBVIOUS
<1>1. CASE UNCHANGED vars
  <2>1. UNCHANGED <<intents, orderStream, clob, matchStream, matchIds, matches, rebuilds>>
    BY <1>1 DEF vars
  <2>2. RebuildTypeOK' /\ SeenInv'
    BY <2>1, SameTable DEF RebuildInv, RebuildTypeOK, SeenInv
  <2> QED
    BY <2>1, <2>2, OrdersStay, StreamKept, ReadKept, CountKept, SettledKept DEF RebuildInv
<1>2. ASSUME NEW t \in TxIds, CreateOrderIntentRequestWithOutbox(t) PROVE RebuildInv'
  BY <1>2, OrderAccepted
<1>3. ASSUME NEW t \in TxIds, runOrderOutbox(t, FALSE) \/ runOrderOutbox(t, TRUE) PROVE RebuildInv'
  BY <1>3, OutboxRuns
<1>4. ASSUME NEW t \in TxIds, CancelPredictionIntentNoSigCheck(t) PROVE RebuildInv'
  BY <1>4, OrderCancelled
<1>5. CASE ClobWorks
  BY <1>5, MessageTaken, FillPublished, MessageAcknowledged DEF ClobWorks
<1>6. CASE place_order
  BY <1>6, OrderPlaced
<1>7. CASE publish_match_with_retry(FALSE) \/ ack("lost") \/ ack("error")
  BY <1>7, FillPublished, MessageAcknowledged
<1>8. CASE Crash \/ Start
  <2>1. CASE Crash
    <3>1. /\ clob' = Stopped
          /\ UNCHANGED <<intents, orderStream, matchStream, matchIds, matches, rebuilds>>
      BY <2>1 DEF Crash
    <3> QED
      BY <3>1, ClobStops
  <2> QED
    BY <1>8, <2>1, ClobStarts
<1>9. ASSUME NEW k \in DOMAIN rebuilds, Rebuild(k) \/ RebuildFails(k) PROVE RebuildInv'
  BY <1>9, MarketCreated, OrdersRead, OrderRepublished, RebuildEnds DEF Rebuild
<1>10. CASE CreateMatchV2 \/ settleMatchV2 \/ SettleFails
  BY <1>10, MatchRecorded, FillSettled, SubmissionFails
<1> QED
  BY <1>1, <1>2, <1>3, <1>4, <1>5, <1>6, <1>7, <1>8, <1>9, <1>10 DEF Next, OutboxWorks, RebuildWorks

\* An order is once in a book that has each order once on a side and none on both.
LEMMA RestsOnce == RebuildInv => EnteredOnce
<1> SUFFICES ASSUME RebuildInv, NEW i \in DOMAIN Resting, NEW j \in DOMAIN Resting,
                    Resting[i].txId = Resting[j].txId
             PROVE  i = j
  BY DEF EnteredOnce
<1> DEFINE b == clob.book.bids
           a == clob.book.asks
<1>1. b \in Seq(Recs) /\ a \in Seq(Recs) /\ Once(clob.book)
  BY DEF RebuildInv, RebuildTypeOK, SeenInv, BookOk, SideOk, Recs
<1>2. OneEach(b) /\ OneEach(a) /\ \A t \in Names : ~(Within(b, t) /\ Within(a, t))
  BY <1>1 DEF Once
<1>3. Resting = b \o a
  BY DEF Resting
<1> HIDE DEF b, a
<1>4. /\ Len(b) \in Nat /\ Len(a) \in Nat /\ DOMAIN Resting = 1 .. Len(b) + Len(a)
      /\ \A k \in 1 .. Len(b) + Len(a) : Resting[k] = IF k <= Len(b) THEN b[k] ELSE a[k - Len(b)]
  BY <1>1, <1>3
<1>5. /\ \A k \in 1 .. Len(b) : b[k].txId \in Names /\ Within(b, b[k].txId)
      /\ \A k \in 1 .. Len(a) : a[k].txId \in Names /\ Within(a, a[k].txId)
  <2>1. /\ \A k \in 1 .. Len(b) : b[k] \in Recs
        /\ \A k \in 1 .. Len(a) : a[k] \in Recs
    BY <1>1
  <2>2. \A o \in Recs : o.txId \in Names
    BY DEF Recs, OrderRecord
  <2> QED
    BY <2>1, <2>2 DEF Within
<1>6. i \in 1 .. Len(b) + Len(a) /\ j \in 1 .. Len(b) + Len(a)
  BY <1>4
<1>7. CASE i <= Len(b) /\ j <= Len(b)
  BY <1>2, <1>4, <1>6, <1>7 DEF OneEach
<1>8. CASE ~(i <= Len(b)) /\ ~(j <= Len(b))
  <2>1. i - Len(b) \in 1 .. Len(a) /\ j - Len(b) \in 1 .. Len(a)
    BY <1>4, <1>6, <1>8
  <2>2. a[i - Len(b)].txId = a[j - Len(b)].txId
    BY <1>4, <1>6, <1>8
  <2>3. i - Len(b) = j - Len(b)
    BY <1>2, <2>1, <2>2 DEF OneEach
  <2> QED
    BY <1>4, <1>6, <2>3
<1>9. ASSUME NEW k \in 1 .. Len(b) + Len(a), NEW l \in 1 .. Len(b) + Len(a), k <= Len(b), ~(l <= Len(b))
      PROVE  Resting[k].txId # Resting[l].txId
  <2>1. k \in 1 .. Len(b) /\ l - Len(b) \in 1 .. Len(a)
    BY <1>4, <1>9
  <2>2. Resting[k] = b[k] /\ Resting[l] = a[l - Len(b)]
    BY <1>4, <1>9
  <2> QED
    BY <1>2, <1>5, <2>1, <2>2
<1> QED
  BY <1>6, <1>7, <1>8, <1>9

\* The book across restarts (TriggerRecreateClob, order_exists, settleMatchV2):
\* for any orders and any number of crashes, overlapping rebuilds, lost messages
\* and cancellations, no order rests twice, no rebuild counts a fill twice, and
\* nothing is settled beyond an order.
THEOREM RebuildSafe == OrdersAsSigned /\ Spec => []RebuildIsSafe
<1>1. RebuildInv => RebuildIsSafe
  BY RestsOnce DEF RebuildInv, RebuildIsSafe
<1> QED
  BY <1>1, RebuildStarts, RebuildSteps, PTL DEF Spec

=============================================================================
