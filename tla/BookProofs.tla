----------------------------- MODULE BookProofs -----------------------------
(***************************************************************************)
(* The safety of the matching engine, for any orders in any arrival order, *)
(* alone and in front of the contract.  Priority is the delicate part of   *)
(* the engine: a book records no arrival times, sorts by price only and    *)
(* does so anew on every arrival, so that the invariant has to say that on *)
(* each side orders of equal price stand as they came.                     *)
(***************************************************************************)
EXTENDS BookToChain, MatchingProofs


-----------------------------------------------------------------------------
(* The inductive invariant. *)

Known(txId, lut) == \E k \in 1 .. Len(lut) : lut[k] = txId

Before(o, p, lut) == \E i, j \in 1 .. Len(lut) : i < j /\ lut[i] = o.txId /\ lut[j] = p.txId

\* An order of the book is one that arrived, whatever of it is filled.
Placed(o, m, lut) ==
    /\ o.marketId = m
    /\ Known(o.txId, lut)
    /\ \E p \in Orders : SameTerms(o, p)

\* On a side no order stands twice, and equal prices stand as they arrived.
AsArrived(s, lut) ==
    \A i, j \in 1 .. Len(s) :
        i < j => /\ s[i].txId # s[j].txId
                 /\ s[i].limitYesPrice = s[j].limitYesPrice => Before(s[i], s[j], lut)

Barred(resting, incoming, t) == Expired(resting, t) \/ Hopeless(incoming, resting)

\* Two orders that cross, of which the later one could not be filled.
Uncrossed(b, lut, t) ==
    \A i \in 1 .. Len(b.bids), j \in 1 .. Len(b.asks) :
        crosses(b.bids[i], b.asks[j]) =>
            IF Before(b.bids[i], b.asks[j], lut) THEN Barred(b.bids[i], b.asks[j], t)
            ELSE Barred(b.asks[j], b.bids[i], t)

Sides(b, m, lut) ==
    /\ BookOk(b, Names)
    /\ \A i \in 1 .. Len(b.bids) : is_bid(b.bids[i]) /\ Placed(b.bids[i], m, lut)
    /\ \A i \in 1 .. Len(b.asks) : ~is_bid(b.asks[i]) /\ Placed(b.asks[i], m, lut)
    /\ AsArrived(b.bids, lut) /\ AsArrived(b.asks, lut)

MarketBook(b, m, lut, t) == Sides(b, m, lut) /\ Uncrossed(b, lut, t)

TapeRecord == [match : MatchRecord(Names), published : BOOLEAN, at : Nat]

LutOk(lut) ==
    /\ lut \in Seq(Names)
    /\ \A i, j \in 1 .. Len(lut) : lut[i] = lut[j] => i = j

BooksInv ==
    /\ order_books = [m \in DOMAIN order_books |-> order_books[m]]
    /\ DOMAIN order_books \subseteq MarketIds
    /\ \A m \in DOMAIN order_books : MarketBook(order_books[m], m, TX_ID_LUT, now)

TapeInv ==
    /\ tape \in Seq(TapeRecord)
    /\ \A k \in 1 .. Len(tape) : GoodFill(tape[k].match)

IInv ==
    /\ BooksInv
    /\ TapeInv
    /\ LutOk(TX_ID_LUT)
    /\ creating \in [MarketIds -> 0 .. MaxCreates]
    /\ now \in 0 .. MaxTime

-----------------------------------------------------------------------------
(* The order of arrival. *)

\* What was known of the arrivals stays so as more arrive.
Continues(lut2, lut) ==
    /\ \A txId : Known(txId, lut) => Known(txId, lut2)
    /\ \A o, p : Known(o.txId, lut) /\ Known(p.txId, lut) => (Before(o, p, lut2) <=> Before(o, p, lut))

\* An arrival comes after all earlier ones.
LEMMA Arrival ==
    ASSUME NEW lut, LutOk(lut), NEW txId \in Names, ~Known(txId, lut)
    PROVE  LET lut2 == Append(lut, txId)
           IN  /\ LutOk(lut2) /\ Continues(lut2, lut) /\ Known(txId, lut2)
               /\ Len(lut2) = Len(lut) + 1 /\ lut2[Len(lut2)] = txId
               /\ \A o, p : Known(o.txId, lut) /\ p.txId = txId => Before(o, p, lut2) /\ ~Before(p, o, lut2)
<1> DEFINE lut2 == Append(lut, txId)
           n == Len(lut)
<1>1. lut \in Seq(Names) /\ n \in Nat /\ \A i, j \in 1 .. n : lut[i] = lut[j] => i = j
  BY DEF LutOk
<1>2. /\ lut2 \in Seq(Names) /\ Len(lut2) = n + 1
      /\ \A i \in 1 .. n : lut2[i] = lut[i]
      /\ lut2[n + 1] = txId
      /\ \A i \in 1 .. n + 1 : i \in 1 .. n \/ i = n + 1
  BY <1>1, AppendFacts
<1>3. \A i \in 1 .. n : lut[i] # txId
  BY DEF Known
<1> HIDE DEF lut2
<1>4. \A i, j \in 1 .. n + 1 : lut2[i] = lut2[j] => i = j
  BY <1>1, <1>2, <1>3
<1>5. LutOk(lut2)
  BY <1>2, <1>4 DEF LutOk
<1>6. 1 .. n \subseteq 1 .. n + 1 /\ n + 1 \in 1 .. n + 1 /\ \A i \in 1 .. n : i < n + 1
  BY <1>1
<1> HIDE DEF n
<1>7. ASSUME NEW id, Known(id, lut) PROVE Known(id, lut2)
  <2>1. PICK k \in 1 .. n : lut[k] = id
    BY <1>7 DEF Known, n
  <2>2. k \in 1 .. Len(lut2) /\ lut2[k] = id
    BY <1>2, <1>6, <2>1
  <2> QED
    BY <2>2 DEF Known
<1>8. ASSUME NEW o, NEW p, Known(o.txId, lut), Known(p.txId, lut)
      PROVE  Before(o, p, lut2) <=> Before(o, p, lut)
  <2>1. ASSUME Before(o, p, lut) PROVE Before(o, p, lut2)
    <3>1. PICK i \in 1 .. n, j \in 1 .. n : i < j /\ lut[i] = o.txId /\ lut[j] = p.txId
      BY <2>1 DEF Before, n
    <3>2. i \in 1 .. Len(lut2) /\ j \in 1 .. Len(lut2) /\ lut2[i] = o.txId /\ lut2[j] = p.txId
      BY <1>2, <1>6, <3>1
    <3> QED
      BY <3>1, <3>2 DEF Before
  <2>2. ASSUME Before(o, p, lut2) PROVE Before(o, p, lut)
    <3>1. PICK i \in 1 .. n + 1, j \in 1 .. n + 1 : i < j /\ lut2[i] = o.txId /\ lut2[j] = p.txId
      BY <1>2, <2>2 DEF Before
    <3>2. o.txId # txId /\ p.txId # txId
      BY <1>3, <1>8 DEF Known, n
    <3>3. i \in 1 .. n /\ j \in 1 .. n
      BY <1>2, <3>1, <3>2
    <3> QED
      BY <1>2, <3>1, <3>3 DEF Before, n
  <2> QED
    BY <2>1, <2>2
<1>9. Known(txId, lut2)
  BY <1>2, <1>6 DEF Known
<1>10. ASSUME NEW o, NEW p, Known(o.txId, lut), p.txId = txId
       PROVE  Before(o, p, lut2) /\ ~Before(p, o, lut2)
  <2>1. PICK k \in 1 .. n : lut[k] = o.txId
    BY <1>10 DEF Known, n
  <2>2. k \in 1 .. Len(lut2) /\ n + 1 \in 1 .. Len(lut2) /\ k < n + 1 /\ lut2[k] = o.txId /\ lut2[n + 1] = p.txId
    BY <1>2, <1>6, <1>10, <2>1
  <2>3. Before(o, p, lut2)
    BY <2>2 DEF Before
  <2>4. ASSUME Before(p, o, lut2) PROVE FALSE
    <3>1. PICK i \in 1 .. n + 1, j \in 1 .. n + 1 : i < j /\ lut2[i] = p.txId /\ lut2[j] = o.txId
      BY <1>2, <2>4 DEF Before
    <3>2. i = n + 1 /\ j = k
      BY <1>2, <1>4, <2>2, <3>1
    <3> QED
      BY <1>1, <3>1, <3>2, <2>2
  <2> QED
    BY <2>3, <2>4
<1> QED
  BY <1>2, <1>5, <1>7, <1>8, <1>9, <1>10 DEF Continues, lut2, n

\* Of two orders only one is the earlier.
LEMMA BeforeOneWay ==
    ASSUME NEW lut, LutOk(lut), NEW o, NEW p, Before(o, p, lut), Before(p, o, lut)
    PROVE  FALSE
<1>1. Len(lut) \in Nat /\ \A i, j \in 1 .. Len(lut) : lut[i] = lut[j] => i = j
  BY DEF LutOk
<1>2. PICK i \in 1 .. Len(lut), j \in 1 .. Len(lut) : i < j /\ lut[i] = o.txId /\ lut[j] = p.txId
  BY DEF Before
<1>3. PICK k \in 1 .. Len(lut), l \in 1 .. Len(lut) : k < l /\ lut[k] = p.txId /\ lut[l] = o.txId
  BY DEF Before
<1>4. i = l /\ j = k
  BY <1>1, <1>2, <1>3
<1> QED
  BY <1>1, <1>2, <1>3, <1>4

-----------------------------------------------------------------------------
(* The invariant of one book. *)

\* Time and further arrivals do not disturb a book.
LEMMA BookStays ==
    ASSUME NEW b, NEW m, NEW lut, NEW lut2, NEW t \in Nat, NEW t2 \in Nat, t <= t2,
           Continues(lut2, lut), MarketBook(b, m, lut, t)
    PROVE  MarketBook(b, m, lut2, t2)
<1>1. \A o : Placed(o, m, lut) => Placed(o, m, lut2)
  BY DEF Continues, Placed
<1>2. \A s : (\A i \in 1 .. Len(s) : Known(s[i].txId, lut)) /\ AsArrived(s, lut) => AsArrived(s, lut2)
  BY DEF Continues, AsArrived
<1>3. /\ \A i \in 1 .. Len(b.bids) : Known(b.bids[i].txId, lut)
      /\ \A i \in 1 .. Len(b.asks) : Known(b.asks[i].txId, lut)
  BY DEF MarketBook, Sides, Placed
<1>4. Sides(b, m, lut2)
  BY <1>1, <1>2, <1>3 DEF MarketBook, Sides
<1>5. ASSUME NEW o \in OrderRecord(Names), NEW p, Barred(o, p, t)
      PROVE  Barred(o, p, t2)
  <2>1. o.deadline \in Nat
    BY DEF OrderRecord
  <2>2. Expired(o, t) => Expired(o, t2)
    BY <2>1, MatchingAssumption DEF Expired
  <2> QED
    BY <1>5, <2>2 DEF Barred
<1>6. Uncrossed(b, lut2, t2)
  <2> SUFFICES ASSUME NEW i \in 1 .. Len(b.bids), NEW j \in 1 .. Len(b.asks), crosses(b.bids[i], b.asks[j])
               PROVE  IF Before(b.bids[i], b.asks[j], lut2) THEN Barred(b.bids[i], b.asks[j], t2)
                      ELSE Barred(b.asks[j], b.bids[i], t2)
    BY DEF Uncrossed
  <2>1. b.bids[i] \in OrderRecord(Names) /\ b.asks[j] \in OrderRecord(Names)
    BY DEF MarketBook, Sides, BookOk, SideOk
  <2>2. Before(b.bids[i], b.asks[j], lut2) <=> Before(b.bids[i], b.asks[j], lut)
    BY <1>3 DEF Continues
  <2>3. IF Before(b.bids[i], b.asks[j], lut) THEN Barred(b.bids[i], b.asks[j], t)
        ELSE Barred(b.asks[j], b.bids[i], t)
    BY DEF MarketBook, Uncrossed
  <2> QED
    BY <1>5, <2>1, <2>2, <2>3
<1> QED
  BY <1>4, <1>6 DEF MarketBook

\* What is left of the sides of a book is a book.
LEMMA LeftoverBook ==
    ASSUME NEW b, NEW b2, NEW m, NEW lut, NEW t, MarketBook(b, m, lut, t),
           BookOk(b2, Names),
           NEW x, NEW y, Left(b2.bids, x, b.bids), Left(b2.asks, y, b.asks)
    PROVE  MarketBook(b2, m, lut, t)
<1>1. ASSUME NEW o, NEW p, Aged(p, o), Placed(o, m, lut)
      PROVE  Placed(p, m, lut) /\ (is_bid(p) <=> is_bid(o))
  BY <1>1 DEF Placed, Aged, SameTerms, is_bid
<1>2. ASSUME NEW s, NEW s2, NEW z, Left(s2, z, s), AsArrived(s, lut), Len(s) \in Nat
      PROVE  AsArrived(s2, lut)
  <2> SUFFICES ASSUME NEW i \in 1 .. Len(s2), NEW j \in 1 .. Len(s2), i < j
               PROVE  /\ s2[i].txId # s2[j].txId
                      /\ s2[i].limitYesPrice = s2[j].limitYesPrice => Before(s2[i], s2[j], lut)
    BY DEF AsArrived
  <2>1. /\ z[i] \in 1 .. Len(s) /\ z[j] \in 1 .. Len(s) /\ z[i] # z[j]
        /\ Aged(s2[i], s[z[i]]) /\ Aged(s2[j], s[z[j]])
        /\ s2[i].limitYesPrice = s2[j].limitYesPrice => z[i] < z[j]
    BY <1>2 DEF Left
  <2>2. /\ s2[i].txId = s[z[i]].txId /\ s2[j].txId = s[z[j]].txId
        /\ s2[i].limitYesPrice = s[z[i]].limitYesPrice /\ s2[j].limitYesPrice = s[z[j]].limitYesPrice
    BY <2>1 DEF Aged, SameTerms
  <2>3. z[i] < z[j] \/ z[j] < z[i]
    BY <1>2, <2>1
  <2>4. s2[i].txId # s2[j].txId
    BY <1>2, <2>1, <2>2, <2>3 DEF AsArrived
  <2>5. s2[i].limitYesPrice = s2[j].limitYesPrice => Before(s2[i], s2[j], lut)
    <3>1. Before(s2[i], s2[j], lut) <=> Before(s[z[i]], s[z[j]], lut)
      BY <2>2 DEF Before
    <3> QED
      BY <1>2, <2>1, <2>2, <3>1 DEF AsArrived
  <2> QED
    BY <2>4, <2>5
<1>3. Len(b.bids) \in Nat /\ Len(b.asks) \in Nat
  BY DEF MarketBook, Sides, BookOk, SideOk
<1>4. Sides(b2, m, lut)
  <2>1. ASSUME NEW i \in 1 .. Len(b2.bids) PROVE is_bid(b2.bids[i]) /\ Placed(b2.bids[i], m, lut)
    <3>1. x[i] \in 1 .. Len(b.bids) /\ Aged(b2.bids[i], b.bids[x[i]])
      BY DEF Left
    <3> QED
      BY <1>1, <3>1 DEF MarketBook, Sides
  <2>2. ASSUME NEW i \in 1 .. Len(b2.asks) PROVE ~is_bid(b2.asks[i]) /\ Placed(b2.asks[i], m, lut)
    <3>1. y[i] \in 1 .. Len(b.asks) /\ Aged(b2.asks[i], b.asks[y[i]])
      BY DEF Left
    <3> QED
      BY <1>1, <3>1 DEF MarketBook, Sides
  <2>3. AsArrived(b2.bids, lut) /\ AsArrived(b2.asks, lut)
    BY <1>2, <1>3 DEF MarketBook, Sides
  <2> QED
    BY <2>1, <2>2, <2>3 DEF Sides
<1>5. Uncrossed(b2, lut, t)
  <2> SUFFICES ASSUME NEW i \in 1 .. Len(b2.bids), NEW j \in 1 .. Len(b2.asks), crosses(b2.bids[i], b2.asks[j])
               PROVE  IF Before(b2.bids[i], b2.asks[j], lut) THEN Barred(b2.bids[i], b2.asks[j], t)
                      ELSE Barred(b2.asks[j], b2.bids[i], t)
    BY DEF Uncrossed
  <2> DEFINE bid == b.bids[x[i]]
             ask == b.asks[y[j]]
             bid2 == b2.bids[i]
             ask2 == b2.asks[j]
  <2>1. x[i] \in 1 .. Len(b.bids) /\ y[j] \in 1 .. Len(b.asks) /\ Aged(bid2, bid) /\ Aged(ask2, ask)
    BY DEF Left
  <2>2. /\ bid \in OrderRecord(Names) /\ ask \in OrderRecord(Names)
        /\ bid2 \in OrderRecord(Names) /\ ask2 \in OrderRecord(Names)
    BY <2>1 DEF MarketBook, Sides, BookOk, SideOk
  <2>3. crosses(bid, ask) => IF Before(bid, ask, lut) THEN Barred(bid, ask, t) ELSE Barred(ask, bid, t)
    BY <2>1 DEF MarketBook, Uncrossed
  <2>4. crosses(bid2, ask2)
    OBVIOUS
  <2> HIDE DEF bid, ask, bid2, ask2
  <2>5. /\ bid2.txId = bid.txId /\ bid2.limitYesPrice = bid.limitYesPrice /\ bid2.deadline = bid.deadline
        /\ ask2.txId = ask.txId /\ ask2.limitYesPrice = ask.limitYesPrice /\ ask2.deadline = ask.deadline
    BY <2>1 DEF Aged, SameTerms
  <2>6. crosses(bid, ask) /\ (Before(bid2, ask2, lut) <=> Before(bid, ask, lut))
    BY <2>4, <2>5 DEF crosses, Before
  <2>7. /\ Hopeless(bid, ask) => Hopeless(bid2, ask2)
        /\ Hopeless(ask, bid) => Hopeless(ask2, bid2)
    BY <2>1, <2>2, HopelessAges
  <2>8. /\ Barred(bid, ask, t) => Barred(bid2, ask2, t)
        /\ Barred(ask, bid, t) => Barred(ask2, bid2, t)
    BY <2>5, <2>7 DEF Barred, Expired
  <2> QED
    BY <2>3, <2>6, <2>8 DEF bid2, ask2
<1> QED
  BY <1>4, <1>5 DEF MarketBook

\* Resting what is left of an arriving order on a book it could not be filled
\* against any further.
LEMMA RestedBook ==
    ASSUME NEW b, NEW b2, NEW m, NEW lut, NEW t, MarketBook(b, m, lut, t), BookOk(b2, Names),
           LutOk(lut), NEW own \in OrderRecord(Names), ~Known(own.txId, lut), own.txId \in Names,
           own.marketId = m, \E p \in Orders : SameTerms(own, p),
           Facing(b2, own) = Facing(b, own), Beside(b2, own) = Append(Beside(b, own), own),
           \A i \in 1 .. Len(Facing(b, own)) :
               ~CrossesWith(own, Facing(b, own)[i]) \/ Hopeless(own, Facing(b, own)[i])
    PROVE  MarketBook(b2, m, Append(lut, own.txId), t)
<1> DEFINE lut2 == Append(lut, own.txId)
           same == Beside(b, own)
           same2 == Beside(b2, own)
           opposite == Facing(b, own)
           n == Len(same)
<1>1. /\ LutOk(lut2) /\ Continues(lut2, lut) /\ Known(own.txId, lut2)
      /\ \A o, p : Known(o.txId, lut) /\ p.txId = own.txId => Before(o, p, lut2) /\ ~Before(p, o, lut2)
  BY Arrival
<1> HIDE DEF lut2, same, same2, opposite
<1>2. Sides(b, m, lut) /\ Uncrossed(b, lut, t)
  BY DEF MarketBook
<1>3. /\ SideOk(same, Names) /\ SideOk(opposite, Names)
      /\ AsArrived(same, lut) /\ AsArrived(opposite, lut)
      /\ \A i \in 1 .. n : (is_bid(same[i]) <=> is_bid(own)) /\ Placed(same[i], m, lut)
      /\ \A i \in 1 .. Len(opposite) : (is_bid(opposite[i]) <=> ~is_bid(own)) /\ Placed(opposite[i], m, lut)
  <2>1. CASE is_bid(own)
    BY <1>2, <2>1 DEF Sides, BookOk, same, opposite, Facing, Beside
  <2>2. CASE ~is_bid(own)
    BY <1>2, <2>2 DEF Sides, BookOk, same, opposite, Facing, Beside
  <2> QED
    BY <2>1, <2>2
<1>4. /\ n \in Nat /\ Len(same2) = n + 1
      /\ \A i \in 1 .. n : same2[i] = same[i]
      /\ same2[n + 1] = own
      /\ \A i \in 1 .. n + 1 : i \in 1 .. n \/ i = n + 1
  <2>1. same \in Seq(OrderRecord(Names)) /\ same2 = Append(same, own)
    BY <1>3 DEF SideOk, same, same2
  <2> QED
    BY <2>1, AppendFacts
<1>5. \A o : Placed(o, m, lut) => Placed(o, m, lut2)
  BY <1>1 DEF Continues, Placed
<1>6. Placed(own, m, lut2)
  BY <1>1 DEF Placed
<1>7. \A i \in 1 .. n : Known(same[i].txId, lut)
  BY <1>3 DEF Placed
<1> HIDE DEF n
<1>8. \A i \in 1 .. Len(same2) : (is_bid(same2[i]) <=> is_bid(own)) /\ Placed(same2[i], m, lut2)
  <2> TAKE i \in 1 .. Len(same2)
  <2>1. CASE i \in 1 .. n
    BY <1>3, <1>4, <1>5, <2>1
  <2>2. CASE i = n + 1
    BY <1>4, <1>6, <2>2
  <2> QED
    BY <1>4, <2>1, <2>2
<1>9. AsArrived(same2, lut2)
  <2> SUFFICES ASSUME NEW i \in 1 .. n + 1, NEW j \in 1 .. n + 1, i < j
               PROVE  /\ same2[i].txId # same2[j].txId
                      /\ same2[i].limitYesPrice = same2[j].limitYesPrice => Before(same2[i], same2[j], lut2)
    BY <1>4 DEF AsArrived
  <2>1. i \in 1 .. n /\ same2[i] = same[i] /\ Known(same[i].txId, lut)
    BY <1>4, <1>7
  <2>2. CASE j \in 1 .. n
    <3>1. same2[j] = same[j] /\ Known(same[j].txId, lut)
      BY <1>4, <1>7, <2>2
    <3>2. /\ same[i].txId # same[j].txId
          /\ same[i].limitYesPrice = same[j].limitYesPrice => Before(same[i], same[j], lut)
      BY <1>3, <2>1, <2>2 DEF AsArrived, n
    <3> QED
      BY <1>1, <2>1, <3>1, <3>2 DEF Continues
  <2>3. CASE j = n + 1
    <3>1. same2[j] = own
      BY <1>4, <2>3
    <3>2. same[i].txId # own.txId
      BY <2>1
    <3>3. Before(same[i], own, lut2)
      BY <1>1, <2>1
    <3> QED
      BY <2>1, <3>1, <3>2, <3>3
  <2> QED
    BY <1>4, <2>2, <2>3
<1>10. AsArrived(opposite, lut2) /\ \A i \in 1 .. Len(opposite) : Placed(opposite[i], m, lut2)
  <2>1. \A i \in 1 .. Len(opposite) : Known(opposite[i].txId, lut)
    BY <1>3 DEF Placed
  <2>2. AsArrived(opposite, lut2)
    BY <1>1, <1>3, <2>1 DEF AsArrived, Continues
  <2> QED
    BY <1>3, <1>5, <2>2
<1>11. Sides(b2, m, lut2)
  <2>1. Facing(b2, own) = opposite
    BY DEF opposite
  <2>2. CASE is_bid(own)
    <3>1. b2.bids = same2 /\ b2.asks = opposite
      BY <2>1, <2>2 DEF Facing, Beside, same2
    <3> QED
      BY <1>3, <1>8, <1>9, <1>10, <2>2, <3>1 DEF Sides
  <2>3. CASE ~is_bid(own)
    <3>1. b2.asks = same2 /\ b2.bids = opposite
      BY <2>1, <2>3 DEF Facing, Beside, same2
    <3> QED
      BY <1>3, <1>8, <1>9, <1>10, <2>3, <3>1 DEF Sides
  <2> QED
    BY <2>2, <2>3
\* The new pairs.
<1>12. ASSUME NEW j \in 1 .. Len(opposite), CrossesWith(own, opposite[j])
       PROVE  /\ Barred(opposite[j], own, t)
              /\ Before(opposite[j], own, lut2) /\ ~Before(own, opposite[j], lut2)
  <2>1. Hopeless(own, opposite[j])
    BY <1>12 DEF opposite
  <2>2. Known(opposite[j].txId, lut)
    BY <1>3 DEF Placed
  <2> QED
    BY <1>1, <2>1, <2>2 DEF Barred
\* The old pairs.
<1>13. ASSUME NEW i \in 1 .. Len(b.bids), NEW j \in 1 .. Len(b.asks), crosses(b.bids[i], b.asks[j])
       PROVE  IF Before(b.bids[i], b.asks[j], lut2) THEN Barred(b.bids[i], b.asks[j], t)
              ELSE Barred(b.asks[j], b.bids[i], t)
  <2>1. Known(b.bids[i].txId, lut) /\ Known(b.asks[j].txId, lut)
    BY <1>2 DEF Sides, Placed
  <2>2. Before(b.bids[i], b.asks[j], lut2) <=> Before(b.bids[i], b.asks[j], lut)
    BY <1>1, <2>1 DEF Continues
  <2> QED
    BY <1>2, <1>13, <2>2 DEF Uncrossed
<1>14. Uncrossed(b2, lut2, t)
  <2> SUFFICES ASSUME NEW i \in 1 .. Len(b2.bids), NEW j \in 1 .. Len(b2.asks), crosses(b2.bids[i], b2.asks[j])
               PROVE  IF Before(b2.bids[i], b2.asks[j], lut2) THEN Barred(b2.bids[i], b2.asks[j], t)
                      ELSE Barred(b2.asks[j], b2.bids[i], t)
    BY DEF Uncrossed
  <2>1. Facing(b2, own) = opposite
    BY DEF opposite
  <2>2. CASE is_bid(own)
    <3>1. b2.bids = same2 /\ b2.asks = opposite /\ b.bids = same /\ b.asks = opposite
      BY <2>1, <2>2 DEF Facing, Beside, same2, same, opposite
    <3>2. CASE i \in 1 .. n
      <4>1. b2.bids[i] = b.bids[i] /\ b2.asks[j] = b.asks[j] /\ i \in 1 .. Len(b.bids) /\ j \in 1 .. Len(b.asks)
        BY <1>4, <3>1, <3>2 DEF n
      <4> QED
        BY <1>13, <4>1
    <3>3. CASE i = n + 1
      <4>1. b2.bids[i] = own /\ b2.asks[j] = opposite[j] /\ j \in 1 .. Len(opposite)
        BY <1>4, <3>1, <3>3
      <4>2. CrossesWith(own, opposite[j])
        BY <2>2, <4>1 DEF CrossesWith
      <4> QED
        BY <1>12, <4>1, <4>2
    <3> QED
      BY <1>4, <3>1, <3>2, <3>3
  <2>3. CASE ~is_bid(own)
    <3>1. b2.asks = same2 /\ b2.bids = opposite /\ b.asks = same /\ b.bids = opposite
      BY <2>1, <2>3 DEF Facing, Beside, same2, same, opposite
    <3>2. CASE j \in 1 .. n
      <4>1. b2.bids[i] = b.bids[i] /\ b2.asks[j] = b.asks[j] /\ i \in 1 .. Len(b.bids) /\ j \in 1 .. Len(b.asks)
        BY <1>4, <3>1, <3>2 DEF n
      <4> QED
        BY <1>13, <4>1
    <3>3. CASE j = n + 1
      <4>1. b2.asks[j] = own /\ b2.bids[i] = opposite[i] /\ i \in 1 .. Len(opposite)
        BY <1>4, <3>1, <3>3
      <4>2. CrossesWith(own, opposite[i])
        BY <2>3, <4>1 DEF CrossesWith
      <4> QED
        BY <1>12, <4>1, <4>2
    <3> QED
      BY <1>4, <3>1, <3>2, <3>3
  <2> QED
    BY <2>2, <2>3
<1> QED
  BY <1>11, <1>14 DEF MarketBook, lut2

\* Adding an order to a book.
LEMMA AddedBook ==
    ASSUME NEW b, NEW m, NEW lut, NEW t \in Nat, MarketBook(b, m, lut, t), LutOk(lut),
           NEW in \in Orders, in.marketId = m, ~Known(in.txId, lut)
    PROVE  LET result == add(b, in, t)
           IN  /\ MarketBook(result.book, m, Append(lut, in.txId), t)
               /\ result.matches \in Seq(MatchRecord(Names))
               /\ \A k \in 1 .. Len(result.matches) : GoodFill(result.matches[k])
<1> DEFINE result == add(b, in, t)
           b2 == result.book
           lut2 == Append(lut, in.txId)
<1>1. in \in OrderRecord(Names) /\ in.txId \in Names
  BY OrdersAssumption DEF OrderRecord
<1>2. BookOk(b, Names)
  BY DEF MarketBook, Sides
<1>3. Continues(lut2, lut)
  BY <1>1, Arrival
<1>4. \/ result = [book |-> b, matches |-> <<>>]
      \/ \E own, place : Matched(b, in, own, place, result, Names)
  BY <1>1, <1>2, AddOutcome
<1> HIDE DEF result, lut2
<1>5. CASE result = [book |-> b, matches |-> <<>>]
  <2>1. b2 = b /\ result.matches = <<>>
    BY <1>5
  <2>2. MarketBook(b2, m, lut2, t)
    BY <1>3, <2>1, BookStays
  <2>3. result.matches \in Seq(MatchRecord(Names)) /\ Len(result.matches) = 0
    BY <2>1
  <2> QED
    BY <2>2, <2>3 DEF result, lut2
<1>6. ASSUME NEW own, NEW place, Matched(b, in, own, place, result, Names)
      PROVE  /\ MarketBook(b2, m, lut2, t)
             /\ result.matches \in Seq(MatchRecord(Names))
             /\ \A k \in 1 .. Len(result.matches) : GoodFill(result.matches[k])
  <2> DEFINE kept == Facing(b2, in)
             same == Beside(b, in)
             b1 == IF is_bid(in) THEN [bids |-> same, asks |-> kept] ELSE [bids |-> kept, asks |-> same]
  <2>1. /\ own \in OrderRecord(Names) /\ Aged(own, in) /\ BookOk(b2, Names)
        /\ Left(kept, place, Facing(b, in))
        /\ Beside(b2, in) = IF remaining_shares(own) > 0 THEN Append(same, own) ELSE same
        /\ \A i \in 1 .. Len(kept) : \/ remaining_shares(own) = 0
                                     \/ ~CrossesWith(own, kept[i])
                                     \/ Hopeless(own, kept[i])
        /\ result.matches \in Seq(MatchRecord(Names))
        /\ \A k \in 1 .. Len(result.matches) : GoodFill(result.matches[k])
    BY <1>6 DEF Matched, InTurn
  <2>2. SideOk(kept, Names) /\ SideOk(same, Names)
    BY <1>2, <2>1 DEF BookOk, Facing, Beside
  <2>3. PICK all : Left(same, all, same)
    BY <2>2, LeftAll
  <2>4. /\ b1 = [bids |-> b1.bids, asks |-> b1.asks]
        /\ Facing(b1, in) = kept /\ Beside(b1, in) = same
        /\ is_bid(in) => b1.bids = same /\ b1.asks = kept
        /\ ~is_bid(in) => b1.bids = kept /\ b1.asks = same
    BY DEF Facing, Beside
  <2> HIDE DEF b1, kept
  <2>5. BookOk(b1, Names)
    BY <2>2, <2>4 DEF BookOk
  <2>6. MarketBook(b1, m, lut, t)
    <3>1. CASE is_bid(in)
      <4>1. Left(b1.bids, all, b.bids) /\ Left(b1.asks, place, b.asks)
        BY <2>1, <2>3, <2>4, <3>1 DEF Facing, Beside
      <4> QED
        BY <2>5, <4>1, LeftoverBook
    <3>2. CASE ~is_bid(in)
      <4>1. Left(b1.asks, all, b.asks) /\ Left(b1.bids, place, b.bids)
        BY <2>1, <2>3, <2>4, <3>2 DEF Facing, Beside
      <4> QED
        BY <2>5, <4>1, LeftoverBook
    <3> QED
      BY <3>1, <3>2
  <2>7. own.txId = in.txId /\ own.marketId = in.marketId /\ SameTerms(own, in) /\ (is_bid(own) <=> is_bid(in))
    BY <2>1 DEF Aged, SameTerms, is_bid
  <2>8. CASE remaining_shares(own) > 0
    <3>1. Facing(b2, own) = Facing(b1, own) /\ Beside(b2, own) = Append(Beside(b1, own), own)
      BY <2>1, <2>4, <2>7, <2>8 DEF Facing, Beside, kept
    <3>2. \A i \in 1 .. Len(Facing(b1, own)) :
              ~CrossesWith(own, Facing(b1, own)[i]) \/ Hopeless(own, Facing(b1, own)[i])
      <4>1. Facing(b1, own) = kept
        BY <2>4, <2>7 DEF Facing
      <4> QED
        BY <2>1, <2>8, <4>1
    <3>3. MarketBook(b2, m, Append(lut, own.txId), t)
      BY <1>1, <2>1, <2>6, <2>7, <3>1, <3>2, RestedBook
    <3> QED
      BY <2>1, <2>7, <3>3 DEF lut2
  <2>9. CASE ~(remaining_shares(own) > 0)
    <3>1. b2 = b1
      <4>1. b2 = [bids |-> b2.bids, asks |-> b2.asks] /\ Beside(b2, in) = same /\ Facing(b2, in) = kept
        BY <2>1, <2>9 DEF BookOk, kept
      <4>2. b2.bids = b1.bids /\ b2.asks = b1.asks
        BY <2>4, <4>1 DEF Facing, Beside
      <4> HIDE DEF b2
      <4> QED
        BY <2>4, <4>1, <4>2
    <3>2. MarketBook(b2, m, lut2, t)
      BY <1>3, <2>6, <3>1, BookStays
    <3> QED
      BY <2>1, <3>2
  <2> QED
    BY <2>8, <2>9
<1> QED
  BY <1>4, <1>5, <1>6 DEF result, lut2

\* Removing an order from a book.
LEMMA RemovedBook ==
    ASSUME NEW b, NEW m, NEW lut, NEW t, MarketBook(b, m, lut, t), NEW txId
    PROVE  MarketBook(remove(b, txId), m, lut, t)
<1> DEFINE b2 == remove(b, txId)
<1>1. /\ BookOk(b2, Names)
      /\ \E place : Left(b2.bids, place, b.bids)
      /\ \E place : Left(b2.asks, place, b.asks)
  BY RemoveOutcome DEF MarketBook, Sides
<1> HIDE DEF b2
<1>2. MarketBook(b2, m, lut, t)
  BY <1>1, LeftoverBook
<1> QED
  BY <1>2 DEF b2

\* A market that opens has an empty book.
LEMMA NewBook ==
    ASSUME NEW m, NEW lut, NEW t
    PROVE  MarketBook(EmptyBook, m, lut, t)
<1>1. /\ EmptyBook = [bids |-> EmptyBook.bids, asks |-> EmptyBook.asks]
      /\ EmptyBook.bids = <<>> /\ EmptyBook.asks = <<>>
      /\ Len(<<>>) = 0 /\ 1 .. 0 = {} /\ <<>> \in Seq(OrderRecord(Names))
  BY DEF EmptyBook
<1>2. Sides(EmptyBook, m, lut)
  BY <1>1 DEF Sides, BookOk, SideOk, AsArrived
<1>3. Uncrossed(EmptyBook, lut, t)
  BY <1>1 DEF Uncrossed
<1> QED
  BY <1>2, <1>3 DEF MarketBook

-----------------------------------------------------------------------------
(* The steps. *)

LEMMA ConcatFacts ==
    ASSUME NEW S, NEW s \in Seq(S), NEW r \in Seq(S)
    PROVE  /\ s \o r \in Seq(S) /\ Len(s \o r) = Len(s) + Len(r) /\ Len(s) \in Nat /\ Len(r) \in Nat
           /\ \A i \in 1 .. Len(s) : (s \o r)[i] = s[i]
           /\ \A i \in 1 .. Len(r) : (s \o r)[Len(s) + i] = r[i]
           /\ \A i \in 1 .. Len(s) + Len(r) : i \in 1 .. Len(s) \/ i - Len(s) \in 1 .. Len(r)
  OBVIOUS

\* The matches of an arrival as they go to the tape.
LEMMA TapedMatches ==
    ASSUME NEW matches \in Seq(MatchRecord(Names)), NEW published \in [1 .. Len(matches) -> BOOLEAN], NEW t \in Nat
    PROVE  LET more == [k \in 1 .. Len(matches) |->
                           [match |-> matches[k], published |-> published[k], at |-> t]]
           IN  /\ more \in Seq(TapeRecord) /\ Len(more) = Len(matches)
               /\ \A k \in 1 .. Len(matches) : more[k].match = matches[k] /\ more[k].at = t
<1> DEFINE n == Len(matches)
           more == [k \in 1 .. n |-> [match |-> matches[k], published |-> published[k], at |-> t]]
<1>1. n \in Nat /\ \A k \in 1 .. n : matches[k] \in MatchRecord(Names)
  OBVIOUS
<1>2. ASSUME NEW k \in 1 .. n PROVE [match |-> matches[k], published |-> published[k], at |-> t] \in TapeRecord
  <2>1. \A x \in MatchRecord(Names), y \in BOOLEAN, z \in Nat :
            [match |-> x, published |-> y, at |-> z] \in [match : MatchRecord(Names), published : BOOLEAN, at : Nat]
    BY Zenon
  <2>2. matches[k] \in MatchRecord(Names) /\ published[k] \in BOOLEAN
    BY <1>1
  <2> QED
    BY <2>1, <2>2, Zenon DEF TapeRecord
<1>3. more \in [1 .. n -> TapeRecord]
  BY <1>2
<1>4. \A k \in 1 .. n : more[k].match = matches[k] /\ more[k].at = t
  OBVIOUS
<1> HIDE DEF more, n
<1>5. more \in Seq(TapeRecord) /\ Len(more) = n
  BY <1>1, <1>3
<1> QED
  BY <1>4, <1>5 DEF more, n

\* What an arriving order does to the tape and to its market's book.
LEMMA PlaceOrder ==
    ASSUME IInv, NEW o \in Orders, place_order(o)
    PROVE  LET m == o.marketId
               result == add(order_books[m], o, now)
           IN  /\ m \in DOMAIN order_books /\ MarketBook(order_books[m], m, TX_ID_LUT, now)
               /\ now \in Nat /\ o.txId \in Names /\ ~Known(o.txId, TX_ID_LUT)
               /\ order_books' = [order_books EXCEPT ![m] = result.book]
               /\ TX_ID_LUT' = Append(TX_ID_LUT, o.txId) /\ now' = now /\ creating' = creating
               /\ MarketBook(result.book, m, TX_ID_LUT', now)
               /\ result.matches \in Seq(MatchRecord(Names))
               /\ tape' \in Seq(TapeRecord) /\ Len(tape) \in Nat
               /\ Len(tape') = Len(tape) + Len(result.matches)
               /\ \A k \in 1 .. Len(tape) : tape'[k] = tape[k]
               /\ \A k \in 1 .. Len(tape) + Len(result.matches) :
                      \/ k \in 1 .. Len(tape)
                      \/ /\ k - Len(tape) \in 1 .. Len(result.matches)
                         /\ tape'[k].match = result.matches[k - Len(tape)] /\ tape'[k].at = now
                         /\ GoodFill(tape'[k].match)
<1> DEFINE m == o.marketId
           b == order_books[m]
           result == add(b, o, now)
           n == Len(result.matches)
<1>1. /\ ~order_exists(o.txId) /\ m \in DOMAIN order_books
      /\ order_books' = [order_books EXCEPT ![m] = result.book]
      /\ TX_ID_LUT' = Append(TX_ID_LUT, o.txId) /\ now' = now /\ creating' = creating
      /\ \E published \in [1 .. n -> Outcomes] :
             tape' = tape \o [k \in 1 .. n |->
                                 [match |-> result.matches[k], published |-> published[k], at |-> now]]
  BY DEF place_order
<1>2. ~Known(o.txId, TX_ID_LUT)
  BY <1>1 DEF order_exists, Contains, Known
<1>3. o.txId \in Names /\ now \in Nat
  BY OrdersAssumption DEF OrderRecord, IInv
<1>4. MarketBook(b, m, TX_ID_LUT, now) /\ LutOk(TX_ID_LUT) /\ tape \in Seq(TapeRecord)
  BY <1>1 DEF IInv, BooksInv, TapeInv
<1>5. /\ MarketBook(result.book, m, TX_ID_LUT', now)
      /\ result.matches \in Seq(MatchRecord(Names))
      /\ \A k \in 1 .. n : GoodFill(result.matches[k])
  <2> HIDE DEF b
  <2> QED
    BY <1>1, <1>2, <1>3, <1>4, AddedBook
<1> HIDE DEF result
<1>6. PICK published \in [1 .. n -> BOOLEAN] :
          tape' = tape \o [k \in 1 .. n |-> [match |-> result.matches[k], published |-> published[k], at |-> now]]
  <2>1. \A p \in [1 .. n -> Outcomes] : p \in [1 .. n -> BOOLEAN]
    BY DEF Outcomes
  <2> QED
    BY <1>1, <2>1
<1> DEFINE more == [k \in 1 .. n |-> [match |-> result.matches[k], published |-> published[k], at |-> now]]
<1>7. /\ more \in Seq(TapeRecord) /\ Len(more) = n
      /\ \A k \in 1 .. n : more[k].match = result.matches[k] /\ more[k].at = now
  <2>1. result.matches \in Seq(MatchRecord(Names)) /\ now \in Nat
    BY <1>3, <1>5
  <2>2. LET these == [k \in 1 .. Len(result.matches) |->
                         [match |-> result.matches[k], published |-> published[k], at |-> now]]
        IN  /\ these \in Seq(TapeRecord) /\ Len(these) = Len(result.matches)
            /\ \A k \in 1 .. Len(result.matches) : these[k].match = result.matches[k] /\ these[k].at = now
    BY <2>1, TapedMatches
  <2> QED
    BY <2>2
<1>8. tape' = tape \o more
  BY <1>6
<1> HIDE DEF more, n
<1>9. /\ tape' \in Seq(TapeRecord) /\ Len(tape') = Len(tape) + n /\ Len(tape) \in Nat /\ n \in Nat
      /\ \A k \in 1 .. Len(tape) : tape'[k] = tape[k]
      /\ \A k \in 1 .. n : tape'[Len(tape) + k] = more[k]
      /\ \A k \in 1 .. Len(tape) + n : k \in 1 .. Len(tape) \/ k - Len(tape) \in 1 .. n
  <2>1. LET all == tape \o more
        IN  /\ all \in Seq(TapeRecord) /\ Len(all) = Len(tape) + Len(more) /\ Len(tape) \in Nat /\ Len(more) \in Nat
            /\ \A k \in 1 .. Len(tape) : all[k] = tape[k]
            /\ \A k \in 1 .. Len(more) : all[Len(tape) + k] = more[k]
            /\ \A k \in 1 .. Len(tape) + Len(more) : k \in 1 .. Len(tape) \/ k - Len(tape) \in 1 .. Len(more)
    BY <1>4, <1>7, ConcatFacts, Zenon
  <2> QED
    BY <1>7, <1>8, <2>1, Zenon
<1>10. ASSUME NEW k \in 1 .. Len(tape) + n, k - Len(tape) \in 1 .. n
       PROVE  /\ tape'[k].match = result.matches[k - Len(tape)] /\ tape'[k].at = now
              /\ GoodFill(tape'[k].match)
  <2>1. k = Len(tape) + (k - Len(tape))
    BY <1>9
  <2>2. tape'[k].match = result.matches[k - Len(tape)] /\ tape'[k].at = now
    BY <1>7, <1>9, <1>10, <2>1, ZenonT(60)
  <2> QED
    BY <1>5, <1>10, <2>2 DEF n
<1> QED
  BY <1>1, <1>2, <1>3, <1>4, <1>5, <1>9, <1>10 DEF n, result

\* Nothing is there at the start.
LEMMA InitInv == Init => IInv
<1> SUFFICES ASSUME Init PROVE IInv
  OBVIOUS
<1>1. order_books = <<>> /\ TX_ID_LUT = <<>> /\ tape = <<>> /\ now = 0 /\ creating = [m \in MarketIds |-> 0]
  BY DEF Init
<1>2. DOMAIN order_books = {} /\ order_books = [m \in DOMAIN order_books |-> order_books[m]]
  BY <1>1
<1>3. BooksInv
  BY <1>2 DEF BooksInv
<1>4. Len(<<>>) = 0 /\ 1 .. 0 = {} /\ <<>> \in Seq(TapeRecord) /\ <<>> \in Seq(Names)
  OBVIOUS
<1>5. TapeInv /\ LutOk(TX_ID_LUT)
  BY <1>1, <1>4 DEF TapeInv, LutOk
<1>6. creating \in [MarketIds -> 0 .. MaxCreates] /\ now \in 0 .. MaxTime
  BY <1>1, OrdersAssumption
<1> QED
  BY <1>3, <1>5, <1>6 DEF IInv

\* Every step keeps the invariant.
LEMMA NextInv == IInv /\ [Next]_vars => IInv'
<1> SUFFICES ASSUME IInv, [Next]_vars PROVE IInv'
  OBVIOUS
<1>1. /\ BooksInv /\ TapeInv /\ LutOk(TX_ID_LUT)
      /\ creating \in [MarketIds -> 0 .. MaxCreates] /\ now \in 0 .. MaxTime
      /\ MaxCreates \in Nat /\ MaxTime \in Nat
  BY OrdersAssumption DEF IInv
<1>2. /\ order_books = [m \in DOMAIN order_books |-> order_books[m]]
      /\ DOMAIN order_books \subseteq MarketIds
      /\ \A m \in DOMAIN order_books : MarketBook(order_books[m], m, TX_ID_LUT, now)
  BY <1>1 DEF BooksInv
<1>3. ASSUME UNCHANGED <<TX_ID_LUT, tape>> PROVE TapeInv' /\ LutOk(TX_ID_LUT)'
  BY <1>1, <1>3 DEF TapeInv, LutOk
<1>4. ASSUME NEW m \in MarketIds, add_market_check(m) PROVE IInv'
  <2>1. /\ UNCHANGED <<order_books, TX_ID_LUT, tape, now>>
        /\ creating[m] < MaxCreates /\ creating' = [creating EXCEPT ![m] = @ + 1]
    BY <1>4 DEF add_market_check
  <2>2. creating' \in [MarketIds -> 0 .. MaxCreates]
    BY <1>1, <2>1
  <2>3. BooksInv'
    BY <1>2, <2>1 DEF BooksInv
  <2> QED
    BY <1>1, <1>3, <2>1, <2>2, <2>3 DEF IInv
<1>5. ASSUME NEW m \in MarketIds, add_market_insert(m) PROVE IInv'
  <2>1. /\ UNCHANGED <<TX_ID_LUT, tape, now>>
        /\ creating[m] > 0 /\ creating' = [creating EXCEPT ![m] = @ - 1]
        /\ order_books' = [n \in DOMAIN order_books \cup {m} |-> IF n = m THEN EmptyBook ELSE order_books[n]]
    BY <1>5 DEF add_market_insert
  <2>2. creating' \in [MarketIds -> 0 .. MaxCreates]
    BY <1>1, <2>1
  <2>3. DOMAIN order_books' = DOMAIN order_books \cup {m}
        /\ order_books' = [n \in DOMAIN order_books' |-> order_books'[n]]
    BY <2>1
  <2>4. ASSUME NEW n \in DOMAIN order_books' PROVE MarketBook(order_books'[n], n, TX_ID_LUT', now')
    <3>1. CASE n = m
      <4>1. order_books'[n] = EmptyBook
        BY <2>1, <2>3, <3>1
      <4> QED
        BY <4>1, NewBook
    <3>2. CASE n # m
      <4>1. order_books'[n] = order_books[n] /\ n \in DOMAIN order_books
        BY <2>1, <2>3, <3>2
      <4> QED
        BY <1>2, <2>1, <4>1
    <3> QED
      BY <3>1, <3>2
  <2>5. BooksInv'
    BY <1>2, <2>3, <2>4 DEF BooksInv
  <2> QED
    BY <1>1, <1>3, <2>1, <2>2, <2>5 DEF IInv
<1>6. ASSUME NEW m \in MarketIds, close_market(m) PROVE IInv'
  <2>1. /\ UNCHANGED <<TX_ID_LUT, creating, tape, now>>
        /\ order_books' = [n \in DOMAIN order_books \ {m} |-> order_books[n]]
    BY <1>6 DEF close_market, Restrict
  <2>2. DOMAIN order_books' = DOMAIN order_books \ {m}
        /\ order_books' = [n \in DOMAIN order_books' |-> order_books'[n]]
        /\ \A n \in DOMAIN order_books' : order_books'[n] = order_books[n]
    BY <2>1
  <2>3. BooksInv'
    BY <1>2, <2>1, <2>2 DEF BooksInv
  <2> QED
    BY <1>1, <1>3, <2>1, <2>3 DEF IInv
<1>7. ASSUME NEW o \in Orders, place_order(o) PROVE IInv'
  <2> DEFINE m == o.marketId
             result == add(order_books[m], o, now)
             n == Len(result.matches)
  <2>1. /\ m \in DOMAIN order_books
        /\ now \in Nat /\ o.txId \in Names /\ ~Known(o.txId, TX_ID_LUT)
        /\ order_books' = [order_books EXCEPT ![m] = result.book]
        /\ TX_ID_LUT' = Append(TX_ID_LUT, o.txId) /\ now' = now /\ creating' = creating
        /\ MarketBook(result.book, m, TX_ID_LUT', now)
        /\ result.matches \in Seq(MatchRecord(Names))
        /\ tape' \in Seq(TapeRecord) /\ Len(tape') = Len(tape) + n
        /\ \A k \in 1 .. Len(tape) : tape'[k] = tape[k]
        /\ \A k \in 1 .. Len(tape) + n : k \in 1 .. Len(tape) \/ GoodFill(tape'[k].match)
    BY <1>7, PlaceOrder
  <2> HIDE DEF result, m
  <2>2. LutOk(TX_ID_LUT') /\ Continues(TX_ID_LUT', TX_ID_LUT)
    BY <1>1, <2>1, Arrival
  <2>3. /\ DOMAIN order_books' = DOMAIN order_books
        /\ order_books' = [x \in DOMAIN order_books' |-> order_books'[x]]
        /\ order_books'[m] = result.book
        /\ \A x \in DOMAIN order_books \ {m} : order_books'[x] = order_books[x]
    BY <1>2, <2>1
  <2>4. ASSUME NEW x \in DOMAIN order_books' PROVE MarketBook(order_books'[x], x, TX_ID_LUT', now')
    <3>1. CASE x = m
      BY <2>1, <2>3, <3>1
    <3>2. CASE x # m
      <4>1. order_books'[x] = order_books[x] /\ MarketBook(order_books[x], x, TX_ID_LUT, now)
        BY <1>2, <2>3, <3>2
      <4>2. now' \in Nat /\ now <= now'
        BY <2>1
      <4> QED
        BY <2>1, <2>2, <4>1, <4>2, BookStays
    <3> QED
      BY <3>1, <3>2
  <2>5. BooksInv'
    BY <1>2, <2>3, <2>4 DEF BooksInv
  <2>6. TapeInv'
    <3>1. \A k \in 1 .. Len(tape) : GoodFill(tape[k].match)
      BY <1>1 DEF TapeInv
    <3> QED
      BY <2>1, <3>1 DEF TapeInv
  <2>7. LutOk(TX_ID_LUT)'
    BY <2>2 DEF LutOk
  <2> QED
    BY <1>1, <2>1, <2>5, <2>6, <2>7 DEF IInv
<1>8. ASSUME NEW o \in Orders, cancel_order(o.marketId, o.txId) PROVE IInv'
  <2> DEFINE m == o.marketId
  <2>1. /\ m \in DOMAIN order_books /\ UNCHANGED <<TX_ID_LUT, creating, tape, now>>
        /\ order_books' = [order_books EXCEPT ![m] = remove(order_books[m], o.txId)]
    BY <1>8 DEF cancel_order
  <2> HIDE DEF m
  <2>2. /\ DOMAIN order_books' = DOMAIN order_books
        /\ order_books' = [x \in DOMAIN order_books' |-> order_books'[x]]
        /\ order_books'[m] = remove(order_books[m], o.txId)
        /\ \A x \in DOMAIN order_books \ {m} : order_books'[x] = order_books[x]
    BY <1>2, <2>1
  <2>3. MarketBook(order_books'[m], m, TX_ID_LUT, now)
    BY <1>2, <2>1, <2>2, RemovedBook
  <2>4. BooksInv'
    BY <1>2, <2>1, <2>2, <2>3 DEF BooksInv
  <2> QED
    BY <1>1, <1>3, <2>1, <2>4 DEF IInv
<1>9. ASSUME Tick PROVE IInv'
  <2>1. /\ now < MaxTime /\ now' = now + 1
        /\ UNCHANGED <<order_books, TX_ID_LUT, creating, tape>>
    BY <1>9 DEF Tick
  <2>2. now \in Nat /\ now' \in Nat /\ now <= now' /\ now' \in 0 .. MaxTime
    BY <1>1, <2>1
  <2>3. Continues(TX_ID_LUT, TX_ID_LUT)
    BY DEF Continues
  <2>4. \A m \in DOMAIN order_books : MarketBook(order_books[m], m, TX_ID_LUT, now')
    BY <1>2, <2>2, <2>3, BookStays
  <2>5. BooksInv'
    BY <1>2, <2>1, <2>4 DEF BooksInv
  <2> QED
    BY <1>1, <1>3, <2>1, <2>2, <2>5 DEF IInv
<1>10. ASSUME UNCHANGED vars PROVE IInv'
  <2>1. UNCHANGED <<order_books, TX_ID_LUT, creating, tape, now>>
    BY <1>10 DEF vars
  <2>2. BooksInv'
    BY <1>2, <2>1 DEF BooksInv
  <2> QED
    BY <1>1, <1>3, <2>1, <2>2 DEF IInv
<1> QED
  BY <1>4, <1>5, <1>6, <1>7, <1>8, <1>9, <1>10 DEF Next

-----------------------------------------------------------------------------
(* What follows from the invariant. *)

\* The invariant holds throughout: nothing any arrival, cancellation, closing,
\* re-creation of a market or passing of time does to the books breaks it.
THEOREM BooksInvariant == Spec => []IInv
<1>1. Init => IInv
  BY InitInv
<1>2. IInv /\ [Next]_vars => IInv'
  BY NextInv
<1> QED
  BY <1>1, <1>2, PTL DEF Spec

\* An order on a book is a typed one, and has its id from an arrival.
LEMMA OnBook ==
    ASSUME IInv, NEW m \in Open
    PROVE  /\ Range(order_books[m].bids) = {order_books[m].bids[i] : i \in 1 .. Len(order_books[m].bids)}
           /\ Range(order_books[m].asks) = {order_books[m].asks[i] : i \in 1 .. Len(order_books[m].asks)}
           /\ \A i \in 1 .. Len(order_books[m].bids) :
                  LET o == order_books[m].bids[i]
                  IN  o \in OrderRecord(Names) /\ remaining_shares(o) > 0 /\ is_bid(o) /\ Placed(o, m, TX_ID_LUT)
           /\ \A i \in 1 .. Len(order_books[m].asks) :
                  LET o == order_books[m].asks[i]
                  IN  o \in OrderRecord(Names) /\ remaining_shares(o) > 0 /\ ~is_bid(o) /\ Placed(o, m, TX_ID_LUT)
<1> DEFINE b == order_books[m]
<1>1. BookOk(b, Names) /\ Sides(b, m, TX_ID_LUT)
  BY DEF IInv, BooksInv, MarketBook, Sides, Open
<1> HIDE DEF b
<1>2. /\ b.bids \in Seq(OrderRecord(Names)) /\ \A i \in 1 .. Len(b.bids) : remaining_shares(b.bids[i]) > 0
      /\ b.asks \in Seq(OrderRecord(Names)) /\ \A i \in 1 .. Len(b.asks) : remaining_shares(b.asks[i]) > 0
  BY <1>1 DEF BookOk, SideOk
<1>3. DOMAIN b.bids = 1 .. Len(b.bids) /\ DOMAIN b.asks = 1 .. Len(b.asks)
  BY <1>2
<1>4. /\ Range(b.bids) = {b.bids[i] : i \in 1 .. Len(b.bids)}
      /\ Range(b.asks) = {b.asks[i] : i \in 1 .. Len(b.asks)}
  BY <1>3 DEF Range
<1>5. /\ \A i \in 1 .. Len(b.bids) : b.bids[i] \in OrderRecord(Names)
      /\ \A i \in 1 .. Len(b.asks) : b.asks[i] \in OrderRecord(Names)
  BY <1>2
<1> QED
  BY <1>1, <1>2, <1>4, <1>5 DEF Sides, b

\* The books hold orders of their own market, on their own side and with
\* something left, no order rests twice on a book, and no transaction id is let
\* in twice (order_exists and place_order, orderbook.rs).
THEOREM BooksTyped == Spec => []TypeOK
<1>1. IInv => TypeOK
  <2> SUFFICES ASSUME IInv PROVE TypeOK
    OBVIOUS
  <2>1. Open \subseteq MarketIds /\ creating \in [MarketIds -> 0 .. MaxCreates] /\ now \in 0 .. MaxTime
    BY DEF IInv, BooksInv, Open
  <2>2. IsInjective(TX_ID_LUT)
    <3>1. TX_ID_LUT \in Seq(Names) /\ \A i, j \in 1 .. Len(TX_ID_LUT) : TX_ID_LUT[i] = TX_ID_LUT[j] => i = j
      BY DEF IInv, LutOk
    <3>2. DOMAIN TX_ID_LUT = 1 .. Len(TX_ID_LUT)
      BY <3>1
    <3> QED
      BY <3>1, <3>2 DEF IsInjective
  <2>3. ASSUME NEW m \in Open
        PROVE  /\ \A o \in Range(order_books[m].bids) : is_bid(o)
               /\ \A o \in Range(order_books[m].asks) : ~is_bid(o)
               /\ \A o \in Resting(m) : o.marketId = m /\ remaining_shares(o) > 0
    <3> DEFINE bids == order_books[m].bids
               asks == order_books[m].asks
    <3>1. Range(bids) = {bids[i] : i \in 1 .. Len(bids)} /\ Range(asks) = {asks[i] : i \in 1 .. Len(asks)}
      BY <2>3, OnBook
    <3>2. /\ \A i \in 1 .. Len(bids) : is_bid(bids[i]) /\ bids[i].marketId = m /\ remaining_shares(bids[i]) > 0
          /\ \A i \in 1 .. Len(asks) : ~is_bid(asks[i]) /\ asks[i].marketId = m /\ remaining_shares(asks[i]) > 0
      BY <2>3, OnBook DEF Placed
    <3>3. Resting(m) = Range(bids) \cup Range(asks)
      BY DEF Resting
    <3> HIDE DEF bids, asks
    <3>4. /\ \A o \in Range(bids) : is_bid(o) /\ o.marketId = m /\ remaining_shares(o) > 0
          /\ \A o \in Range(asks) : ~is_bid(o) /\ o.marketId = m /\ remaining_shares(o) > 0
      BY <3>1, <3>2
    <3> QED
      BY <3>3, <3>4 DEF bids, asks
  <2>4. ASSUME NEW m \in Open
        PROVE  LET both == order_books[m].bids \o order_books[m].asks
               IN  \A i, j \in 1 .. Len(both) : both[i].txId = both[j].txId => i = j
    <3> DEFINE bids == order_books[m].bids
               asks == order_books[m].asks
               both == bids \o asks
    <3>1. /\ \A i \in 1 .. Len(bids) : is_bid(bids[i]) /\ Placed(bids[i], m, TX_ID_LUT)
          /\ \A i \in 1 .. Len(asks) : ~is_bid(asks[i]) /\ Placed(asks[i], m, TX_ID_LUT)
      BY OnBook
    <3>2. /\ bids \in Seq(OrderRecord(Names)) /\ asks \in Seq(OrderRecord(Names))
          /\ AsArrived(bids, TX_ID_LUT) /\ AsArrived(asks, TX_ID_LUT)
      BY DEF IInv, BooksInv, MarketBook, Sides, BookOk, SideOk, Open
    <3> HIDE DEF bids, asks
    <3>3. /\ Len(both) = Len(bids) + Len(asks) /\ Len(bids) \in Nat /\ Len(asks) \in Nat
          /\ \A i \in 1 .. Len(bids) : both[i] = bids[i]
          /\ \A i \in 1 .. Len(asks) : both[Len(bids) + i] = asks[i]
          /\ \A i \in 1 .. Len(bids) + Len(asks) : i \in 1 .. Len(bids) \/ i - Len(bids) \in 1 .. Len(asks)
      BY <3>2, ConcatFacts
    <3>4. ASSUME NEW i \in 1 .. Len(bids), NEW j \in 1 .. Len(asks), bids[i].txId = asks[j].txId
          PROVE  FALSE
      <4>1. PICK o \in Orders : SameTerms(bids[i], o)
        BY <3>1 DEF Placed
      <4>2. PICK p \in Orders : SameTerms(asks[j], p)
        BY <3>1 DEF Placed
      <4>3. o = p
        <5>1. bids[i].txId = o.txId /\ asks[j].txId = p.txId
          BY <4>1, <4>2 DEF SameTerms
        <5>2. \A x, y \in Orders : x.txId = y.txId => x = y
          BY OrdersAssumption
        <5> QED
          BY <3>4, <5>1, <5>2
      <4> QED
        BY <3>1, <4>1, <4>2, <4>3 DEF SameTerms, is_bid
    <3> HIDE DEF both
    <3>5. ASSUME NEW s, AsArrived(s, TX_ID_LUT), Len(s) \in Nat, NEW i \in 1 .. Len(s), NEW j \in 1 .. Len(s),
                 s[i].txId = s[j].txId
          PROVE  i = j
      <4>1. ~(i < j) /\ ~(j < i)
        BY <3>5 DEF AsArrived
      <4> QED
        BY <4>1
    <3>6. ASSUME NEW i \in 1 .. Len(both), NEW j \in 1 .. Len(both), both[i].txId = both[j].txId
          PROVE  i = j
      <4>1. \A k \in 1 .. Len(both) :
                \/ k \in 1 .. Len(bids) /\ both[k] = bids[k]
                \/ k - Len(bids) \in 1 .. Len(asks) /\ both[k] = asks[k - Len(bids)]
        BY <3>3
      <4>2. CASE i \in 1 .. Len(bids) /\ both[i] = bids[i] /\ j \in 1 .. Len(bids) /\ both[j] = bids[j]
        BY <3>2, <3>3, <3>5, <3>6, <4>2
      <4>3. CASE /\ i - Len(bids) \in 1 .. Len(asks) /\ both[i] = asks[i - Len(bids)]
                 /\ j - Len(bids) \in 1 .. Len(asks) /\ both[j] = asks[j - Len(bids)]
        <5>1. i - Len(bids) = j - Len(bids)
          BY <3>2, <3>3, <3>5, <3>6, <4>3
        <5> QED
          BY <3>3, <5>1
      <4>4. CASE /\ i \in 1 .. Len(bids) /\ both[i] = bids[i]
                 /\ j - Len(bids) \in 1 .. Len(asks) /\ both[j] = asks[j - Len(bids)]
        BY <3>4, <3>6, <4>4
      <4>5. CASE /\ j \in 1 .. Len(bids) /\ both[j] = bids[j]
                 /\ i - Len(bids) \in 1 .. Len(asks) /\ both[i] = asks[i - Len(bids)]
        BY <3>4, <3>6, <4>5
      <4> QED
        BY <4>1, <4>2, <4>3, <4>4, <4>5
    <3> QED
      BY <3>6 DEF both, bids, asks
  <2> QED
    BY <2>1, <2>2, <2>3, <2>4 DEF TypeOK
<1> QED
  BY <1>1, BooksInvariant, PTL

\* Two orders that can not be filled against each other are unmatchable.
LEMMA HopelessUnmatchable ==
    ASSUME NEW bid \in OrderRecord(Names), NEW ask \in OrderRecord(Names)
    PROVE  /\ Hopeless(bid, ask) => Unmatchable(bid, ask, ask, bid)
           /\ Hopeless(ask, bid) => Unmatchable(bid, ask, bid, ask)
<1>1. \A price : NoFill(ask, bid, price) => NoFill(bid, ask, price)
  BY NoFillSymmetric
<1>2. same_trader(ask, bid) => same_trader(bid, ask)
  BY DEF same_trader
<1>3. Hopeless(bid, ask) => Unmatchable(bid, ask, ask, bid)
  BY DEF Hopeless, NoFill, Least, Unmatchable
<1>4. ASSUME Hopeless(ask, bid) PROVE Unmatchable(bid, ask, bid, ask)
  <2>1. same_trader(bid, ask) \/ execution_price(bid, ask) = None \/ NoFill(bid, ask, execution_price(bid, ask))
    BY <1>1, <1>2, <1>4 DEF Hopeless
  <2> QED
    BY <2>1 DEF NoFill, Least, Unmatchable
<1> QED
  BY <1>3, <1>4

\* Whatever arrives, is cut short by a cap, is skipped, expires or is cancelled:
\* two orders are never left crossed on the book while a fill between them is
\* possible (Book::add, matching.rs).
THEOREM NothingLeftBehind == Spec => []CrossedOnlyIfUnmatchable
<1>1. IInv => CrossedOnlyIfUnmatchable
  <2> SUFFICES ASSUME IInv, NEW m \in Open,
                      NEW bid \in Range(order_books[m].bids), NEW ask \in Range(order_books[m].asks),
                      crosses(bid, ask)
               PROVE  IF ArrivedBefore(bid, ask) THEN Unmatchable(bid, ask, bid, ask)
                      ELSE Unmatchable(bid, ask, ask, bid)
    BY DEF CrossedOnlyIfUnmatchable
  <2>1. PICK i \in 1 .. Len(order_books[m].bids) : bid = order_books[m].bids[i]
    <3>1. Range(order_books[m].bids) = {order_books[m].bids[k] : k \in 1 .. Len(order_books[m].bids)}
      BY OnBook
    <3> QED
      BY <3>1, Zenon
  <2>2. PICK j \in 1 .. Len(order_books[m].asks) : ask = order_books[m].asks[j]
    <3>1. Range(order_books[m].asks) = {order_books[m].asks[k] : k \in 1 .. Len(order_books[m].asks)}
      BY OnBook
    <3> QED
      BY <3>1, Zenon
  <2>3. bid \in OrderRecord(Names) /\ ask \in OrderRecord(Names)
    BY <2>1, <2>2, OnBook
  <2>4. Uncrossed(order_books[m], TX_ID_LUT, now)
    BY DEF IInv, BooksInv, MarketBook, Open
  <2>5. IF Before(bid, ask, TX_ID_LUT) THEN Barred(bid, ask, now) ELSE Barred(ask, bid, now)
    BY <2>1, <2>2, <2>4 DEF Uncrossed
  <2>6. ArrivedBefore(bid, ask) <=> Before(bid, ask, TX_ID_LUT)
    BY DEF ArrivedBefore, Before
  <2>7. Barred(bid, ask, now) => Unmatchable(bid, ask, bid, ask)
    <3>1. Expired(bid, now) => Unmatchable(bid, ask, bid, ask)
      BY DEF Unmatchable
    <3> QED
      BY <2>3, <3>1, HopelessUnmatchable DEF Barred
  <2>8. Barred(ask, bid, now) => Unmatchable(bid, ask, ask, bid)
    <3>1. Expired(ask, now) => Unmatchable(bid, ask, ask, bid)
      BY DEF Unmatchable
    <3> QED
      BY <2>3, <3>1, HopelessUnmatchable DEF Barred
  <2> QED
    BY <2>5, <2>6, <2>7, <2>8
<1> QED
  BY <1>1, BooksInvariant, PTL

\* The matches of an arrival are made in turn.
LEMMA ArrivalInTurn ==
    ASSUME IInv, NEW o \in Orders, place_order(o), NEW k \in (Len(tape) + 1) .. Len(tape')
    PROVE  FilledInTurn(k)
<1> DEFINE m == o.marketId
           b == order_books[m]
           result == add(b, o, now)
           b2 == result.book
           opposite == Facing(b, o)
           kept == Facing(b2, o)
           match == tape'[k].match
           own == Own(match, o)
           hit == Other(match, o)
           lut == TX_ID_LUT
<1>1. /\ m \in DOMAIN order_books /\ MarketBook(b, m, lut, now)
      /\ ~Known(o.txId, lut) /\ o.txId \in Names
      /\ order_books' = [order_books EXCEPT ![m] = b2]
      /\ TX_ID_LUT' = Append(lut, o.txId)
      /\ MarketBook(b2, m, TX_ID_LUT', now)
      /\ result.matches \in Seq(MatchRecord(Names)) /\ Len(tape) \in Nat
      /\ Len(tape') = Len(tape) + Len(result.matches)
      /\ \A l \in 1 .. Len(tape) + Len(result.matches) :
             \/ l \in 1 .. Len(tape)
             \/ /\ l - Len(tape) \in 1 .. Len(result.matches)
                /\ tape'[l].match = result.matches[l - Len(tape)]
  BY PlaceOrder
<1> HIDE DEF result
<1>2. k - Len(tape) \in 1 .. Len(result.matches) /\ match = result.matches[k - Len(tape)]
  <2>1. k \in 1 .. Len(tape) + Len(result.matches) /\ k \notin 1 .. Len(tape)
    BY <1>1
  <2> QED
    BY <1>1, <2>1
<1>3. LutOk(lut) /\ TX_ID_LUT'[Len(TX_ID_LUT')] = o.txId
  <2>1. LutOk(lut)
    BY DEF IInv
  <2> QED
    BY <1>1, <2>1, Arrival
<1>4. o \in OrderRecord(Names)
  BY OrdersAssumption
<1>5. \E own0, place : Matched(b, o, own0, place, result, Names)
  <2>1. BookOk(b, Names)
    BY <1>1 DEF MarketBook, Sides
  <2>2. result.matches # <<>>
    BY <1>2
  <2>3. \/ result = [book |-> b, matches |-> <<>>]
        \/ \E own0, place : Matched(b, o, own0, place, result, Names)
    <3> HIDE DEF b
    <3> QED
      BY <1>4, <2>1, AddOutcome DEF result
  <2> QED
    BY <2>2, <2>3
<1>6. PICK own0, place : Matched(b, o, own0, place, result, Names)
  BY <1>5
<1> HIDE DEF m, b, b2, match
<1>7. Left(kept, place, opposite) /\ InTurn(match, kept, place, opposite, o)
  BY <1>2, <1>6 DEF Matched, b2
<1> HIDE DEF opposite, kept, lut, own, hit
<1>8. PICK h \in 1 .. Len(opposite) :
          /\ SameTerms(hit, opposite[h])
          /\ \A i \in 1 .. Len(kept) : Better(opposite, is_bid(o), place[i], h) => Hopeless(own, kept[i])
  BY <1>7 DEF InTurn, own, hit
<1>9. SameTerms(own, o)
  BY <1>7 DEF InTurn, own
<1>10. /\ Sides(b, m, lut) /\ Sides(b2, m, TX_ID_LUT')
  BY <1>1 DEF MarketBook
<1>11. /\ SideOk(opposite, Names) /\ AsArrived(opposite, lut) /\ SideOk(kept, Names)
       /\ \A i \in 1 .. Len(opposite) : Placed(opposite[i], m, lut)
  <2>1. CASE is_bid(o)
    BY <1>10, <2>1 DEF Sides, BookOk, opposite, kept, Facing
  <2>2. CASE ~is_bid(o)
    BY <1>10, <2>2 DEF Sides, BookOk, opposite, kept, Facing
  <2> QED
    BY <2>1, <2>2
<1>12. /\ opposite \in Seq(OrderRecord(Names)) /\ kept \in Seq(OrderRecord(Names))
       /\ Len(opposite) \in Nat /\ Range(kept) = {kept[i] : i \in 1 .. Len(kept)}
  <2>1. opposite \in Seq(OrderRecord(Names)) /\ kept \in Seq(OrderRecord(Names))
    BY <1>11 DEF SideOk
  <2>2. DOMAIN kept = 1 .. Len(kept)
    BY <2>1
  <2>3. Range(kept) = {kept[i] : i \in 1 .. Len(kept)}
    BY <2>2 DEF Range
  <2> QED
    BY <2>1, <2>3
<1>13. own.txId = o.txId /\ hit.txId # o.txId /\ own.marketId = m /\ (is_bid(own) <=> is_bid(o))
  <2>1. Known(opposite[h].txId, lut)
    BY <1>8, <1>11 DEF Placed
  <2>2. hit.txId = opposite[h].txId
    BY <1>8 DEF SameTerms
  <2> QED
    BY <1>1, <1>9, <2>1, <2>2 DEF SameTerms, is_bid, m
<1>14. own \in OrderRecord(Names)
  <2>1. match \in MatchRecord(Names)
    BY <1>1, <1>2
  <2> QED
    BY <2>1 DEF MatchRecord, Own, own
<1>15. ASSUME NEW i \in 1 .. Len(kept), kept[i].txId # hit.txId,
              IF kept[i].limitYesPrice = hit.limitYesPrice THEN Before(kept[i], hit, lut)
              ELSE (kept[i].limitYesPrice < hit.limitYesPrice) = is_bid(o)
       PROVE  Hopeless(own, kept[i])
  <2> DEFINE p == opposite[place[i]]
             q == opposite[h]
  <2>1. place[i] \in 1 .. Len(opposite) /\ Aged(kept[i], p)
    BY <1>7 DEF Left
  <2>2. p \in OrderRecord(Names) /\ q \in OrderRecord(Names)
    BY <1>12, <2>1
  <2>3. p.limitYesPrice \in Int /\ q.limitYesPrice \in Int
    BY <2>2, MatchingAssumption, SMTT(60) DEF OrderRecord
  <2>4. /\ kept[i].limitYesPrice = p.limitYesPrice /\ kept[i].txId = p.txId
        /\ hit.limitYesPrice = q.limitYesPrice /\ hit.txId = q.txId
    BY <1>8, <2>1 DEF Aged, SameTerms
  <2>5. CASE p.limitYesPrice # q.limitYesPrice
    <3>1. IF is_bid(o) THEN p.limitYesPrice < q.limitYesPrice ELSE ~(p.limitYesPrice < q.limitYesPrice)
      <4>1. ((p.limitYesPrice < q.limitYesPrice) = is_bid(o)) /\ is_bid(o) \in BOOLEAN
        BY <1>15, <2>4, <2>5 DEF is_bid
      <4> QED
        BY <4>1
    <3>2. IF is_bid(o) THEN p.limitYesPrice < q.limitYesPrice ELSE q.limitYesPrice < p.limitYesPrice
      <4>1. p.limitYesPrice < q.limitYesPrice \/ q.limitYesPrice < p.limitYesPrice
        BY <2>3, <2>5
      <4> QED
        BY <3>1, <4>1
    <3>3. Better(opposite, is_bid(o), place[i], h)
      BY <2>5, <3>2 DEF Better
    <3> QED
      BY <1>8, <3>3
  <2>6. CASE p.limitYesPrice = q.limitYesPrice
    <3>1. Before(p, q, lut)
      BY <1>15, <2>4, <2>6 DEF Before
    <3>2. p.txId # q.txId
      BY <1>15, <2>4
    <3>3. place[i] # h
      BY <3>2
    <3>4. ~(h < place[i])
      <4>1. h < place[i] => Before(q, p, lut)
        BY <1>11, <2>1, <2>6 DEF AsArrived
      <4> QED
        BY <1>3, <3>1, <4>1, BeforeOneWay
    <3>5. place[i] < h
      BY <1>12, <2>1, <3>3, <3>4
    <3>6. Better(opposite, is_bid(o), place[i], h)
      BY <2>6, <3>5 DEF Better
    <3> QED
      BY <1>8, <3>6
  <2> QED
    BY <2>5, <2>6
\* The names of FilledInTurn.
<1>16. /\ own = IF match.bid.txId = o.txId THEN match.bid ELSE match.ask
       /\ hit = IF match.bid.txId = o.txId THEN match.ask ELSE match.bid
  <2>1. CASE is_bid(o)
    BY <1>13, <2>1 DEF Own, Other, own, hit
  <2>2. CASE ~is_bid(o)
    BY <1>13, <2>2 DEF Own, Other, own, hit
  <2> QED
    BY <2>1, <2>2
<1>17. kept = IF is_bid(own) THEN order_books'[own.marketId].asks ELSE order_books'[own.marketId].bids
  <2>1. order_books'[own.marketId] = b2
    <3>1. order_books = [n \in DOMAIN order_books |-> order_books[n]]
      BY DEF IInv, BooksInv
    <3> QED
      BY <1>1, <1>13, <3>1
  <2> QED
    BY <1>13, <2>1 DEF Facing, kept
<1>18. ASSUME NEW x \in Range(kept), x.txId # hit.txId,
              IF x.limitYesPrice = hit.limitYesPrice THEN ArrivedBefore(x, hit)
              ELSE (x.limitYesPrice < hit.limitYesPrice) = is_bid(own)
       PROVE  IF is_bid(own) THEN Unmatchable(own, x, x, own) ELSE Unmatchable(x, own, x, own)
  <2>1. PICK i \in 1 .. Len(kept) : x = kept[i]
    BY <1>12, Zenon
  <2>2. x \in OrderRecord(Names)
    BY <1>12, <2>1
  <2>3. ArrivedBefore(x, hit) <=> Before(x, hit, lut)
    BY DEF ArrivedBefore, Before, lut
  <2>4. is_bid(own) = is_bid(o)
    BY <1>13 DEF is_bid
  <2>5. Hopeless(own, x)
    BY <1>15, <1>18, <2>1, <2>3, <2>4
  <2> QED
    BY <1>14, <2>2, <2>5, HopelessUnmatchable
<1> QED
  BY <1>3, <1>16, <1>17, <1>18 DEF FilledInTurn, match

\* An arriving order is matched against the best price first and, of equal
\* prices, the earliest arrival, although no arrival time is kept and the book is
\* sorted anew on every arrival (Book::add, matching.rs).
THEOREM PriceTimeOrder == Spec => PriceTimePriority
<1> DEFINE InTurnStep == \A k \in (Len(tape) + 1) .. Len(tape') : FilledInTurn(k)
<1>1. IInv /\ [Next]_vars => [InTurnStep]_vars
  <2> SUFFICES ASSUME IInv, Next PROVE InTurnStep
    OBVIOUS
  <2>1. tape \in Seq(TapeRecord)
    BY DEF IInv, TapeInv
  <2>2. tape' = tape => InTurnStep
    <3>1. Len(tape) \in Nat /\ (Len(tape) + 1) .. Len(tape) = {}
      BY <2>1
    <3> QED
      BY <3>1
  <2>3. CASE \E o \in Orders : place_order(o)
    BY <2>3, ArrivalInTurn
  <2>4. CASE ~ \E o \in Orders : place_order(o)
    <3>1. tape' = tape
      BY <2>4 DEF Next, add_market_check, add_market_insert, close_market, cancel_order, Tick
    <3> QED
      BY <2>2, <3>1
  <2> QED
    BY <2>3, <2>4
<1> QED
  BY <1>1, BooksInvariant, PTL DEF Spec, PriceTimePriority
-----------------------------------------------------------------------------
(* What the fills have taken from an order. *)

\* A fill that the contract takes too when it is executed in time: two traders
\* on the two sides of one market, neither authorization about to expire, and
\* something to pay on both legs.
SoundFill(match, t) ==
    /\ match.bid.marketId = match.ask.marketId
    /\ is_bid(match.bid) /\ ~is_bid(match.ask)
    /\ ~same_trader(match.bid, match.ask)
    /\ ~Expired(match.bid, t) /\ ~Expired(match.ask, t)
    /\ split_collateral(match.fillShares, match.executionYesPrice)

FillRecord ==
    [bid : OrderRecord(Names), ask : OrderRecord(Names),
     fillShares : Nat \ {0}, executionYesPrice : 1 .. (PRICE_SCALE - 1)]

\* What the first n of some fills take.
SharesIn(M, txId, n) == SumFunction([k \in 1 .. n |-> SharesTaken(M[k], txId)])
CollateralIn(M, o, n) == SumFunction([k \in 1 .. n |-> CollateralTaken(M[k], o)])

\* The fill state of o is that of the order that arrived and what the first n
\* fills took from it.
Booked(o, M, n) ==
    \E p \in Orders :
        /\ SameTerms(o, p)
        /\ o.sharesFilled = p.sharesFilled + SharesIn(M, p.txId, n)
        /\ o.collateralFilled = p.collateralFilled + CollateralIn(M, p, n)

\* Every fill records the state of its two orders before it.
Ledger(M) == \A k \in 1 .. Len(M) : Booked(M[k].bid, M, k - 1) /\ Booked(M[k].ask, M, k - 1)

Within(M, p) ==
    /\ p.sharesFilled + SharesIn(M, p.txId, Len(M)) <= p.qtyShares
    /\ p.action = "BUY" => p.collateralFilled + CollateralIn(M, p, Len(M)) <= p.collateralCap

\* One more number to add up.
LEMMA PrefixSum ==
    ASSUME NEW n \in Nat, NEW w \in [1 .. n + 1 -> Nat]
    PROVE  /\ SumFunction([k \in 1 .. n |-> w[k]]) \in Nat
           /\ SumFunction(w) = SumFunction([k \in 1 .. n |-> w[k]]) + w[n + 1]
<1> DEFINE v == [k \in 1 .. n |-> w[k]]
<1>1. DOMAIN w = 1 .. n + 1 /\ DOMAIN v = 1 .. n /\ \A k \in 1 .. n : v[k] = w[k] /\ v[k] \in Nat /\ w[k] \in Nat
  OBVIOUS
<1>2. (1 .. n) \cup {n + 1} = 1 .. n + 1 /\ n + 1 \notin 1 .. n /\ w[n + 1] \in Nat
  OBVIOUS
<1>3. IsFiniteSet(1 .. n)
  BY FS_Interval
<1> HIDE DEF v
<1>4. SumFunction(v) = SumFunctionOnSet(v, 1 .. n) /\ SumFunction(w) = SumFunctionOnSet(w, 1 .. n + 1)
  BY <1>1 DEF SumFunction
<1>5. SumFunctionOnSet(v, 1 .. n) \in Nat
  BY <1>1, <1>3, SumType
<1>6. SumFunctionOnSet(v, 1 .. n) = SumFunctionOnSet(w, 1 .. n)
  BY <1>1, <1>3, SumCongruence
<1>7. SumFunctionOnSet(w, (1 .. n) \cup {n + 1}) = w[n + 1] + SumFunctionOnSet(w, 1 .. n)
  BY <1>1, <1>2, <1>3, SumOfAdded
<1>8. SumFunction(w) = w[n + 1] + SumFunctionOnSet(w, 1 .. n)
  BY <1>2, <1>4, <1>7
<1>9. SumFunction(v) \in Nat /\ SumFunction(v) = SumFunctionOnSet(w, 1 .. n)
  BY <1>4, <1>5, <1>6
<1> DEFINE a == SumFunctionOnSet(w, 1 .. n)
           e == w[n + 1]
<1>10. a \in Nat /\ e \in Nat /\ SumFunction(w) = e + a /\ SumFunction(v) = a
  BY <1>2, <1>8, <1>9
<1> HIDE DEF a, e
<1>11. SumFunction(w) = SumFunction(v) + e /\ SumFunction(v) \in Nat
  BY <1>10
<1> QED
  BY <1>11 DEF v, e

\* No fills take nothing.
LEMMA NothingTaken ==
    ASSUME NEW M, NEW o, NEW txId
    PROVE  SharesIn(M, txId, 0) = 0 /\ CollateralIn(M, o, 0) = 0
<1> DEFINE v == [k \in 1 .. 0 |-> SharesTaken(M[k], txId)]
           w == [k \in 1 .. 0 |-> CollateralTaken(M[k], o)]
<1>1. DOMAIN v = {} /\ DOMAIN w = {}
  OBVIOUS
<1> HIDE DEF v, w
<1>2. SumFunction(v) = 0 /\ SumFunction(w) = 0
  BY <1>1, FS_EmptySet, SumOfZeros DEF SumFunction
<1> QED
  BY <1>2 DEF v, w, SharesIn, CollateralIn

\* What a fill takes is a number.
LEMMA TakenType ==
    ASSUME NEW match \in FillRecord, NEW o
    PROVE  /\ SharesTaken(match, o.txId) \in Nat /\ CollateralTaken(match, o) \in Nat
           /\ YesLeg(match.fillShares, match.executionYesPrice) \in Nat
           /\ match.fillShares - YesLeg(match.fillShares, match.executionYesPrice) \in Nat
<1>1. match.fillShares \in Nat /\ match.executionYesPrice \in 0 .. PRICE_SCALE
  BY MatchingAssumption DEF FillRecord
<1>2. /\ YesLeg(match.fillShares, match.executionYesPrice) \in Nat
      /\ match.fillShares - YesLeg(match.fillShares, match.executionYesPrice) \in Nat
  BY <1>1, YesLegType
<1> QED
  BY <1>1, <1>2 DEF SharesTaken, CollateralTaken, leg_collateral

\* One more fill: the earlier sums stay, the new ones grow by what it takes.
LEMMA TakenStep ==
    ASSUME NEW M \in Seq(FillRecord), NEW match \in FillRecord, NEW o
    PROVE  LET M2 == Append(M, match)
               n == Len(M)
           IN  /\ n \in Nat /\ M2 \in Seq(FillRecord) /\ Len(M2) = n + 1
               /\ \A k \in 0 .. n : /\ SharesIn(M2, o.txId, k) = SharesIn(M, o.txId, k)
                                    /\ CollateralIn(M2, o, k) = CollateralIn(M, o, k)
               /\ SharesIn(M, o.txId, n) \in Nat /\ CollateralIn(M, o, n) \in Nat
               /\ SharesIn(M2, o.txId, n + 1) = SharesIn(M, o.txId, n) + SharesTaken(match, o.txId)
               /\ CollateralIn(M2, o, n + 1) = CollateralIn(M, o, n) + CollateralTaken(match, o)
<1> DEFINE M2 == Append(M, match)
           n == Len(M)
<1>1. /\ n \in Nat /\ M2 \in Seq(FillRecord) /\ Len(M2) = n + 1
      /\ \A k \in 1 .. n : M2[k] = M[k]
      /\ M2[n + 1] = match
      /\ \A k \in 1 .. n + 1 : M2[k] \in FillRecord
  <2>1. /\ M2 \in Seq(FillRecord) /\ Len(M2) = n + 1 /\ n \in Nat
        /\ \A k \in 1 .. n : M2[k] = M[k]
        /\ M2[n + 1] = match
    BY AppendFacts
  <2> HIDE DEF M2, n
  <2> QED
    BY <2>1
<1> HIDE DEF M2, n
<1>2. \A k \in 1 .. n + 1 : SharesTaken(M2[k], o.txId) \in Nat /\ CollateralTaken(M2[k], o) \in Nat
  BY <1>1, TakenType
<1>3. ASSUME NEW k \in 0 .. n
      PROVE  SharesIn(M2, o.txId, k) = SharesIn(M, o.txId, k) /\ CollateralIn(M2, o, k) = CollateralIn(M, o, k)
  <2>1. \A i \in 1 .. k : M2[i] = M[i]
    BY <1>1
  <2>2. /\ [i \in 1 .. k |-> SharesTaken(M2[i], o.txId)] = [i \in 1 .. k |-> SharesTaken(M[i], o.txId)]
        /\ [i \in 1 .. k |-> CollateralTaken(M2[i], o)] = [i \in 1 .. k |-> CollateralTaken(M[i], o)]
    BY <2>1
  <2> QED
    BY <2>2 DEF SharesIn, CollateralIn
<1>4. /\ SharesIn(M2, o.txId, n) \in Nat
      /\ SharesIn(M2, o.txId, n + 1) = SharesIn(M2, o.txId, n) + SharesTaken(M2[n + 1], o.txId)
  <2> DEFINE w == [k \in 1 .. n + 1 |-> SharesTaken(M2[k], o.txId)]
             v == [k \in 1 .. n |-> w[k]]
  <2>1. w \in [1 .. n + 1 -> Nat] /\ w[n + 1] = SharesTaken(M2[n + 1], o.txId)
    BY <1>1, <1>2
  <2>2. v = [k \in 1 .. n |-> SharesTaken(M2[k], o.txId)]
    BY <1>1
  <2> HIDE DEF w
  <2>3. SumFunction(v) \in Nat /\ SumFunction(w) = SumFunction(v) + w[n + 1]
    BY <1>1, <2>1, PrefixSum
  <2> HIDE DEF v
  <2> QED
    BY <2>1, <2>2, <2>3 DEF SharesIn, w
<1>5. /\ CollateralIn(M2, o, n) \in Nat
      /\ CollateralIn(M2, o, n + 1) = CollateralIn(M2, o, n) + CollateralTaken(M2[n + 1], o)
  <2> DEFINE w == [k \in 1 .. n + 1 |-> CollateralTaken(M2[k], o)]
             v == [k \in 1 .. n |-> w[k]]
  <2>1. w \in [1 .. n + 1 -> Nat] /\ w[n + 1] = CollateralTaken(M2[n + 1], o)
    BY <1>1, <1>2
  <2>2. v = [k \in 1 .. n |-> CollateralTaken(M2[k], o)]
    BY <1>1
  <2> HIDE DEF w
  <2>3. SumFunction(v) \in Nat /\ SumFunction(w) = SumFunction(v) + w[n + 1]
    BY <1>1, <2>1, PrefixSum
  <2> HIDE DEF v
  <2> QED
    BY <2>1, <2>2, <2>3 DEF CollateralIn, w
<1>6. n \in 0 .. n
  BY <1>1
<1>7. SharesIn(M2, o.txId, n) = SharesIn(M, o.txId, n) /\ CollateralIn(M2, o, n) = CollateralIn(M, o, n)
  BY <1>3, <1>6
<1> QED
  BY <1>1, <1>3, <1>4, <1>5, <1>7 DEF M2, n


\* Fills that add up: each records the state of its two orders before it, and no
\* order is over its limits.
Reckoned(M) ==
    /\ M \in Seq(FillRecord)
    /\ Ledger(M)
    /\ \A p \in Orders : Within(M, p)

\* The state of an order is decided by its id and the fills.
LEMMA BookedOnce ==
    ASSUME NEW o, NEW M, NEW n, Booked(o, M, n), NEW p \in Orders, p.txId = o.txId
    PROVE  /\ SameTerms(o, p)
           /\ o.sharesFilled = p.sharesFilled + SharesIn(M, p.txId, n)
           /\ o.collateralFilled = p.collateralFilled + CollateralIn(M, p, n)
<1>1. PICK q \in Orders : /\ SameTerms(o, q)
                          /\ o.sharesFilled = q.sharesFilled + SharesIn(M, q.txId, n)
                          /\ o.collateralFilled = q.collateralFilled + CollateralIn(M, q, n)
  BY DEF Booked
<1>2. q.txId = p.txId
  BY <1>1 DEF SameTerms
<1>3. q = p
  BY <1>2, OrdersAssumption
<1> QED
  BY <1>1, <1>3

\* What the earlier fills say stays as one more is made.
LEMMA BookedStays ==
    ASSUME NEW M \in Seq(FillRecord), NEW match \in FillRecord
    PROVE  /\ \A o : \A n \in 0 .. Len(M) : Booked(o, M, n) => Booked(o, Append(M, match), n)
           /\ \A o : Booked(o, M, Len(M)) /\ ~Takes(match, o.txId) =>
                         Booked(o, Append(M, match), Len(M) + 1)
<1> DEFINE M2 == Append(M, match)
           n == Len(M)
<1>1. ASSUME NEW p \in Orders
      PROVE  /\ n \in Nat
             /\ \A k \in 0 .. n : /\ SharesIn(M2, p.txId, k) = SharesIn(M, p.txId, k)
                                  /\ CollateralIn(M2, p, k) = CollateralIn(M, p, k)
             /\ SharesIn(M, p.txId, n) \in Nat /\ CollateralIn(M, p, n) \in Nat
             /\ SharesIn(M2, p.txId, n + 1) = SharesIn(M, p.txId, n) + SharesTaken(match, p.txId)
             /\ CollateralIn(M2, p, n + 1) = CollateralIn(M, p, n) + CollateralTaken(match, p)
  BY TakenStep
<1> HIDE DEF M2, n
<1>2. ASSUME NEW o, NEW k \in 0 .. n, Booked(o, M, k)
      PROVE  Booked(o, M2, k)
  <2>1. PICK p \in Orders : /\ SameTerms(o, p)
                            /\ o.sharesFilled = p.sharesFilled + SharesIn(M, p.txId, k)
                            /\ o.collateralFilled = p.collateralFilled + CollateralIn(M, p, k)
    BY <1>2 DEF Booked
  <2> QED
    BY <1>1, <2>1 DEF Booked
<1>3. ASSUME NEW o, Booked(o, M, n), ~Takes(match, o.txId)
      PROVE  Booked(o, M2, n + 1)
  <2>1. PICK p \in Orders : /\ SameTerms(o, p)
                            /\ o.sharesFilled = p.sharesFilled + SharesIn(M, p.txId, n)
                            /\ o.collateralFilled = p.collateralFilled + CollateralIn(M, p, n)
    BY <1>3 DEF Booked
  <2>2. ~Takes(match, p.txId)
    BY <1>3, <2>1 DEF SameTerms
  <2>3. SharesTaken(match, p.txId) = 0 /\ CollateralTaken(match, p) = 0
    BY <2>2 DEF SharesTaken, CollateralTaken
  <2>4. SharesIn(M2, p.txId, n + 1) = SharesIn(M, p.txId, n) /\ CollateralIn(M2, p, n + 1) = CollateralIn(M, p, n)
    BY <1>1, <2>3
  <2> QED
    BY <2>1, <2>4 DEF Booked
<1> QED
  BY <1>2, <1>3 DEF M2, n

\* A fill between two orders in the state the fills before it left them in.
LEMMA FillBooked ==
    ASSUME NEW M, Reckoned(M), NEW match \in FillRecord, GoodFill(match),
           Booked(match.bid, M, Len(M)), Booked(match.ask, M, Len(M))
    PROVE  LET M2 == Append(M, match)
               after(o) == Filled(o, match.fillShares, match.executionYesPrice)
           IN  /\ Reckoned(M2) /\ Len(M2) = Len(M) + 1
               /\ Booked(after(match.bid), M2, Len(M2)) /\ Booked(after(match.ask), M2, Len(M2))
               /\ \A o : Booked(o, M, Len(M)) /\ ~Takes(match, o.txId) => Booked(o, M2, Len(M2))
<1> DEFINE M2 == Append(M, match)
           n == Len(M)
           after(o) == Filled(o, match.fillShares, match.executionYesPrice)
<1>1. M \in Seq(FillRecord) /\ Ledger(M) /\ \A p \in Orders : Within(M, p)
  BY DEF Reckoned
<1>2. /\ n \in Nat /\ M2 \in Seq(FillRecord) /\ Len(M2) = n + 1
      /\ \A k \in 1 .. n : M2[k] = M[k]
      /\ M2[n + 1] = match
      /\ \A k \in 1 .. n + 1 : k \in 1 .. n \/ k = n + 1
  BY <1>1, AppendFacts
<1>3. /\ \A o : \A k \in 0 .. n : Booked(o, M, k) => Booked(o, M2, k)
      /\ \A o : Booked(o, M, n) /\ ~Takes(match, o.txId) => Booked(o, M2, n + 1)
  BY <1>1, BookedStays
<1>4. ASSUME NEW p \in Orders
      PROVE  /\ SharesIn(M, p.txId, n) \in Nat /\ CollateralIn(M, p, n) \in Nat
             /\ SharesIn(M2, p.txId, n + 1) = SharesIn(M, p.txId, n) + SharesTaken(match, p.txId)
             /\ CollateralIn(M2, p, n + 1) = CollateralIn(M, p, n) + CollateralTaken(match, p)
             /\ SharesTaken(match, p.txId) \in Nat /\ CollateralTaken(match, p) \in Nat
             /\ p.sharesFilled \in Nat /\ p.collateralFilled \in Nat
  <2>1. p.sharesFilled \in Nat /\ p.collateralFilled \in Nat
    BY OrdersAssumption DEF OrderRecord
  <2> QED
    BY <1>1, <2>1, TakenStep, TakenType
<1> HIDE DEF M2, n
\* The two orders of the fill.
<1>5. ASSUME NEW o \in {match.bid, match.ask}
      PROVE  \E p \in Orders :
                 /\ p.txId = o.txId /\ SameTerms(o, p)
                 /\ after(o).sharesFilled = p.sharesFilled + SharesIn(M2, p.txId, n + 1)
                 /\ after(o).collateralFilled = p.collateralFilled + CollateralIn(M2, p, n + 1)
                 /\ SameTerms(after(o), p)
  <2>1. Booked(o, M, n) /\ o \in OrderRecord(Names)
    BY DEF FillRecord, n
  <2>2. PICK p \in Orders : /\ SameTerms(o, p)
                            /\ o.sharesFilled = p.sharesFilled + SharesIn(M, p.txId, n)
                            /\ o.collateralFilled = p.collateralFilled + CollateralIn(M, p, n)
    BY <2>1 DEF Booked
  <2>3. p.txId = o.txId /\ p.side = o.side
    BY <2>2 DEF SameTerms
  <2>4. Takes(match, p.txId)
    BY <2>3 DEF Takes
  <2>5. /\ SharesTaken(match, p.txId) = match.fillShares
        /\ CollateralTaken(match, p) = leg_collateral(o, match.fillShares, match.executionYesPrice)
    BY <2>3, <2>4 DEF SharesTaken, CollateralTaken, leg_collateral
  <2> DEFINE leg == leg_collateral(o, match.fillShares, match.executionYesPrice)
             a == after(o)
  <2>6. a = [o EXCEPT !.sharesFilled = @ + match.fillShares, !.collateralFilled = @ + leg]
    BY DEF Filled
  <2> HIDE DEF leg, a
  <2>7. /\ a.sharesFilled = o.sharesFilled + match.fillShares
        /\ a.collateralFilled = o.collateralFilled + leg
        /\ SameTerms(a, o)
    BY <2>1, <2>6 DEF OrderRecord, SameTerms
  <2>8. SameTerms(a, p)
    BY <2>2, <2>7 DEF SameTerms
  <2>9. /\ a.sharesFilled = p.sharesFilled + SharesIn(M2, p.txId, n + 1)
        /\ a.collateralFilled = p.collateralFilled + CollateralIn(M2, p, n + 1)
    <3>1. SharesTaken(match, p.txId) = match.fillShares /\ CollateralTaken(match, p) = leg
      BY <2>5 DEF leg
    <3>2. /\ p.sharesFilled \in Nat /\ p.collateralFilled \in Nat
          /\ SharesIn(M, p.txId, n) \in Nat /\ CollateralIn(M, p, n) \in Nat
          /\ SharesIn(M2, p.txId, n + 1) = SharesIn(M, p.txId, n) + match.fillShares
          /\ CollateralIn(M2, p, n + 1) = CollateralIn(M, p, n) + leg
          /\ match.fillShares \in Nat /\ leg \in Nat
      BY <1>4, <3>1
    <3> HIDE DEF n
    <3> QED
      BY <2>2, <2>7, <3>2
  <2> QED
    BY <2>2, <2>3, <2>8, <2>9 DEF a
<1>6. Booked(after(match.bid), M2, n + 1) /\ Booked(after(match.ask), M2, n + 1)
  BY <1>5 DEF Booked
<1>7. Ledger(M2)
  <2> SUFFICES ASSUME NEW k \in 1 .. n + 1
               PROVE  Booked(M2[k].bid, M2, k - 1) /\ Booked(M2[k].ask, M2, k - 1)
    BY <1>2 DEF Ledger
  <2>1. k - 1 \in 0 .. n
    BY <1>2
  <2>2. CASE k \in 1 .. n
    <3>1. Booked(M[k].bid, M, k - 1) /\ Booked(M[k].ask, M, k - 1)
      BY <1>1, <2>2 DEF Ledger, n
    <3> QED
      BY <1>2, <1>3, <2>1, <2>2, <3>1
  <2>3. CASE k = n + 1
    <3>1. k - 1 = n
      BY <1>2, <2>3
    <3> QED
      BY <1>2, <1>3, <2>1, <2>3, <3>1 DEF n
  <2> QED
    BY <1>2, <2>2, <2>3
<1>8. ASSUME NEW p \in Orders PROVE Within(M2, p)
  <2>1. CASE Takes(match, p.txId)
    <3>1. PICK o \in {match.bid, match.ask} : o.txId = p.txId
      BY <2>1 DEF Takes
    <3>2. PICK q \in Orders :
                 /\ q.txId = o.txId /\ SameTerms(o, q)
                 /\ after(o).sharesFilled = q.sharesFilled + SharesIn(M2, q.txId, n + 1)
                 /\ after(o).collateralFilled = q.collateralFilled + CollateralIn(M2, q, n + 1)
      BY <1>5
    <3>3. q = p
      BY <3>1, <3>2, OrdersAssumption
    <3>4. /\ after(o).sharesFilled <= o.qtyShares
          /\ o.action = "BUY" => after(o).collateralFilled <= o.collateralCap
      BY DEF GoodFill
    <3>5. o.qtyShares = p.qtyShares /\ o.action = p.action /\ o.collateralCap = p.collateralCap
      BY <3>2, <3>3 DEF SameTerms
    <3> HIDE DEF after
    <3> QED
      BY <1>2, <3>2, <3>3, <3>4, <3>5 DEF Within
  <2>2. CASE ~Takes(match, p.txId)
    <3>1. SharesTaken(match, p.txId) = 0 /\ CollateralTaken(match, p) = 0
      BY <2>2 DEF SharesTaken, CollateralTaken
    <3>2. SharesIn(M2, p.txId, n + 1) = SharesIn(M, p.txId, n) /\ CollateralIn(M2, p, n + 1) = CollateralIn(M, p, n)
      BY <1>4, <3>1
    <3> QED
      BY <1>1, <1>2, <3>2 DEF Within, n
  <2> QED
    BY <2>1, <2>2
<1>9. Reckoned(M2)
  BY <1>2, <1>7, <1>8 DEF Reckoned
<1> QED
  BY <1>2, <1>3, <1>6, <1>9 DEF M2, n

\* A visit that makes a match found an order that has not expired, of another
\* trader.
LEMMA VisitGuards ==
    ASSUME NEW names, NEW acc \in Visiting(names), NEW o \in OrderRecord(names), NEW now2,
           NEW next, next = Visit(acc, o, now2), next.matches # acc.matches
    PROVE  ~Expired(o, now2) /\ ~same_trader(acc.incoming, o)
<1> DEFINE in == acc.incoming
           kept == [acc EXCEPT !.kept = Append(@, o)]
           ended == [kept EXCEPT !.stopped = TRUE]
<1>1. kept.matches = acc.matches /\ ended.matches = acc.matches
  BY DEF Visiting
<1>2. next # acc /\ next # kept /\ next # ended
  BY <1>1
<1> HIDE DEF kept, ended
<1> QED
  BY <1>2 DEF Visit, kept, ended


\* Appending to a concatenation.
LEMMA ConcatAppend ==
    ASSUME NEW S, NEW P \in Seq(S), NEW s \in Seq(S), NEW e \in S
    PROVE  P \o Append(s, e) = Append(P \o s, e) /\ P \o s \in Seq(S)
<1> DEFINE a == Append(s, e)
           x == P \o a
           c == P \o s
           y == Append(c, e)
<1>1. /\ a \in Seq(S) /\ Len(a) = Len(s) + 1 /\ Len(s) \in Nat
      /\ \A i \in 1 .. Len(s) : a[i] = s[i]
      /\ a[Len(s) + 1] = e
  BY AppendFacts
<1>2. /\ c \in Seq(S) /\ Len(c) = Len(P) + Len(s) /\ Len(P) \in Nat
      /\ \A i \in 1 .. Len(P) : c[i] = P[i]
      /\ \A i \in 1 .. Len(s) : c[Len(P) + i] = s[i]
  BY ConcatFacts
<1> HIDE DEF a, c
<1>3. /\ x \in Seq(S) /\ Len(x) = Len(P) + Len(a)
      /\ \A i \in 1 .. Len(P) : x[i] = P[i]
      /\ \A i \in 1 .. Len(a) : x[Len(P) + i] = a[i]
  <2>1. a \in Seq(S)
    BY <1>1
  <2>2. /\ P \o a \in Seq(S) /\ Len(P \o a) = Len(P) + Len(a)
        /\ \A i \in 1 .. Len(P) : (P \o a)[i] = P[i]
        /\ \A i \in 1 .. Len(a) : (P \o a)[Len(P) + i] = a[i]
    BY <2>1, ConcatFacts
  <2> QED
    BY <2>2
<1>4. /\ y \in Seq(S) /\ Len(y) = Len(c) + 1
      /\ \A i \in 1 .. Len(c) : y[i] = c[i]
      /\ y[Len(c) + 1] = e
  BY <1>2, AppendFacts
<1> HIDE DEF x, y
<1> DEFINE n == Len(P) + Len(s) + 1
<1>5. Len(x) = n /\ Len(y) = n /\ n \in Nat
  BY <1>1, <1>2, <1>3, <1>4
<1>6. ASSUME NEW i \in 1 .. n PROVE x[i] = y[i]
  <2>1. CASE i <= Len(P)
    <3>1. i \in 1 .. Len(P) /\ i \in 1 .. Len(c)
      BY <1>1, <1>2, <2>1
    <3> QED
      BY <1>2, <1>3, <1>4, <3>1
  <2>2. CASE i > Len(P) /\ i <= Len(P) + Len(s)
    <3> DEFINE j == i - Len(P)
    <3>1. j \in 1 .. Len(s) /\ j \in 1 .. Len(a) /\ i = Len(P) + j /\ i \in 1 .. Len(c)
      BY <1>1, <1>2, <2>2
    <3> HIDE DEF j
    <3>2. x[i] = a[j] /\ y[i] = c[i] /\ c[i] = s[j] /\ a[j] = s[j]
      BY <1>1, <1>2, <1>3, <1>4, <3>1
    <3> QED
      BY <3>2
  <2>3. CASE i = n
    <3>1. i = Len(P) + (Len(s) + 1) /\ Len(s) + 1 \in 1 .. Len(a) /\ i = Len(c) + 1
      BY <1>1, <1>2, <2>3
    <3> QED
      BY <1>1, <1>3, <1>4, <3>1
  <2> QED
    BY <1>1, <1>2, <2>1, <2>2, <2>3
<1>7. x = y
  <2> HIDE DEF n
  <2>1. x = [i \in 1 .. n |-> x[i]] /\ y = [i \in 1 .. n |-> y[i]]
    BY <1>3, <1>4, <1>5
  <2> QED
    BY <1>6, <2>1
<1> QED
  BY <1>2, <1>7 DEF x, y, a, c

\* Appending changes a sequence.
LEMMA AppendChanges ==
    ASSUME NEW S, NEW s \in Seq(S), NEW e \in S
    PROVE  Append(s, e) # s
<1>1. Len(Append(s, e)) = Len(s) + 1 /\ Len(s) \in Nat
  BY AppendFacts
<1> QED
  BY <1>1

\* An arriving order at work: P are the fills so far, and queue what it meets.
Arriving(in, queue, P) ==
    /\ Reckoned(P)
    /\ Booked(in, P, Len(P))
    /\ \A j \in 1 .. Len(queue) :
           /\ Booked(queue[j], P, Len(P))
           /\ queue[j].txId # in.txId /\ queue[j].marketId = in.marketId
           /\ is_bid(queue[j]) <=> ~is_bid(in)
    /\ \A i, j \in 1 .. Len(queue) : queue[i].txId = queue[j].txId => i = j

\* After k visits all fills add up, and every order concerned is in the state
\* they left it in.
WalkBooks(acc, k, in, queue, P, t) ==
    LET M == P \o acc.matches
    IN  /\ acc.matches \in Seq(FillRecord)
        /\ Reckoned(M)
        /\ Booked(acc.incoming, M, Len(M))
        /\ \A i \in 1 .. Len(acc.kept) : Booked(acc.kept[i], M, Len(M))
        /\ \A j \in 1 .. Len(queue) : j > k => Booked(queue[j], M, Len(M))
        /\ \A o : /\ Booked(o, P, Len(P)) /\ o.txId # in.txId
                  /\ (\A j \in 1 .. Len(queue) : queue[j].txId # o.txId)
                  => Booked(o, M, Len(M))
        /\ \A m \in 1 .. Len(acc.matches) : SoundFill(acc.matches[m], t)

\* A visit that trades keeps the accounts.
LEMMA TradeBooks ==
    ASSUME NEW in \in OrderRecord(Names), NEW queue, QueueOk(queue, in, Names),
           NEW P, Arriving(in, queue, P), NEW t, ~Expired(in, t),
           NEW k \in Nat, k < Len(queue), NEW acc, NEW src, WalkInv(acc, src, k, in, queue, Names),
           WalkBooks(acc, k, in, queue, P, t),
           NEW next, next = Visit(acc, queue[k + 1], t),
           NEW fill, NEW price, Traded(acc, next, queue[k + 1], fill, price)
    PROVE  WalkBooks(next, k + 1, in, queue, P, t)
<1> DEFINE o == queue[k + 1]
           own == acc.incoming
           own2 == Filled(own, fill, price)
           o2 == Filled(o, fill, price)
           match == [bid |-> BidOf(own, o), ask |-> AskOf(own, o), fillShares |-> fill, executionYesPrice |-> price]
           M == P \o acc.matches
           M2 == P \o next.matches
           n == Len(acc.kept)
<1>1. o \in OrderRecord(Names) /\ remaining_shares(o) > 0 /\ k + 1 \in 1 .. Len(queue) /\ Len(queue) \in Nat
  BY DEF QueueOk
<1>2. acc \in Visiting(Names) /\ Aged(own, in) /\ Traced(acc.kept, src, k, queue)
  BY DEF WalkInv
<1>3. /\ acc.kept \in Seq(OrderRecord(Names)) /\ own \in OrderRecord(Names)
      /\ acc.matches \in Seq(MatchRecord(Names)) /\ n \in Nat
  BY <1>2 DEF Visiting
<1>4. /\ fill \in Nat \ {0} /\ price \in 1 .. (PRICE_SCALE - 1) /\ split_collateral(fill, price)
      /\ o2 \in OrderRecord(Names) /\ remaining_shares(o2) \in Nat
      /\ match \in MatchRecord(Names) /\ GoodFill(match)
  BY <1>1, <1>2, TradeFacts
<1>5. /\ next.incoming = own2
      /\ next.kept = IF remaining_shares(o2) = 0 THEN acc.kept ELSE Append(acc.kept, o2)
      /\ next.matches = Append(acc.matches, match)
  BY DEF Traded
<1>6. SameTerms(own, in) /\ own.txId = in.txId /\ own.marketId = in.marketId /\ own.deadline = in.deadline
  BY <1>2 DEF Aged, SameTerms
<1>7. match \in FillRecord
  <2>1. BidOf(own, o) \in OrderRecord(Names) /\ AskOf(own, o) \in OrderRecord(Names)
    BY <1>1, <1>3 DEF BidOf, AskOf
  <2> HIDE DEF o, own
  <2> QED
    BY <1>4, <2>1 DEF FillRecord
<1>8. ~Expired(o, t) /\ ~same_trader(own, o)
  <2>1. next.matches # acc.matches
    BY <1>3, <1>4, <1>5, AppendChanges
  <2> HIDE DEF o
  <2> QED
    BY <1>1, <1>2, <2>1, VisitGuards DEF o
<1>9. /\ o.txId # in.txId /\ o.marketId = in.marketId /\ (is_bid(o) <=> ~is_bid(in))
  BY <1>1 DEF Arriving
<1>10. /\ acc.matches \in Seq(FillRecord) /\ Reckoned(M)
       /\ Booked(own, M, Len(M)) /\ Booked(o, M, Len(M))
  BY <1>1 DEF WalkBooks
<1>11. is_bid(own) <=> is_bid(in)
  BY <1>6 DEF SameTerms, is_bid
<1>12. /\ match.fillShares = fill /\ match.executionYesPrice = price
       /\ \/ match.bid = own /\ match.ask = o /\ is_bid(own)
          \/ match.bid = o /\ match.ask = own /\ ~is_bid(own)
  BY DEF BidOf, AskOf
<1>13. P \in Seq(FillRecord)
  BY DEF Arriving, Reckoned
<1> HIDE DEF o, own, match, M
<1>14. M2 = Append(M, match) /\ next.matches \in Seq(FillRecord)
  <2>1. /\ P \o Append(acc.matches, match) = Append(P \o acc.matches, match)
        /\ Append(acc.matches, match) \in Seq(FillRecord)
    BY <1>7, <1>10, <1>13, ConcatAppend, AppendFacts, SMTT(60)
  <2> QED
    BY <1>5, <2>1 DEF M
<1> HIDE DEF M2
<1>15. /\ Reckoned(M2) /\ Len(M2) = Len(M) + 1
       /\ Booked(own2, M2, Len(M2)) /\ Booked(o2, M2, Len(M2))
       /\ \A x : Booked(x, M, Len(M)) /\ ~Takes(match, x.txId) => Booked(x, M2, Len(M2))
  <2>1. Booked(match.bid, M, Len(M)) /\ Booked(match.ask, M, Len(M))
    BY <1>10, <1>12
  <2>2. /\ Reckoned(Append(M, match)) /\ Len(Append(M, match)) = Len(M) + 1
        /\ Booked(Filled(match.bid, fill, price), Append(M, match), Len(Append(M, match)))
        /\ Booked(Filled(match.ask, fill, price), Append(M, match), Len(Append(M, match)))
        /\ \A x : Booked(x, M, Len(M)) /\ ~Takes(match, x.txId) => Booked(x, Append(M, match), Len(Append(M, match)))
    BY <1>4, <1>7, <1>10, <1>12, <2>1, FillBooked
  <2> QED
    BY <1>12, <1>14, <2>2
<1> HIDE DEF own2, o2
<1>16. \A x : x.txId # in.txId /\ x.txId # o.txId => ~Takes(match, x.txId)
  BY <1>6, <1>12 DEF Takes
<1>17. ASSUME NEW i \in 1 .. Len(next.kept) PROVE Booked(next.kept[i], M2, Len(M2))
  <2>1. ASSUME NEW h \in 1 .. n PROVE Booked(acc.kept[h], M2, Len(M2))
    <3>1. src[h] \in 1 .. k /\ Aged(acc.kept[h], queue[src[h]])
      BY <1>2 DEF Traced, n
    <3>2. acc.kept[h].txId = queue[src[h]].txId
      BY <3>1 DEF Aged, SameTerms
    <3>3. src[h] \in 1 .. Len(queue) /\ src[h] # k + 1
      BY <1>1, <3>1
    <3>4. acc.kept[h].txId # in.txId /\ acc.kept[h].txId # o.txId
      BY <1>1, <3>2, <3>3 DEF Arriving, o
    <3>5. Booked(acc.kept[h], M, Len(M))
      BY DEF WalkBooks, M, n
    <3> QED
      BY <1>15, <1>16, <3>4, <3>5
  <2>2. CASE remaining_shares(o2) = 0
    BY <1>5, <2>1, <2>2 DEF n
  <2>3. CASE remaining_shares(o2) # 0
    <3>1. /\ next.kept = Append(acc.kept, o2)
          /\ \A h \in 1 .. n : next.kept[h] = acc.kept[h]
          /\ next.kept[n + 1] = o2
          /\ i \in 1 .. n \/ i = n + 1
      BY <1>3, <1>4, <1>5, <2>3, AppendFacts DEF n
    <3>2. CASE i \in 1 .. n
      BY <2>1, <3>1, <3>2
    <3>3. CASE i = n + 1
      BY <1>15, <3>1, <3>3
    <3> QED
      BY <3>1, <3>2, <3>3
  <2> QED
    BY <2>2, <2>3
<1>18. ASSUME NEW j \in 1 .. Len(queue), j > k + 1 PROVE Booked(queue[j], M2, Len(M2))
  <2>1. j > k /\ j # k + 1
    BY <1>1, <1>18
  <2>2. Booked(queue[j], M, Len(M))
    BY <2>1 DEF WalkBooks, M
  <2>3. queue[j].txId # in.txId /\ queue[j].txId # o.txId
    BY <1>1, <2>1 DEF Arriving, o
  <2> QED
    BY <1>15, <1>16, <2>2, <2>3
<1>19. ASSUME NEW x, Booked(x, P, Len(P)), x.txId # in.txId, \A j \in 1 .. Len(queue) : queue[j].txId # x.txId
       PROVE  Booked(x, M2, Len(M2))
  <2>1. Booked(x, M, Len(M))
    BY <1>19 DEF WalkBooks, M
  <2>2. x.txId # o.txId
    BY <1>1, <1>19 DEF o
  <2> QED
    BY <1>15, <1>16, <1>19, <2>1, <2>2
<1>20. SoundFill(match, t)
  <2>1. /\ match.bid.marketId = match.ask.marketId /\ is_bid(match.bid) /\ ~is_bid(match.ask)
    BY <1>6, <1>9, <1>11, <1>12
  <2>2. ~same_trader(match.bid, match.ask)
    BY <1>8, <1>12 DEF same_trader
  <2>3. ~Expired(own, t)
    BY <1>6 DEF Expired
  <2>4. ~Expired(match.bid, t) /\ ~Expired(match.ask, t)
    BY <1>8, <1>12, <2>3
  <2> QED
    BY <1>4, <1>12, <2>1, <2>2, <2>4 DEF SoundFill
<1>21. ASSUME NEW m \in 1 .. Len(next.matches) PROVE SoundFill(next.matches[m], t)
  <2> DEFINE u == Len(acc.matches)
  <2>1. /\ \A h \in 1 .. u : next.matches[h] = acc.matches[h]
        /\ next.matches[u + 1] = match
        /\ m \in 1 .. u \/ m = u + 1
    BY <1>5, <1>7, <1>10, AppendFacts
  <2>2. \A h \in 1 .. u : SoundFill(acc.matches[h], t)
    BY DEF WalkBooks
  <2> QED
    BY <1>20, <2>1, <2>2
<1> QED
  BY <1>5, <1>14, <1>15, <1>17, <1>18, <1>19, <1>21 DEF WalkBooks, M2

\* A visit that does not trade keeps them too.
LEMMA OtherBooks ==
    ASSUME NEW queue, NEW in, QueueOk(queue, in, Names), NEW P, NEW t,
           NEW k \in Nat, k < Len(queue), NEW acc \in Visiting(Names),
           WalkBooks(acc, k, in, queue, P, t),
           NEW next, \/ next = acc
                     \/ Passed(acc, next, queue[k + 1])
                     \/ Ended(acc, next, queue[k + 1])
    PROVE  WalkBooks(next, k + 1, in, queue, P, t)
<1> DEFINE o == queue[k + 1]
           M == P \o acc.matches
           n == Len(acc.kept)
<1>1. /\ next.incoming = acc.incoming /\ next.matches = acc.matches
      /\ next.kept = acc.kept \/ next.kept = Append(acc.kept, o)
  BY DEF Passed, Ended
<1>2. k + 1 \in 1 .. Len(queue) /\ o \in OrderRecord(Names) /\ \A j \in 1 .. Len(queue) : j > k + 1 => j > k
  BY DEF QueueOk
<1>3. Booked(o, M, Len(M)) /\ \A i \in 1 .. n : Booked(acc.kept[i], M, Len(M))
  BY <1>2 DEF WalkBooks
<1> HIDE DEF o, M
<1>4. ASSUME NEW i \in 1 .. Len(next.kept) PROVE Booked(next.kept[i], M, Len(M))
  <2>1. CASE next.kept = acc.kept
    BY <1>3, <2>1
  <2>2. CASE next.kept = Append(acc.kept, o)
    <3>1. acc.kept \in Seq(OrderRecord(Names))
      BY DEF Visiting
    <3>2. /\ \A h \in 1 .. n : next.kept[h] = acc.kept[h]
          /\ next.kept[n + 1] = o
          /\ i \in 1 .. n \/ i = n + 1
      BY <1>2, <2>2, <3>1, AppendFacts
    <3> QED
      BY <1>3, <3>2
  <2> QED
    BY <1>1, <2>1, <2>2
<1> QED
  BY <1>1, <1>2, <1>4 DEF WalkBooks, M

\* Hence the accounts are kept at every point of the walk.
LEMMA WalkBooked ==
    ASSUME NEW in \in OrderRecord(Names), NEW queue, QueueOk(queue, in, Names),
           NEW P, Arriving(in, queue, P), NEW t, ~Expired(in, t)
    PROVE  \A k \in 0 .. Len(queue) : WalkBooks(Walk(in, queue, t)[k], k, in, queue, P, t)
<1> DEFINE w == Walk(in, queue, t)
           T == {k \in Nat : k <= Len(queue) => WalkBooks(w[k], k, in, queue, P, t)}
<1>1. Len(queue) \in Nat /\ \A j \in 1 .. Len(queue) : queue[j] \in OrderRecord(Names)
  BY DEF QueueOk
<1>2. w[0] = Outset(in) /\ \A k \in 1 .. Len(queue) : w[k] = Visit(w[k - 1], queue[k], t)
  BY <1>1, WalkSteps
<1>3. \A k \in 0 .. Len(queue) : \E src : WalkInv(w[k], src, k, in, queue, Names)
  BY WalkTraced
<1> HIDE DEF w
<1>4. 0 \in T
  <2>1. /\ w[0].incoming = in /\ w[0].kept = <<>> /\ w[0].matches = <<>>
    BY <1>2 DEF Outset
  <2>2. P \in Seq(FillRecord) /\ <<>> \in Seq(FillRecord) /\ P \o <<>> = P /\ Len(<<>>) = 0 /\ 1 .. 0 = {}
    <3>1. P \in Seq(FillRecord)
      BY DEF Arriving, Reckoned
    <3>2. \A S : \A s \in Seq(S) : s \o <<>> = s
      OBVIOUS
    <3>3. <<>> \in Seq(FillRecord) /\ Len(<<>>) = 0 /\ 1 .. 0 = {}
      OBVIOUS
    <3> QED
      BY <3>1, <3>2, <3>3
  <2>3. WalkBooks(w[0], 0, in, queue, P, t)
    <3>1. P \o w[0].matches = P /\ w[0].matches \in Seq(FillRecord)
      BY <2>1, <2>2
    <3>2. 1 .. Len(w[0].kept) = {} /\ 1 .. Len(w[0].matches) = {}
      BY <2>1, <2>2
    <3>3. Reckoned(P) /\ Booked(w[0].incoming, P, Len(P)) /\ \A j \in 1 .. Len(queue) : Booked(queue[j], P, Len(P))
      BY <2>1 DEF Arriving
    <3> DEFINE M == P \o w[0].matches
    <3>4. M = P
      BY <3>1
    <3> HIDE DEF M
    <3>5. /\ Reckoned(M) /\ Booked(w[0].incoming, M, Len(M)) /\ \A j \in 1 .. Len(queue) : Booked(queue[j], M, Len(M))
          /\ \A o : Booked(o, P, Len(P)) => Booked(o, M, Len(M))
      BY <3>3, <3>4
    <3>6. /\ \A i \in 1 .. Len(w[0].kept) : Booked(w[0].kept[i], M, Len(M))
          /\ \A m \in 1 .. Len(w[0].matches) : SoundFill(w[0].matches[m], t)
      BY <3>2
    <3> QED
      BY <3>1, <3>5, <3>6 DEF WalkBooks, M
  <2> QED
    BY <2>3
<1>5. ASSUME NEW k \in T PROVE k + 1 \in T
  <2>1. k \in Nat
    OBVIOUS
  <2> SUFFICES ASSUME k + 1 <= Len(queue)
               PROVE  WalkBooks(w[k + 1], k + 1, in, queue, P, t)
    BY <2>1
  <2>2. k < Len(queue) /\ k + 1 \in 1 .. Len(queue) /\ (k + 1) - 1 = k /\ k \in 0 .. Len(queue)
    BY <1>1, <2>1
  <2>3. PICK src : WalkInv(w[k], src, k, in, queue, Names)
    BY <1>3, <2>2
  <2>4. WalkBooks(w[k], k, in, queue, P, t)
    BY <2>1, <2>2
  <2> DEFINE acc == w[k]
             next == w[k + 1]
             o == queue[k + 1]
  <2>5. next = Visit(acc, o, t) /\ o \in OrderRecord(Names)
    BY <1>1, <1>2, <2>2
  <2>6. acc \in Visiting(Names)
    BY <2>3 DEF WalkInv
  <2> HIDE DEF T, acc, next, o
  <2>7. \/ next = acc \/ Passed(acc, next, o) \/ Ended(acc, next, o)
        \/ \E fill, price : Traded(acc, next, o, fill, price)
    BY <2>5, <2>6, VisitOutcome
  <2>8. CASE next = acc \/ Passed(acc, next, o) \/ Ended(acc, next, o)
    BY <2>1, <2>2, <2>4, <2>6, <2>8, OtherBooks DEF acc, next, o
  <2>9. ASSUME NEW fill, NEW price, Traded(acc, next, o, fill, price)
        PROVE  WalkBooks(next, k + 1, in, queue, P, t)
    BY <2>1, <2>2, <2>3, <2>4, <2>5, <2>9, TradeBooks DEF acc, o
  <2> QED
    BY <2>7, <2>8, <2>9 DEF next
<1>6. T = Nat
  <2>1. T \subseteq Nat
    OBVIOUS
  <2> HIDE DEF T
  <2> QED
    BY <1>4, <1>5, <2>1, NatSetInduction
<1>7. \A k \in 0 .. Len(queue) : k \in T /\ k <= Len(queue)
  BY <1>1, <1>6
<1> QED
  BY <1>7 DEF w


\* The orders of a book are in the state the fills left them in.
BookBooked(b, M) ==
    /\ \A i \in 1 .. Len(b.bids) : Booked(b.bids[i], M, Len(M))
    /\ \A i \in 1 .. Len(b.asks) : Booked(b.asks[i], M, Len(M))

\* Adding an order keeps the accounts, and disturbs no order of other markets.
LEMMA AddedBooked ==
    ASSUME NEW b, NEW m, NEW lut, NEW t \in Nat, MarketBook(b, m, lut, t),
           NEW in \in Orders, in.marketId = m, ~Known(in.txId, lut),
           NEW P, Reckoned(P), Booked(in, P, Len(P)), BookBooked(b, P)
    PROVE  LET result == add(b, in, t)
               M == P \o result.matches
           IN  /\ result.matches \in Seq(FillRecord) /\ Reckoned(M) /\ BookBooked(result.book, M)
               /\ \A o : /\ Booked(o, P, Len(P)) /\ o.txId # in.txId
                         /\ Known(o.txId, lut) => o.marketId # m
                         => Booked(o, M, Len(M))
               /\ \A k \in 1 .. Len(result.matches) : SoundFill(result.matches[k], t)
<1> DEFINE asAsks == is_bid(in)
           opposite == Facing(b, in)
           same == Beside(b, in)
           queue == BestFirst(opposite, asAsks)
           n == Len(opposite)
           end == Walk(in, queue, t)[n]
           own == end.incoming
           rested == IF remaining_shares(own) > 0 THEN Append(same, own) ELSE same
           result == add(b, in, t)
           M == P \o result.matches
<1>1. in \in OrderRecord(Names) /\ asAsks \in BOOLEAN
  BY OrdersAssumption DEF is_bid
<1>2. /\ SideOk(opposite, Names) /\ SideOk(same, Names) /\ AsArrived(opposite, lut) /\ AsArrived(same, lut)
      /\ b = [bids |-> b.bids, asks |-> b.asks]
      /\ \A i \in 1 .. n : (is_bid(opposite[i]) <=> ~is_bid(in)) /\ Placed(opposite[i], m, lut)
                           /\ Booked(opposite[i], P, Len(P))
      /\ \A i \in 1 .. Len(same) : (is_bid(same[i]) <=> is_bid(in)) /\ Placed(same[i], m, lut)
                           /\ Booked(same[i], P, Len(P))
  <2>1. CASE is_bid(in)
    BY <2>1 DEF MarketBook, Sides, BookOk, opposite, same, Facing, Beside, BookBooked
  <2>2. CASE ~is_bid(in)
    BY <2>2 DEF MarketBook, Sides, BookOk, opposite, same, Facing, Beside, BookBooked
  <2> QED
    BY <2>1, <2>2
<1>3. result = IF Expired(in, t) \/ remaining_shares(in) = 0
               THEN [book |-> b, matches |-> <<>>]
               ELSE [book |-> IF asAsks THEN [bids |-> rested, asks |-> end.kept]
                              ELSE [bids |-> end.kept, asks |-> rested],
                     matches |-> end.matches]
  BY DEF add, Facing, Beside
<1>4. opposite \in Seq(OrderRecord(Names)) /\ n \in Nat /\ same \in Seq(OrderRecord(Names))
  BY <1>2 DEF SideOk
<1>5. PICK at \in [1 .. n -> 1 .. n] :
             /\ \A k \in 1 .. n : queue[k] = opposite[at[k]]
             /\ \A k, l \in 1 .. n : k < l => Better(opposite, asAsks, at[k], at[l])
  BY <1>1, <1>4, BestFirstSorts, ZenonT(60)
<1>6. queue \in Seq(OrderRecord(Names)) /\ Len(queue) = n
  BY <1>1, <1>4, BestFirstSorts
<1> HIDE DEF queue, end, opposite, same, result, M
<1>7. P \in Seq(FillRecord)
  BY DEF Reckoned
<1>8. CASE Expired(in, t) \/ remaining_shares(in) = 0
  <2>1. result.book = b /\ result.matches = <<>>
    BY <1>3, <1>8
  <2>2. M = P
    <3>1. \A S : \A s \in Seq(S) : s \o <<>> = s
      OBVIOUS
    <3> QED
      BY <1>7, <2>1, <3>1 DEF M
  <2>3. result.matches \in Seq(FillRecord) /\ 1 .. Len(result.matches) = {}
    BY <2>1
  <2> QED
    BY <2>1, <2>2, <2>3 DEF M, result
<1>9. CASE ~(Expired(in, t) \/ remaining_shares(in) = 0)
  <2> DEFINE kept == end.kept
  <2>1. result = [book |-> IF asAsks THEN [bids |-> rested, asks |-> kept]
                           ELSE [bids |-> kept, asks |-> rested],
                  matches |-> end.matches]
    BY <1>3, <1>9
  <2>2. \A i \in 1 .. n : at[i] \in 1 .. n /\ remaining_shares(opposite[i]) > 0 /\ opposite[i].limitYesPrice \in Int
    <3>1. \A o \in OrderRecord(Names) : o.limitYesPrice \in Int
      BY MatchingAssumption DEF OrderRecord
    <3> QED
      BY <1>2, <1>4, <1>5, <3>1 DEF SideOk
  <2>3. QueueOk(queue, in, Names)
    <3>1. \A j \in 1 .. n : remaining_shares(queue[j]) > 0
      BY <1>5, <2>2
    <3>2. in.limitYesPrice \in Int
      BY <1>1, MatchingAssumption DEF OrderRecord
    <3>3. ASSUME NEW i \in 1 .. n, NEW j \in 1 .. n, i < j, CrossesWith(in, queue[j])
          PROVE  CrossesWith(in, queue[i])
      <4>1. Better(opposite, asAsks, at[i], at[j]) /\ queue[i] = opposite[at[i]] /\ queue[j] = opposite[at[j]]
        BY <1>5, <3>3
      <4>2. queue[i].limitYesPrice \in Int /\ queue[j].limitYesPrice \in Int
        BY <2>2, <4>1
      <4> QED
        BY <3>2, <3>3, <4>1, <4>2 DEF Better, CrossesWith, crosses
    <3> QED
      BY <1>6, <3>1, <3>3 DEF QueueOk
  <2>4. Arriving(in, queue, P)
    <3>1. ASSUME NEW j \in 1 .. Len(queue)
          PROVE  /\ Booked(queue[j], P, Len(P))
                 /\ queue[j].txId # in.txId /\ queue[j].marketId = in.marketId
                 /\ is_bid(queue[j]) <=> ~is_bid(in)
      <4>1. at[j] \in 1 .. n /\ queue[j] = opposite[at[j]]
        BY <1>5, <1>6
      <4>2. Placed(opposite[at[j]], m, lut)
        BY <1>2, <4>1
      <4> QED
        BY <1>2, <4>1, <4>2 DEF Placed
    <3>2. ASSUME NEW i \in 1 .. Len(queue), NEW j \in 1 .. Len(queue), queue[i].txId = queue[j].txId
          PROVE  i = j
      <4>1. at[i] \in 1 .. n /\ at[j] \in 1 .. n /\ queue[i] = opposite[at[i]] /\ queue[j] = opposite[at[j]]
        BY <1>5, <1>6
      <4>2. ~(at[i] < at[j]) /\ ~(at[j] < at[i])
        BY <1>2, <3>2, <4>1 DEF AsArrived, n
      <4>3. at[i] = at[j]
        BY <4>1, <4>2
      <4>4. opposite[at[i]].limitYesPrice \in Int
        BY <2>2, <4>1
      <4>5. ~Better(opposite, asAsks, at[i], at[j]) /\ ~Better(opposite, asAsks, at[j], at[i])
        BY <4>1, <4>3, <4>4 DEF Better
      <4>6. ~(i < j) /\ ~(j < i)
        BY <1>5, <1>6, <4>5
      <4> QED
        BY <1>4, <1>6, <4>6
    <3> QED
      BY <3>1, <3>2 DEF Arriving
  <2>5. WalkBooks(end, n, in, queue, P, t)
    <3>1. \A k \in 0 .. Len(queue) : WalkBooks(Walk(in, queue, t)[k], k, in, queue, P, t)
      BY <1>1, <1>9, <2>3, <2>4, WalkBooked
    <3>2. n \in 0 .. Len(queue)
      BY <1>4, <1>6
    <3> QED
      BY <3>1, <3>2 DEF end
  <2>6. \E src : WalkInv(end, src, n, in, queue, Names)
    <3>1. \A k \in 0 .. Len(queue) : \E src : WalkInv(Walk(in, queue, t)[k], src, k, in, queue, Names)
      BY <1>1, <2>3, WalkTraced
    <3>2. n \in 0 .. Len(queue)
      BY <1>4, <1>6
    <3> QED
      BY <3>1, <3>2 DEF end
  <2>7. own \in OrderRecord(Names)
    BY <2>6 DEF WalkInv, Visiting
  <2> HIDE DEF kept, own
  <2>8. M = P \o end.matches /\ result.matches = end.matches
    BY <2>1 DEF M
  <2>9. /\ end.matches \in Seq(FillRecord) /\ Reckoned(M) /\ Booked(own, M, Len(M))
        /\ \A i \in 1 .. Len(kept) : Booked(kept[i], M, Len(M))
        /\ \A k \in 1 .. Len(end.matches) : SoundFill(end.matches[k], t)
        /\ \A o : /\ Booked(o, P, Len(P)) /\ o.txId # in.txId
                  /\ (\A j \in 1 .. Len(queue) : queue[j].txId # o.txId)
                  => Booked(o, M, Len(M))
    BY <2>5, <2>8 DEF WalkBooks, own, kept
\* Orders of the same market on the same side, and orders of other markets, are
\* none of the queue: an id names one order.
  <2>10. ASSUME NEW j \in 1 .. Len(queue), NEW o, Booked(o, P, Len(P)), queue[j].txId = o.txId
         PROVE  o.marketId = m /\ (is_bid(o) <=> ~is_bid(in)) /\ Known(o.txId, lut)
    <3>1. at[j] \in 1 .. n /\ queue[j] = opposite[at[j]]
      BY <1>5, <1>6
    <3>2. /\ Placed(queue[j], m, lut) /\ (is_bid(queue[j]) <=> ~is_bid(in))
      BY <1>2, <3>1
    <3>3. PICK q \in Orders : SameTerms(queue[j], q)
      BY <3>2 DEF Placed
    <3>4. PICK p \in Orders : SameTerms(o, p)
      BY <2>10 DEF Booked
    <3>5. p = q
      <4>1. p.txId = q.txId
        BY <2>10, <3>3, <3>4 DEF SameTerms
      <4> QED
        BY <4>1, OrdersAssumption
    <3>6. o.marketId = queue[j].marketId /\ (is_bid(o) <=> is_bid(queue[j]))
      BY <3>3, <3>4, <3>5 DEF SameTerms, is_bid
    <3> QED
      BY <2>10, <3>2, <3>6 DEF Placed
  <2>11. \A i \in 1 .. Len(same) : Booked(same[i], M, Len(M))
    <3> TAKE i \in 1 .. Len(same)
    <3>1. Booked(same[i], P, Len(P)) /\ (is_bid(same[i]) <=> is_bid(in)) /\ Placed(same[i], m, lut)
      BY <1>2
    <3>2. same[i].txId # in.txId
      BY <3>1 DEF Placed
    <3>3. \A j \in 1 .. Len(queue) : queue[j].txId # same[i].txId
      BY <2>10, <3>1
    <3> QED
      BY <2>9, <3>1, <3>2, <3>3
  <2>12. \A i \in 1 .. Len(rested) : Booked(rested[i], M, Len(M))
    <3>1. CASE ~(remaining_shares(own) > 0)
      BY <2>11, <3>1 DEF own
    <3>2. CASE remaining_shares(own) > 0
      <4>1. rested = Append(same, own)
        BY <3>2 DEF own
      <4>2. /\ \A i \in 1 .. Len(same) : rested[i] = same[i]
            /\ rested[Len(same) + 1] = own
            /\ \A i \in 1 .. Len(rested) : i \in 1 .. Len(same) \/ i = Len(same) + 1
        BY <1>4, <2>7, <4>1, AppendFacts
      <4> HIDE DEF rested
      <4> QED
        BY <2>9, <2>11, <4>2
    <3> QED
      BY <3>1, <3>2
  <2>13. BookBooked(result.book, M)
    <3> HIDE DEF rested
    <3>1. /\ asAsks => result.book.bids = rested /\ result.book.asks = kept
          /\ ~asAsks => result.book.bids = kept /\ result.book.asks = rested
      BY <2>1
    <3> QED
      BY <2>9, <2>12, <3>1 DEF BookBooked
  <2>14. ASSUME NEW o, Booked(o, P, Len(P)), o.txId # in.txId, Known(o.txId, lut) => o.marketId # m
         PROVE  Booked(o, M, Len(M))
    <3>1. \A j \in 1 .. Len(queue) : queue[j].txId # o.txId
      BY <2>10, <2>14
    <3> QED
      BY <2>9, <2>14, <3>1
  <2> QED
    BY <2>8, <2>9, <2>13, <2>14 DEF M, result
<1> QED
  BY <1>8, <1>9


Fills == [k \in 1 .. Len(tape) |-> tape[k].match]

\* The tape accounts for the fill state of every order: one that has not arrived
\* is as it will arrive, one that rests is what the fills so far left of it, and
\* so was each of the two orders of every match.
AccountInv ==
    /\ Reckoned(Fills)
    /\ \A o \in Orders : ~Known(o.txId, TX_ID_LUT) => Booked(o, Fills, Len(Fills))
    /\ \A m \in DOMAIN order_books : BookBooked(order_books[m], Fills)
    /\ \A k \in 1 .. Len(tape) : SoundFill(tape[k].match, tape[k].at)

\* The fills of the tape, as a sequence.
LEMMA FillsOfTape ==
    ASSUME tape \in Seq(TapeRecord)
    PROVE  /\ DOMAIN Fills = 1 .. Len(tape) /\ Len(Fills) = Len(tape) /\ Len(tape) \in Nat
           /\ Fills \in Seq(MatchRecord(Names))
           /\ \A k \in 1 .. Len(tape) : Fills[k] = tape[k].match
<1>1. Len(tape) \in Nat /\ \A k \in 1 .. Len(tape) : tape[k].match \in MatchRecord(Names)
  <2>1. Len(tape) \in Nat /\ \A k \in 1 .. Len(tape) : tape[k] \in TapeRecord
    OBVIOUS
  <2>2. \A r \in TapeRecord : r.match \in MatchRecord(Names)
    BY DEF TapeRecord
  <2> QED
    BY <2>1, <2>2
<1>2. Fills \in [1 .. Len(tape) -> MatchRecord(Names)] /\ \A k \in 1 .. Len(tape) : Fills[k] = tape[k].match
  BY <1>1 DEF Fills
<1>3. Fills \in Seq(MatchRecord(Names)) /\ Len(Fills) = Len(tape)
  BY <1>1, <1>2
<1> QED
  BY <1>1, <1>2, <1>3

\* Before anything has arrived, nothing is filled.
LEMMA AccountInit == Init => AccountInv
<1> SUFFICES ASSUME Init PROVE AccountInv
  OBVIOUS
<1>1. order_books = <<>> /\ TX_ID_LUT = <<>> /\ tape = <<>>
  BY DEF Init
<1>2. DOMAIN order_books = {} /\ Len(<<>>) = 0 /\ 1 .. 0 = {} /\ <<>> \in Seq(FillRecord)
  BY <1>1
<1>3. Fills = <<>>
  BY <1>1, <1>2 DEF Fills
<1>4. ASSUME NEW o \in Orders PROVE Booked(o, <<>>, 0) /\ Within(<<>>, o)
  <2>1. /\ o \in OrderRecord(Names) /\ o.sharesFilled <= o.qtyShares
        /\ o.action = "BUY" => o.collateralFilled <= o.collateralCap
    BY OrdersAssumption
  <2>2. o.sharesFilled \in Nat /\ o.collateralFilled \in Nat /\ SameTerms(o, o)
    BY <2>1 DEF OrderRecord, SameTerms
  <2>3. SharesIn(<<>>, o.txId, 0) = 0 /\ CollateralIn(<<>>, o, 0) = 0
    BY NothingTaken
  <2> QED
    BY <1>2, <2>1, <2>2, <2>3 DEF Booked, Within
<1>5. Reckoned(<<>>)
  BY <1>2, <1>4 DEF Reckoned, Ledger
<1> QED
  BY <1>1, <1>2, <1>3, <1>4, <1>5 DEF AccountInv

\* An arrival keeps the accounts.
LEMMA AccountArrival ==
    ASSUME IInv, AccountInv, NEW o \in Orders, place_order(o)
    PROVE  AccountInv'
<1> DEFINE m == o.marketId
           b == order_books[m]
           result == add(b, o, now)
           M == Fills \o result.matches
<1>1. /\ m \in DOMAIN order_books /\ MarketBook(b, m, TX_ID_LUT, now)
      /\ now \in Nat /\ o.txId \in Names /\ ~Known(o.txId, TX_ID_LUT)
      /\ order_books' = [order_books EXCEPT ![m] = result.book]
      /\ TX_ID_LUT' = Append(TX_ID_LUT, o.txId)
      /\ tape' \in Seq(TapeRecord) /\ Len(tape) \in Nat
      /\ Len(tape') = Len(tape) + Len(result.matches)
      /\ \A k \in 1 .. Len(tape) : tape'[k] = tape[k]
      /\ \A k \in 1 .. Len(tape) + Len(result.matches) :
             \/ k \in 1 .. Len(tape)
             \/ /\ k - Len(tape) \in 1 .. Len(result.matches)
                /\ tape'[k].match = result.matches[k - Len(tape)] /\ tape'[k].at = now
  BY PlaceOrder
<1>2. /\ Reckoned(Fills) /\ Booked(o, Fills, Len(Fills)) /\ BookBooked(b, Fills)
      /\ \A k \in 1 .. Len(tape) : SoundFill(tape[k].match, tape[k].at)
  BY <1>1 DEF AccountInv
<1>3. /\ result.matches \in Seq(FillRecord) /\ Reckoned(M) /\ BookBooked(result.book, M)
      /\ \A p : /\ Booked(p, Fills, Len(Fills)) /\ p.txId # o.txId
                /\ Known(p.txId, TX_ID_LUT) => p.marketId # m
                => Booked(p, M, Len(M))
      /\ \A k \in 1 .. Len(result.matches) : SoundFill(result.matches[k], now)
  <2> HIDE DEF b
  <2>1. o.marketId = m
    OBVIOUS
  <2> QED
    BY <1>1, <1>2, <2>1, AddedBooked
<1>4. /\ tape \in Seq(TapeRecord) /\ LutOk(TX_ID_LUT)
      /\ order_books = [x \in DOMAIN order_books |-> order_books[x]]
      /\ \A x \in DOMAIN order_books : MarketBook(order_books[x], x, TX_ID_LUT, now)
  BY DEF IInv, TapeInv, BooksInv
<1>5. Continues(TX_ID_LUT', TX_ID_LUT) /\ Known(o.txId, TX_ID_LUT')
  BY <1>1, <1>4, Arrival
<1> HIDE DEF result, b, m
<1>6. Fills' = M
  <2> DEFINE old == Fills
             new == Fills'
             more == result.matches
             n == Len(tape)
             u == Len(more)
  <2>1. old \in Seq(FillRecord) /\ Len(old) = n /\ n \in Nat /\ \A k \in 1 .. n : old[k] = tape[k].match
    BY <1>2, <1>4, FillsOfTape DEF Reckoned
  <2>2. /\ DOMAIN new = 1 .. Len(tape') /\ new = [k \in 1 .. Len(tape') |-> new[k]]
        /\ \A k \in 1 .. Len(tape') : new[k] = tape'[k].match
    BY DEF Fills
  <2> HIDE DEF old, new, more
  <2>3. /\ old \o more \in Seq(FillRecord) /\ Len(old \o more) = n + u /\ u \in Nat
        /\ \A k \in 1 .. n : (old \o more)[k] = old[k]
        /\ \A k \in 1 .. u : (old \o more)[n + k] = more[k]
    <3>1. more \in Seq(FillRecord)
      BY <1>3 DEF more
    <3> HIDE DEF u, n
    <3>2. LET all == old \o more
          IN  /\ all \in Seq(FillRecord) /\ Len(all) = Len(old) + Len(more) /\ Len(old) \in Nat /\ Len(more) \in Nat
              /\ \A i \in 1 .. Len(old) : all[i] = old[i]
              /\ \A i \in 1 .. Len(more) : all[Len(old) + i] = more[i]
      <4>1. \A s, r \in Seq(FillRecord) :
                /\ s \o r \in Seq(FillRecord) /\ Len(s \o r) = Len(s) + Len(r) /\ Len(s) \in Nat /\ Len(r) \in Nat
                /\ \A i \in 1 .. Len(s) : (s \o r)[i] = s[i]
                /\ \A i \in 1 .. Len(r) : (s \o r)[Len(s) + i] = r[i]
        BY ConcatFacts
      <4> QED
        BY <2>1, <3>1, <4>1, Zenon
    <3> QED
      BY <2>1, <3>2 DEF u
  <2> DEFINE c == old \o more
  <2>4. c \in Seq(FillRecord) /\ Len(c) = n + u
    BY <2>3
  <2>5. c = [k \in 1 .. n + u |-> c[k]]
    <3>1. \A s \in Seq(FillRecord) : s = [k \in 1 .. Len(s) |-> s[k]]
      OBVIOUS
    <3> HIDE DEF c
    <3>2. c = [k \in 1 .. Len(c) |-> c[k]]
      BY <2>4, <3>1, Zenon
    <3> QED
      BY <2>4, <3>2
  <2>6. ASSUME NEW k \in 1 .. n + u PROVE new[k] = c[k]
    <3>1. Len(tape') = n + u
      BY <1>1 DEF more
    <3>2. CASE k \in 1 .. n
      <4>1. new[k] = tape'[k].match /\ tape'[k] = tape[k]
        BY <1>1, <2>2, <3>1, <3>2
      <4>2. c[k] = old[k] /\ old[k] = tape[k].match
        BY <2>1, <2>3, <3>2
      <4> QED
        BY <4>1, <4>2
    <3>3. CASE /\ k - n \in 1 .. u /\ tape'[k].match = more[k - n]
      <4>1. n + (k - n) = k
        BY <2>1, <2>3
      <4>2. c[n + (k - n)] = more[k - n]
        BY <2>3, <3>3
      <4> QED
        BY <2>2, <3>1, <3>3, <4>1, <4>2
    <3> QED
      BY <1>1, <3>2, <3>3 DEF more
  <2>7. new = c
    <3>1. new = [k \in 1 .. n + u |-> new[k]]
      BY <1>1, <2>2 DEF more
    <3> HIDE DEF c, n, u
    <3> QED
      BY <2>5, <2>6, <3>1
  <2> QED
    BY <2>7 DEF c, new, old, more
<1> HIDE DEF M
<1>7. ASSUME NEW p \in Orders, ~Known(p.txId, TX_ID_LUT') PROVE Booked(p, M, Len(M))
  <2>1. ~Known(p.txId, TX_ID_LUT) /\ p.txId # o.txId
    BY <1>5, <1>7 DEF Continues
  <2>2. Booked(p, Fills, Len(Fills))
    BY <2>1 DEF AccountInv
  <2> QED
    BY <1>3, <2>1, <2>2
<1>8. ASSUME NEW x \in DOMAIN order_books' PROVE BookBooked(order_books'[x], M)
  <2>1. CASE x = m
    <3>1. order_books'[x] = result.book
      BY <1>1, <1>4, <2>1
    <3> QED
      BY <1>3, <3>1
  <2>2. CASE x # m
    <3> DEFINE c == order_books[x]
    <3>1. order_books'[x] = c /\ x \in DOMAIN order_books
      BY <1>1, <1>4, <1>8, <2>2
    <3>2. Sides(c, x, TX_ID_LUT) /\ BookBooked(c, Fills)
      BY <1>4, <3>1 DEF MarketBook, AccountInv
    <3> HIDE DEF c
    <3>3. ASSUME NEW p, Placed(p, x, TX_ID_LUT), Booked(p, Fills, Len(Fills)) PROVE Booked(p, M, Len(M))
      <4>1. p.marketId # m /\ p.txId # o.txId
        BY <1>1, <2>2, <3>3 DEF Placed
      <4> QED
        BY <1>3, <3>3, <4>1
    <3>4. BookBooked(c, M)
      BY <3>2, <3>3 DEF Sides, BookBooked
    <3> QED
      BY <3>1, <3>4
  <2> QED
    BY <2>1, <2>2
<1>9. ASSUME NEW k \in 1 .. Len(tape') PROVE SoundFill(tape'[k].match, tape'[k].at)
  <2>1. CASE k \in 1 .. Len(tape)
    BY <1>1, <1>2, <2>1
  <2>2. CASE k - Len(tape) \in 1 .. Len(result.matches) /\ tape'[k].match = result.matches[k - Len(tape)] /\ tape'[k].at = now
    BY <1>3, <2>2
  <2> QED
    BY <1>1, <2>1, <2>2
<1> QED
  BY <1>3, <1>6, <1>7, <1>8, <1>9 DEF AccountInv

\* So does everything else.
LEMMA AccountNext == IInv /\ AccountInv /\ [Next]_vars => AccountInv'
<1> SUFFICES ASSUME IInv, AccountInv, [Next]_vars PROVE AccountInv'
  OBVIOUS
<1>1. ASSUME UNCHANGED <<TX_ID_LUT, tape>>, \A m \in DOMAIN order_books' : BookBooked(order_books'[m], Fills)
      PROVE  AccountInv'
  <2>1. Fills' = Fills
    BY <1>1 DEF Fills
  <2> QED
    BY <1>1, <2>1 DEF AccountInv
<1>2. \A m \in DOMAIN order_books : BookBooked(order_books[m], Fills)
  BY DEF AccountInv
<1>3. CASE UNCHANGED <<order_books, TX_ID_LUT, tape>>
  BY <1>1, <1>2, <1>3
<1>4. ASSUME NEW m \in MarketIds, add_market_insert(m) PROVE AccountInv'
  <2>1. /\ UNCHANGED <<TX_ID_LUT, tape>>
        /\ order_books' = [n \in DOMAIN order_books \cup {m} |-> IF n = m THEN EmptyBook ELSE order_books[n]]
    BY <1>4 DEF add_market_insert
  <2>2. ASSUME NEW n \in DOMAIN order_books' PROVE BookBooked(order_books'[n], Fills)
    <3>1. CASE n = m
      <4>1. order_books'[n] = EmptyBook /\ EmptyBook.bids = <<>> /\ EmptyBook.asks = <<>> /\ 1 .. Len(<<>>) = {}
        BY <2>1, <3>1 DEF EmptyBook
      <4> QED
        BY <4>1 DEF BookBooked
    <3>2. CASE n # m
      <4>1. n \in DOMAIN order_books /\ order_books'[n] = order_books[n]
        BY <2>1, <2>2, <3>2
      <4> QED
        BY <1>2, <4>1
    <3> QED
      BY <3>1, <3>2
  <2> QED
    BY <1>1, <2>1, <2>2
<1>5. ASSUME NEW m \in MarketIds, close_market(m) PROVE AccountInv'
  <2>1. /\ UNCHANGED <<TX_ID_LUT, tape>>
        /\ order_books' = [n \in DOMAIN order_books \ {m} |-> order_books[n]]
    BY <1>5 DEF close_market, Restrict
  <2>2. \A n \in DOMAIN order_books' : n \in DOMAIN order_books /\ order_books'[n] = order_books[n]
    BY <2>1
  <2> QED
    BY <1>1, <1>2, <2>1, <2>2
<1>6. ASSUME NEW o \in Orders, cancel_order(o.marketId, o.txId) PROVE AccountInv'
  <2> DEFINE m == o.marketId
             b == order_books[m]
             b2 == remove(b, o.txId)
  <2>1. /\ m \in DOMAIN order_books /\ UNCHANGED <<TX_ID_LUT, tape>>
        /\ order_books' = [order_books EXCEPT ![m] = b2]
    BY <1>6 DEF cancel_order
  <2>2. BookOk(b, Names)
    BY <2>1 DEF IInv, BooksInv, MarketBook, Sides
  <2>3. From(b2.bids, b.bids) /\ From(b2.asks, b.asks)
    <3> HIDE DEF b
    <3> QED
      BY <2>2, RemoveOutcome
  <2>4. BookBooked(b, Fills)
    BY <1>2, <2>1
  <2> HIDE DEF b, b2, m
  <2>5. BookBooked(b2, Fills)
    BY <2>3, <2>4 DEF From, BookBooked
  <2>6. \A n \in DOMAIN order_books' : \/ order_books'[n] = b2
                                       \/ n \in DOMAIN order_books /\ order_books'[n] = order_books[n]
    <3>1. order_books = [x \in DOMAIN order_books |-> order_books[x]]
      BY DEF IInv, BooksInv
    <3> QED
      BY <2>1, <3>1
  <2> QED
    BY <1>1, <1>2, <2>1, <2>5, <2>6
<1>7. ASSUME NEW o \in Orders, place_order(o) PROVE AccountInv'
  BY <1>7, AccountArrival
<1>8. CASE \/ \E m \in MarketIds : add_market_check(m)
           \/ Tick
           \/ UNCHANGED vars
  <2>1. UNCHANGED <<order_books, TX_ID_LUT, tape>>
    BY <1>8 DEF add_market_check, Tick, vars
  <2> QED
    BY <1>3, <2>1
<1> QED
  BY <1>4, <1>5, <1>6, <1>7, <1>8 DEF Next

\* The tape accounts for the fill state of every order, whatever is cancelled,
\* expires or is closed meanwhile: the engine keeps that state in the orders alone,
\* as copies that a fill hands on (the fill loop of Book::add, matching.rs).
THEOREM FillStateIsTape == Spec => []AccountInv
<1>1. Init => AccountInv
  BY AccountInit
<1>2. IInv /\ AccountInv /\ [Next]_vars => AccountInv'
  BY AccountNext
<1> QED
  BY <1>1, <1>2, BooksInvariant, PTL DEF Spec

\* No fill is at a price one side does not accept, and over all its fills no order
\* goes beyond its quantity or its collateral cap (max_fill and Book::add, matching.rs).
THEOREM FillsGood == Spec => []FillsRespectOrders
<1>1. IInv /\ AccountInv => FillsRespectOrders
  <2> SUFFICES ASSUME IInv, AccountInv PROVE FillsRespectOrders
    OBVIOUS
  <2>1. tape \in Seq(TapeRecord) /\ \A k \in 1 .. Len(tape) : GoodFill(tape[k].match)
    BY DEF IInv, TapeInv
  <2>2. Len(Fills) = Len(tape) /\ \A k \in 1 .. Len(tape) : Fills[k] = tape[k].match
    BY <2>1, FillsOfTape
  <2>3. ASSUME NEW o \in Orders
        PROVE  /\ o.sharesFilled + SharesOnTape(o.txId, Len(tape)) <= o.qtyShares
               /\ o.action = "BUY" => o.collateralFilled + CollateralOnTape(o, Len(tape)) <= o.collateralCap
    <3>1. Within(Fills, o)
      BY DEF AccountInv, Reckoned
    <3>2. /\ [k \in 1 .. Len(tape) |-> SharesTaken(tape[k].match, o.txId)]
                 = [k \in 1 .. Len(tape) |-> SharesTaken(Fills[k], o.txId)]
          /\ [k \in 1 .. Len(tape) |-> CollateralTaken(tape[k].match, o)]
                 = [k \in 1 .. Len(tape) |-> CollateralTaken(Fills[k], o)]
      BY <2>2
    <3>3. /\ SharesOnTape(o.txId, Len(tape)) = SharesIn(Fills, o.txId, Len(Fills))
          /\ CollateralOnTape(o, Len(tape)) = CollateralIn(Fills, o, Len(Fills))
      BY <2>2, <3>2 DEF SharesOnTape, CollateralOnTape, SharesIn, CollateralIn
    <3> QED
      BY <3>1, <3>3 DEF Within
  <2>4. ASSUME NEW k \in 1 .. Len(tape)
        PROVE  LET match == tape[k].match
               IN  /\ match.ask.limitYesPrice <= match.executionYesPrice
                   /\ match.executionYesPrice <= match.bid.limitYesPrice
    BY <2>1 DEF GoodFill
  <2> QED
    BY <2>3, <2>4 DEF FillsRespectOrders
<1> QED
  BY <1>1, BooksInvariant, FillStateIsTape, PTL

-----------------------------------------------------------------------------
(***************************************************************************)
(* The engine in front of the contract, with any losses, refusals and late *)
(* executions.  The engine judges a fill by the fill state the orders      *)
(* carry, the contract by what it has executed itself: what relates the    *)
(* two is the tape.                                                        *)
(***************************************************************************)
Authorizations == {AuthorizationOf(o) : o \in Orders}
FillState == [shares : Nat, collateral : Nat]

-----------------------------------------------------------------------------
(* What some of the fills take from an order. *)

SharesOver(M, S, o) == SumFunctionOnSet([k \in 1 .. Len(M) |-> SharesTaken(M[k], o.txId)], S)
CollateralOver(M, S, o) == SumFunctionOnSet([k \in 1 .. Len(M) |-> CollateralTaken(M[k], o)], S)

\* More fills take no less, and one more takes what it takes.
LEMMA OverFacts ==
    ASSUME NEW M \in Seq(FillRecord), NEW o, NEW R \in SUBSET (1 .. Len(M))
    PROVE  /\ SharesOver(M, R, o) \in Nat /\ CollateralOver(M, R, o) \in Nat
           /\ \A S \in SUBSET R : /\ SharesOver(M, S, o) <= SharesOver(M, R, o)
                                  /\ CollateralOver(M, S, o) <= CollateralOver(M, R, o)
           /\ \A k \in (1 .. Len(M)) \ R :
                  /\ SharesOver(M, R \cup {k}, o) = SharesOver(M, R, o) + SharesTaken(M[k], o.txId)
                  /\ CollateralOver(M, R \cup {k}, o) = CollateralOver(M, R, o) + CollateralTaken(M[k], o)
<1> DEFINE v == [k \in 1 .. Len(M) |-> SharesTaken(M[k], o.txId)]
           w == [k \in 1 .. Len(M) |-> CollateralTaken(M[k], o)]
<1>1. Len(M) \in Nat /\ \A k \in 1 .. Len(M) : M[k] \in FillRecord
  OBVIOUS
<1>2. \A k \in 1 .. Len(M) : /\ v[k] = SharesTaken(M[k], o.txId) /\ v[k] \in Nat
                             /\ w[k] = CollateralTaken(M[k], o) /\ w[k] \in Nat
  BY <1>1, TakenType
<1>3. IsFiniteSet(R)
  <2>1. IsFiniteSet(1 .. Len(M))
    BY <1>1, FS_Interval
  <2> QED
    BY <2>1, FS_Subset
<1> HIDE DEF v, w
<1>4. \A x \in R : v[x] \in Nat /\ w[x] \in Nat
  BY <1>2
<1>5. SumFunctionOnSet(v, R) \in Nat /\ SumFunctionOnSet(w, R) \in Nat
  BY <1>3, <1>4, SumType
<1>6. \A S \in SUBSET R : /\ SumFunctionOnSet(v, S) <= SumFunctionOnSet(v, R)
                          /\ SumFunctionOnSet(w, S) <= SumFunctionOnSet(w, R)
  BY <1>3, <1>4, SumMonotone
<1>7. ASSUME NEW k \in (1 .. Len(M)) \ R
      PROVE  /\ SumFunctionOnSet(v, R \cup {k}) = SumFunctionOnSet(v, R) + v[k]
             /\ SumFunctionOnSet(w, R \cup {k}) = SumFunctionOnSet(w, R) + w[k]
  <2>1. /\ SumFunctionOnSet(v, R \cup {k}) = v[k] + SumFunctionOnSet(v, R)
        /\ SumFunctionOnSet(w, R \cup {k}) = w[k] + SumFunctionOnSet(w, R)
    BY <1>2, <1>3, <1>4, SumOfAdded
  <2> QED
    BY <1>2, <1>5, <2>1
<1> QED
  BY <1>2, <1>5, <1>6, <1>7 DEF SharesOver, CollateralOver, v, w

\* The first n fills are some of the fills.
LEMMA InIsOver ==
    ASSUME NEW M \in Seq(FillRecord), NEW o, NEW n \in 0 .. Len(M)
    PROVE  SharesIn(M, o.txId, n) = SharesOver(M, 1 .. n, o) /\ CollateralIn(M, o, n) = CollateralOver(M, 1 .. n, o)
<1> DEFINE v == [k \in 1 .. Len(M) |-> SharesTaken(M[k], o.txId)]
           w == [k \in 1 .. Len(M) |-> CollateralTaken(M[k], o)]
           vn == [k \in 1 .. n |-> SharesTaken(M[k], o.txId)]
           wn == [k \in 1 .. n |-> CollateralTaken(M[k], o)]
<1>1. /\ \A k \in 1 .. n : vn[k] = v[k] /\ wn[k] = w[k]
      /\ DOMAIN vn = 1 .. n /\ DOMAIN wn = 1 .. n
  OBVIOUS
<1>2. IsFiniteSet(1 .. n)
  BY FS_Interval
<1> HIDE DEF v, w, vn, wn
<1>3. SumFunctionOnSet(vn, 1 .. n) = SumFunctionOnSet(v, 1 .. n) /\ SumFunctionOnSet(wn, 1 .. n) = SumFunctionOnSet(w, 1 .. n)
  <2> DEFINE S == 1 .. n
  <2>1. IsFiniteSet(S) /\ \A k \in S : vn[k] = v[k] /\ wn[k] = w[k]
    BY <1>1, <1>2
  <2> HIDE DEF S
  <2>2. SumFunctionOnSet(vn, S) = SumFunctionOnSet(v, S)
    BY <2>1, SumCongruence
  <2>3. SumFunctionOnSet(wn, S) = SumFunctionOnSet(w, S)
    BY <2>1, SumCongruence
  <2> QED
    BY <2>2, <2>3 DEF S
<1> QED
  BY <1>1, <1>3 DEF SharesIn, CollateralIn, SharesOver, CollateralOver, SumFunction, v, w, vn, wn

\* What is added to the tape changes nothing for the fills that are on it.
LEMMA OverStays ==
    ASSUME NEW M \in Seq(FillRecord), NEW M2, Len(M2) \in Nat, Len(M) <= Len(M2),
           \A k \in 1 .. Len(M) : M2[k] = M[k], NEW S \in SUBSET (1 .. Len(M)), NEW o
    PROVE  SharesOver(M2, S, o) = SharesOver(M, S, o) /\ CollateralOver(M2, S, o) = CollateralOver(M, S, o)
<1> DEFINE v == [k \in 1 .. Len(M) |-> SharesTaken(M[k], o.txId)]
           w == [k \in 1 .. Len(M) |-> CollateralTaken(M[k], o)]
           v2 == [k \in 1 .. Len(M2) |-> SharesTaken(M2[k], o.txId)]
           w2 == [k \in 1 .. Len(M2) |-> CollateralTaken(M2[k], o)]
<1>1. Len(M) \in Nat
  OBVIOUS
<1>2. ASSUME NEW k \in S PROVE v2[k] = v[k] /\ w2[k] = w[k]
  <2>1. k \in 1 .. Len(M)
    OBVIOUS
  <2>2. k \in 1 .. Len(M2) /\ M2[k] = M[k]
    BY <1>1, <2>1
  <2> QED
    BY <2>1, <2>2
<1>3. IsFiniteSet(S)
  <2>1. IsFiniteSet(1 .. Len(M))
    BY <1>1, FS_Interval
  <2> QED
    BY <2>1, FS_Subset
<1> HIDE DEF v, w, v2, w2
<1>4. SumFunctionOnSet(v2, S) = SumFunctionOnSet(v, S) /\ SumFunctionOnSet(w2, S) = SumFunctionOnSet(w, S)
  BY <1>2, <1>3, SumCongruence
<1> QED
  BY <1>4 DEF SharesOver, CollateralOver, v, w, v2, w2

-----------------------------------------------------------------------------
(* Match ids. *)

\* Each fill names the fill state of its orders before it, so no two fills of the
\* tape share an id: the contract refuses none of them as one it has executed.
LEMMA MatchIDsDiffer ==
    ASSUME NEW M, Reckoned(M), NEW j \in 1 .. Len(M), NEW k \in 1 .. Len(M), MatchID(M[j]) = MatchID(M[k])
    PROVE  j = k
<1>1. M \in Seq(FillRecord) /\ Ledger(M)
  BY DEF Reckoned
<1>2. ASSUME NEW a \in 1 .. Len(M), NEW b \in 1 .. Len(M), a < b, MatchID(M[a]) = MatchID(M[b])
      PROVE  FALSE
  <2> DEFINE t == M[a].bid.txId
  <2>1. M[b].bid.txId = t /\ M[a].bid.sharesFilled = M[b].bid.sharesFilled
    BY <1>2 DEF MatchID
  <2>2. Booked(M[a].bid, M, a - 1) /\ Booked(M[b].bid, M, b - 1)
    BY <1>1 DEF Ledger
  <2>3. PICK p \in Orders : SameTerms(M[a].bid, p)
    BY <2>2 DEF Booked
  <2>4. p.txId = t
    BY <2>3 DEF SameTerms
  <2>5. /\ M[a].bid.sharesFilled = p.sharesFilled + SharesIn(M, p.txId, a - 1)
        /\ M[b].bid.sharesFilled = p.sharesFilled + SharesIn(M, p.txId, b - 1)
    BY <2>1, <2>2, <2>4, BookedOnce
  <2>6. /\ a - 1 \in 0 .. Len(M) /\ b - 1 \in 0 .. Len(M) /\ Len(M) \in Nat
        /\ 1 .. a - 1 \in SUBSET (1 .. Len(M)) /\ 1 .. b - 1 \in SUBSET (1 .. Len(M))
        /\ (1 .. a - 1) \cup {a} \in SUBSET (1 .. b - 1) /\ a \in (1 .. Len(M)) \ (1 .. a - 1)
    BY <1>1, <1>2
  <2>7. /\ SharesIn(M, p.txId, a - 1) = SharesOver(M, 1 .. a - 1, p)
        /\ SharesIn(M, p.txId, b - 1) = SharesOver(M, 1 .. b - 1, p)
    BY <1>1, <2>6, InIsOver
  <2>8. /\ SharesOver(M, 1 .. a - 1, p) \in Nat /\ SharesOver(M, 1 .. b - 1, p) \in Nat
        /\ SharesOver(M, (1 .. a - 1) \cup {a}, p) = SharesOver(M, 1 .. a - 1, p) + SharesTaken(M[a], p.txId)
        /\ SharesOver(M, (1 .. a - 1) \cup {a}, p) <= SharesOver(M, 1 .. b - 1, p)
    BY <1>1, <2>6, OverFacts
  <2>9. SharesTaken(M[a], p.txId) \in Nat \ {0}
    <3>1. M[a] \in FillRecord
      BY <1>1
    <3> QED
      BY <2>4, <3>1 DEF SharesTaken, Takes, FillRecord
  <2>10. p.sharesFilled \in Nat
    BY OrdersAssumption DEF OrderRecord
  <2> DEFINE before == SharesOver(M, 1 .. a - 1, p)
             later == SharesOver(M, 1 .. b - 1, p)
             taken == SharesTaken(M[a], p.txId)
  <2>11. before \in Nat /\ later \in Nat /\ before + taken <= later /\ taken \in Nat \ {0}
    BY <2>8, <2>9
  <2>12. p.sharesFilled + before = p.sharesFilled + later
    BY <2>1, <2>5, <2>7
  <2> HIDE DEF before, later, taken
  <2> QED
    BY <2>10, <2>11, <2>12
<1>3. ~(j < k) /\ ~(k < j)
  BY <1>2
<1> QED
  BY <1>1, <1>3

-----------------------------------------------------------------------------
(* The inductive invariant. *)

\* The fills that have been dealt with and have executed.
Settled == {k \in 1 .. handled : MatchID(Fills[k]) \in executedMatches}

\* The contract has executed fills of the tape only, and what it has consumed of an
\* authorization is what those have taken from its order.
ChainInv ==
    /\ handled \in 0 .. Len(tape)
    /\ executedMatches \subseteq {MatchID(Fills[k]) : k \in 1 .. handled}
    /\ fills \in [Authorizations -> FillState]
    /\ authorizationByNonce \in [Accounts -> [{o.txId : o \in Orders} -> Authorizations \cup {NoHash}]]
    /\ \A o \in Orders :
           /\ authorizationByNonce[o.evmAddress][o.txId] \in {NoHash, AuthorizationOf(o)}
           /\ ~canceled[o.evmAddress][o.txId]
           /\ fills[AuthorizationOf(o)].shares = SharesOver(Fills, Settled, o)
           /\ fills[AuthorizationOf(o)].collateral = CollateralOver(Fills, Settled, o)

\* The tape as the proofs below use it.
LEMMA TapeFacts ==
    ASSUME IInv, AccountInv
    PROVE  /\ Reckoned(Fills) /\ Fills \in Seq(FillRecord) /\ Len(tape) \in Nat /\ Len(Fills) = Len(tape)
           /\ \A k \in 1 .. Len(tape) :
                  /\ Fills[k] = tape[k].match /\ Fills[k] \in FillRecord
                  /\ GoodFill(Fills[k]) /\ SoundFill(Fills[k], tape[k].at)
                  /\ tape[k].at \in Nat
<1>1. /\ tape \in Seq(TapeRecord) /\ \A k \in 1 .. Len(tape) : GoodFill(tape[k].match)
      /\ \A k \in 1 .. Len(tape) : SoundFill(tape[k].match, tape[k].at)
      /\ Reckoned(Fills)
  BY DEF IInv, TapeInv, AccountInv
<1>2. /\ Len(Fills) = Len(tape) /\ Len(tape) \in Nat
      /\ \A k \in 1 .. Len(tape) : Fills[k] = tape[k].match
  BY <1>1, FillsOfTape
<1>3. Fills \in Seq(FillRecord)
  BY <1>1 DEF Reckoned
<1>4. ASSUME NEW k \in 1 .. Len(tape) PROVE Fills[k] \in FillRecord /\ tape[k].at \in Nat
  <2>1. tape[k] \in TapeRecord
    BY <1>1
  <2>2. Fills[k] \in FillRecord
    BY <1>2, <1>3
  <2> QED
    BY <2>1, <2>2 DEF TapeRecord
<1> QED
  BY <1>1, <1>2, <1>3, <1>4

\* The two orders of a fill, as they arrived.
LEMMA OrdersOfFill ==
    ASSUME IInv, AccountInv, NEW k \in 1 .. Len(tape)
    PROVE  \E p, q \in Orders :
               /\ SameTerms(Fills[k].bid, p) /\ SameTerms(Fills[k].ask, q)
               /\ AuthorizationOf(Fills[k].bid) = AuthorizationOf(p)
               /\ AuthorizationOf(Fills[k].ask) = AuthorizationOf(q)
               /\ p.txId # q.txId /\ p.evmAddress # q.evmAddress
               /\ Takes(Fills[k], p.txId) /\ Takes(Fills[k], q.txId)
               /\ \A o \in Orders \ {p, q} : ~Takes(Fills[k], o.txId)
<1>1. Reckoned(Fills) /\ Len(Fills) = Len(tape) /\ SoundFill(Fills[k], tape[k].at)
  BY TapeFacts
<1>2. Booked(Fills[k].bid, Fills, k - 1) /\ Booked(Fills[k].ask, Fills, k - 1)
  BY <1>1 DEF Reckoned, Ledger
<1>3. PICK p, q \in Orders : SameTerms(Fills[k].bid, p) /\ SameTerms(Fills[k].ask, q)
  BY <1>2 DEF Booked
<1>4. /\ AuthorizationOf(Fills[k].bid) = AuthorizationOf(p)
      /\ AuthorizationOf(Fills[k].ask) = AuthorizationOf(q)
  BY <1>3 DEF SameTerms, AuthorizationOf
<1>5. p.evmAddress # q.evmAddress
  BY <1>1, <1>3 DEF SoundFill, same_trader, SameTerms
<1>6. Fills[k].bid.txId = p.txId /\ Fills[k].ask.txId = q.txId
  BY <1>3 DEF SameTerms
<1>7. p.txId # q.txId /\ \A o \in Orders \ {p, q} : o.txId # p.txId /\ o.txId # q.txId
  BY <1>5, OrdersAssumption
<1> QED
  BY <1>3, <1>4, <1>5, <1>6, <1>7 DEF Takes

\* What an order is authorized by is told by its id.
LEMMA OneAuthorization ==
    ASSUME NEW o \in Orders, NEW p \in Orders
    PROVE  /\ AuthorizationOf(o) \in Authorizations
           /\ AuthorizationOf(o).signer = o.evmAddress /\ AuthorizationOf(o).txId = o.txId
           /\ AuthorizationOf(o).side = o.side
           /\ AuthorizationOf(o) = AuthorizationOf(p) => o = p
<1>1. AuthorizationOf(o).txId = o.txId /\ AuthorizationOf(p).txId = p.txId
  BY DEF AuthorizationOf
<1> QED
  BY <1>1, OrdersAssumption DEF AuthorizationOf, Authorizations

\* What the settlement of a fill of the tape writes.
LEMMA SettleWrites ==
    ASSUME IInv, AccountInv, ChainInv, NEW k \in 1 .. Len(tape), Settles(tape[k])
    PROVE  /\ MatchID(Fills[k]) \notin executedMatches
           /\ executedMatches' = executedMatches \cup {MatchID(Fills[k])}
           /\ canceled' = canceled /\ now' = now
           /\ fills' \in [Authorizations -> FillState]
           /\ authorizationByNonce' \in [Accounts -> [{o.txId : o \in Orders} -> Authorizations \cup {NoHash}]]
           /\ \A o \in Orders :
                  /\ authorizationByNonce'[o.evmAddress][o.txId] \in {NoHash, AuthorizationOf(o)}
                  /\ fills'[AuthorizationOf(o)].shares
                         = fills[AuthorizationOf(o)].shares + SharesTaken(Fills[k], o.txId)
                  /\ fills'[AuthorizationOf(o)].collateral
                         = fills[AuthorizationOf(o)].collateral + CollateralTaken(Fills[k], o)
<1> DEFINE match == Fills[k]
           s == match.fillShares
           e == match.executionYesPrice
<1>1. match = tape[k].match /\ match \in FillRecord
  BY TapeFacts
<1>2. PICK p, q \in Orders :
               /\ AuthorizationOf(match.bid) = AuthorizationOf(p) /\ AuthorizationOf(match.ask) = AuthorizationOf(q)
               /\ p.txId # q.txId /\ p.evmAddress # q.evmAddress
               /\ Takes(match, p.txId) /\ Takes(match, q.txId)
               /\ \A o \in Orders \ {p, q} : ~Takes(match, o.txId)
  BY OrdersOfFill
<1>3. PICK a, b \in {AuthorizationOf(match.bid), AuthorizationOf(match.ask)} : Chain!settle(Operator, a, b, s, e, MatchID(match))
  BY <1>1 DEF Settles
<1> DEFINE c == Chain!LegCollateral(a, s, e)
           d == Chain!LegCollateral(b, s, e)
<1>4. /\ Chain!CanSettle(Operator, a, b, s, e, MatchID(match))
      /\ fills' = Chain!Consumed(Chain!Consumed(fills, a, s, c), b, s, d)
      /\ authorizationByNonce' = Chain!Bound(Chain!Bound(authorizationByNonce, a), b)
      /\ executedMatches' = executedMatches \cup {MatchID(match)}
      /\ canceled' = canceled /\ now' = now
  BY <1>3 DEF Chain!settle
<1>5. MatchID(match) \notin executedMatches /\ a.signer # b.signer
  BY <1>4 DEF Chain!CanSettle, Chain!Fresh
<1>6. PICK u, w \in {p, q} : a = AuthorizationOf(u) /\ b = AuthorizationOf(w) /\ u # w
  BY <1>2, <1>3, <1>5
<1>7. u \in Orders /\ w \in Orders /\ {u, w} = {p, q} /\ a \in Authorizations /\ b \in Authorizations /\ a # b
  BY <1>2, <1>5, <1>6, OneAuthorization
<1>8. ASSUME NEW o \in {u, w}
      PROVE  /\ s \in Nat /\ s = SharesTaken(match, o.txId)
             /\ Chain!LegCollateral(AuthorizationOf(o), s, e) \in Nat
             /\ Chain!LegCollateral(AuthorizationOf(o), s, e) = CollateralTaken(match, o)
  <2>1. Takes(match, o.txId) /\ AuthorizationOf(o).side = o.side
    BY <1>2, <1>7, OneAuthorization
  <2>2. Chain!LegCollateral(AuthorizationOf(o), s, e) = leg_collateral(o, s, e)
    BY <2>1 DEF Chain!LegCollateral, Chain!YesCollateral, Chain!NoCollateral, leg_collateral, YesLeg
  <2>3. CollateralTaken(match, o) \in Nat
    BY <1>1, TakenType
  <2> QED
    BY <1>1, <2>1, <2>2, <2>3 DEF CollateralTaken, SharesTaken, FillRecord
<1>9. /\ fills' \in [Authorizations -> FillState]
      /\ fills'[a].shares = fills[a].shares + s /\ fills'[a].collateral = fills[a].collateral + c
      /\ fills'[b].shares = fills[b].shares + s /\ fills'[b].collateral = fills[b].collateral + d
      /\ \A x \in Authorizations \ {a, b} : fills'[x] = fills[x]
  <2>1. fills \in [Authorizations -> FillState] /\ c \in Nat /\ d \in Nat
    BY <1>6, <1>8 DEF ChainInv
  <2>2. s \in Nat /\ a \in Authorizations /\ b \in Authorizations /\ a # b
    BY <1>7, <1>8
  <2> DEFINE h == Chain!Consumed(fills, a, s, c)
  <2>3. fills' = Chain!Consumed(h, b, s, d)
    BY <1>4
  <2> HIDE DEF c, d, s, e
  <2>4. /\ h \in [Authorizations -> FillState]
        /\ h[a] = [shares |-> fills[a].shares + s, collateral |-> fills[a].collateral + c]
        /\ \A x \in Authorizations \ {a} : h[x] = fills[x]
    <3>1. fills[a].shares + s \in Nat /\ fills[a].collateral + c \in Nat
      BY <2>1, <2>2 DEF FillState
    <3> DEFINE r == [shares |-> fills[a].shares + s, collateral |-> fills[a].collateral + c]
    <3>2. r \in FillState
      BY <3>1 DEF FillState
    <3>3. h = [fills EXCEPT ![a] = r]
      BY DEF Chain!Consumed
    <3> HIDE DEF r, h
    <3>4. h \in [Authorizations -> FillState] /\ h[a] = r /\ \A x \in Authorizations \ {a} : h[x] = fills[x]
      BY <2>1, <2>2, <3>2, <3>3
    <3> QED
      BY <3>4 DEF r
  <2> HIDE DEF h
  <2>5. /\ fills' \in [Authorizations -> FillState]
        /\ fills'[b] = [shares |-> h[b].shares + s, collateral |-> h[b].collateral + d]
        /\ \A x \in Authorizations \ {b} : fills'[x] = h[x]
    <3>1. h[b].shares + s \in Nat /\ h[b].collateral + d \in Nat
      BY <2>1, <2>2, <2>4, SMTT(60) DEF FillState
    <3> DEFINE r == [shares |-> h[b].shares + s, collateral |-> h[b].collateral + d]
    <3>2. r \in FillState
      BY <3>1 DEF FillState
    <3>3. fills' = [h EXCEPT ![b] = r]
      BY <2>3 DEF Chain!Consumed
    <3> HIDE DEF r
    <3>4. fills' \in [Authorizations -> FillState] /\ fills'[b] = r /\ \A x \in Authorizations \ {b} : fills'[x] = h[x]
      BY <2>2, <2>4, <3>2, <3>3
    <3> QED
      BY <3>4 DEF r
  <2> QED
    BY <2>2, <2>4, <2>5
<1>10. ASSUME NEW o \in Orders
       PROVE  /\ fills'[AuthorizationOf(o)].shares = fills[AuthorizationOf(o)].shares + SharesTaken(match, o.txId)
              /\ fills'[AuthorizationOf(o)].collateral = fills[AuthorizationOf(o)].collateral + CollateralTaken(match, o)
  <2>1. CASE o = u
    BY <1>6, <1>8, <1>9, <2>1
  <2>2. CASE o = w
    BY <1>6, <1>8, <1>9, <2>2
  <2>3. CASE o \notin {u, w}
    <3>1. AuthorizationOf(o) \in Authorizations \ {a, b} /\ AuthorizationOf(o) \in Authorizations
      BY <1>6, <1>7, <2>3, OneAuthorization
    <3>2. SharesTaken(match, o.txId) = 0 /\ CollateralTaken(match, o) = 0
      BY <1>2, <1>7, <2>3 DEF SharesTaken, CollateralTaken
    <3>3. fills[AuthorizationOf(o)].shares \in Nat /\ fills[AuthorizationOf(o)].collateral \in Nat
      BY <3>1 DEF ChainInv, FillState
    <3> QED
      BY <1>9, <3>1, <3>2, <3>3
  <2> QED
    BY <2>1, <2>2, <2>3
<1>11. /\ authorizationByNonce' \in [Accounts -> [{o.txId : o \in Orders} -> Authorizations \cup {NoHash}]]
       /\ \A o \in Orders : authorizationByNonce'[o.evmAddress][o.txId] \in {NoHash, AuthorizationOf(o)}
  <2> DEFINE TxIds == {o.txId : o \in Orders}
             Nonces == [Accounts -> [TxIds -> Authorizations \cup {NoHash}]]
             Held(n) == \A o \in Orders : n[o.evmAddress][o.txId] \in {NoHash, AuthorizationOf(o)}
  <2>1. ASSUME NEW n \in Nonces, Held(n), NEW v \in Orders
        PROVE  Chain!Bound(n, AuthorizationOf(v)) \in Nonces /\ Held(Chain!Bound(n, AuthorizationOf(v)))
    <3>1. /\ v.evmAddress \in Accounts /\ v.txId \in TxIds /\ AuthorizationOf(v) \in Authorizations
          /\ AuthorizationOf(v).signer = v.evmAddress /\ AuthorizationOf(v).txId = v.txId
      BY TradersAssumption, OneAuthorization
    <3>2. Chain!Bound(n, AuthorizationOf(v)) = [n EXCEPT ![v.evmAddress][v.txId] = AuthorizationOf(v)]
      BY <3>1 DEF Chain!Bound
    <3>3. ASSUME NEW o \in Orders PROVE [n EXCEPT ![v.evmAddress][v.txId] = AuthorizationOf(v)][o.evmAddress][o.txId] \in {NoHash, AuthorizationOf(o)}
      <4>1. o.evmAddress \in Accounts /\ o.txId \in TxIds /\ (o.txId = v.txId => o = v)
        BY TradersAssumption, OrdersAssumption
      <4>2. n[o.evmAddress][o.txId] \in {NoHash, AuthorizationOf(o)}
        BY <2>1
      <4> HIDE DEF TxIds
      <4> QED
        BY <3>1, <4>1, <4>2
    <3>4. [n EXCEPT ![v.evmAddress][v.txId] = AuthorizationOf(v)] \in Nonces
      <4> HIDE DEF TxIds
      <4> QED
        BY <3>1
    <3> QED
      BY <3>2, <3>3, <3>4
  <2>2. authorizationByNonce \in Nonces /\ Held(authorizationByNonce)
    BY DEF ChainInv
  <2>3. authorizationByNonce' \in Nonces /\ Held(authorizationByNonce')
    <3> HIDE DEF Nonces, Held
    <3>1. Chain!Bound(authorizationByNonce, AuthorizationOf(u)) \in Nonces /\ Held(Chain!Bound(authorizationByNonce, AuthorizationOf(u)))
      BY <1>7, <2>1, <2>2
    <3>2. LET n == Chain!Bound(authorizationByNonce, AuthorizationOf(u)) IN Chain!Bound(n, AuthorizationOf(w)) \in Nonces /\ Held(Chain!Bound(n, AuthorizationOf(w)))
      BY <1>7, <2>1, <3>1
    <3> QED
      BY <1>4, <1>6, <3>2
  <2> QED
    BY <2>3
<1> QED
  BY <1>4, <1>5, <1>9, <1>10, <1>11

\* Nothing is settled before anything is matched.
LEMMA ChainInit == BothInit => ChainInv
<1> SUFFICES ASSUME BothInit PROVE ChainInv
  OBVIOUS
<1>1. /\ tape = <<>> /\ handled = 0 /\ executedMatches = {}
      /\ fills = [h \in Authorizations |-> [shares |-> 0, collateral |-> 0]]
      /\ authorizationByNonce = [a \in Accounts |-> [t \in {o.txId : o \in Orders} |-> NoHash]]
      /\ canceled = [a \in Accounts |-> [t \in {o.txId : o \in Orders} |-> FALSE]]
  BY DEF BothInit, Init, Chain!Init, Authorizations
<1>2. Len(tape) = 0 /\ 1 .. 0 = {} /\ <<>> \in Seq(FillRecord) /\ Settled = {}
  BY <1>1 DEF Settled
<1>3. Fills = <<>>
  BY <1>1, <1>2 DEF Fills
<1>4. ASSUME NEW o \in Orders PROVE SharesOver(Fills, Settled, o) = 0 /\ CollateralOver(Fills, Settled, o) = 0
  <2>1. SharesIn(<<>>, o.txId, 0) = 0 /\ CollateralIn(<<>>, o, 0) = 0
    BY NothingTaken
  <2>2. SharesIn(<<>>, o.txId, 0) = SharesOver(<<>>, 1 .. 0, o) /\ CollateralIn(<<>>, o, 0) = CollateralOver(<<>>, 1 .. 0, o)
    <3>1. 0 \in 0 .. Len(<<>>)
      BY <1>1, <1>2
    <3> QED
      BY <1>2, <3>1, InIsOver
  <2> QED
    BY <1>2, <1>3, <2>1, <2>2
<1>5. ASSUME NEW o \in Orders
      PROVE  /\ o.evmAddress \in Accounts /\ o.txId \in {p.txId : p \in Orders} /\ AuthorizationOf(o) \in Authorizations
             /\ authorizationByNonce[o.evmAddress][o.txId] = NoHash
             /\ ~canceled[o.evmAddress][o.txId]
             /\ fills[AuthorizationOf(o)].shares = 0 /\ fills[AuthorizationOf(o)].collateral = 0
  BY <1>1, TradersAssumption, OneAuthorization
<1>6. fills \in [Authorizations -> FillState]
  BY <1>1 DEF FillState
<1>7. authorizationByNonce \in [Accounts -> [{o.txId : o \in Orders} -> Authorizations \cup {NoHash}]]
  BY <1>1
<1>8. handled \in 0 .. Len(tape) /\ executedMatches \subseteq {MatchID(Fills[k]) : k \in 1 .. handled}
  BY <1>1, <1>2
<1>9. \A o \in Orders :
         /\ authorizationByNonce[o.evmAddress][o.txId] \in {NoHash, AuthorizationOf(o)}
         /\ ~canceled[o.evmAddress][o.txId]
         /\ fills[AuthorizationOf(o)].shares = SharesOver(Fills, Settled, o)
         /\ fills[AuthorizationOf(o)].collateral = CollateralOver(Fills, Settled, o)
  BY <1>4, <1>5
<1> QED
  BY <1>6, <1>7, <1>8, <1>9 DEF ChainInv

\* The tape only grows.
LEMMA TapeGrows ==
    ASSUME IInv, AccountInv, [Next]_vars
    PROVE  /\ Len(tape) \in Nat /\ Len(tape') \in Nat /\ Len(tape) <= Len(tape') /\ Len(Fills') = Len(tape')
           /\ \A k \in 1 .. Len(tape) : Fills'[k] = Fills[k]
<1>1. Len(tape) \in Nat /\ \A k \in 1 .. Len(tape) : Fills[k] = tape[k].match
  BY TapeFacts
<1>2. /\ Len(tape') \in Nat /\ Len(tape) <= Len(tape')
      /\ \A k \in 1 .. Len(tape) : tape'[k] = tape[k]
  <2>1. CASE tape' = tape
    BY <1>1, <2>1
  <2>2. ASSUME NEW o \in Orders, place_order(o)
        PROVE  /\ Len(tape') \in Nat /\ Len(tape) <= Len(tape')
               /\ \A k \in 1 .. Len(tape) : tape'[k] = tape[k]
    <3> DEFINE result == add(order_books[o.marketId], o, now)
    <3>1. /\ tape' \in Seq(TapeRecord)
          /\ Len(tape') = Len(tape) + Len(result.matches)
          /\ \A k \in 1 .. Len(tape) : tape'[k] = tape[k]
      BY <2>2, PlaceOrder
    <3>2. Len(result.matches) \in Nat
      <4>1. result.matches \in Seq(MatchRecord(Names))
        BY <2>2, PlaceOrder
      <4> HIDE DEF result
      <4> QED
        BY <4>1
    <3> HIDE DEF result
    <3> QED
      BY <1>1, <3>1, <3>2
  <2> QED
    BY <2>1, <2>2 DEF Next, vars, add_market_check, add_market_insert, close_market, cancel_order, Tick
<1>3. Fills' = [k \in 1 .. Len(tape') |-> tape'[k].match]
  BY DEF Fills
<1> QED
  BY <1>1, <1>2, <1>3

\* A fill that was not dealt with is not executed.
LEMMA NotYetSettled ==
    ASSUME IInv, AccountInv, ChainInv, NEW k \in 1 .. Len(tape), handled < k
    PROVE  MatchID(Fills[k]) \notin executedMatches
<1>1. Reckoned(Fills) /\ Len(Fills) = Len(tape) /\ Len(tape) \in Nat
  BY TapeFacts
<1>2. handled \in 0 .. Len(tape) /\ executedMatches \subseteq {MatchID(Fills[j]) : j \in 1 .. handled}
  BY DEF ChainInv
<1>3. ASSUME NEW j \in 1 .. handled, MatchID(Fills[j]) = MatchID(Fills[k]) PROVE FALSE
  <2>1. j \in 1 .. Len(Fills) /\ k \in 1 .. Len(Fills) /\ j # k
    BY <1>1, <1>2
  <2> QED
    BY <1>1, <1>3, <2>1, MatchIDsDiffer
<1> QED
  BY <1>2, <1>3

\* The tape may grow and fills may be dealt with without being executed.
LEMMA NothingSettled ==
    ASSUME IInv, AccountInv, ChainInv, [Next]_vars,
           UNCHANGED <<fills, authorizationByNonce, canceled, executedMatches>>,
           handled' = handled \/ (handled < Len(tape) /\ handled' = handled + 1)
    PROVE  ChainInv'
<1>1. /\ Reckoned(Fills) /\ Fills \in Seq(FillRecord) /\ Len(Fills) = Len(tape)
  BY TapeFacts
<1>2. /\ Len(tape) \in Nat /\ Len(tape') \in Nat /\ Len(tape) <= Len(tape') /\ Len(Fills') = Len(tape')
      /\ \A k \in 1 .. Len(tape) : Fills'[k] = Fills[k]
  BY TapeGrows
<1>3. /\ handled \in 0 .. Len(tape) /\ executedMatches \subseteq {MatchID(Fills[k]) : k \in 1 .. handled}
  BY DEF ChainInv
<1>4. /\ handled' \in 0 .. Len(tape') /\ 1 .. handled \in SUBSET (1 .. handled') /\ 1 .. handled \in SUBSET (1 .. Len(tape))
      /\ \A k \in 1 .. handled' : k \in 1 .. handled \/ (k \in 1 .. Len(tape) /\ handled < k)
  BY <1>2, <1>3
<1>5. Settled' = Settled
  <2>1. Settled' = {k \in 1 .. handled' : MatchID(Fills'[k]) \in executedMatches}
    BY DEF Settled
  <2>2. \A k \in 1 .. handled : Fills'[k] = Fills[k]
    BY <1>2, <1>4
  <2>3. ASSUME NEW k \in 1 .. handled', k \notin 1 .. handled PROVE MatchID(Fills'[k]) \notin executedMatches
    BY <1>2, <1>4, <2>3, NotYetSettled
  <2> QED
    BY <1>4, <2>1, <2>2, <2>3 DEF Settled
<1>6. executedMatches' \subseteq {MatchID(Fills'[k]) : k \in 1 .. handled'}
  BY <1>2, <1>3, <1>4
<1>7. ASSUME NEW o \in Orders
      PROVE  /\ SharesOver(Fills', Settled', o) = SharesOver(Fills, Settled, o)
             /\ CollateralOver(Fills', Settled', o) = CollateralOver(Fills, Settled, o)
  <2>1. Settled \in SUBSET (1 .. Len(Fills))
    BY <1>1, <1>4 DEF Settled
  <2> QED
    BY <1>1, <1>2, <1>5, <2>1, OverStays
<1> QED
  BY <1>4, <1>6, <1>7 DEF ChainInv

\* A fill of the tape is executed.
LEMMA OneSettled ==
    ASSUME IInv, AccountInv, ChainInv, NEW k \in 1 .. Len(tape), Settles(tape[k]), tape' = tape,
           \/ k \in 1 .. handled /\ handled' = handled
           \/ k = handled + 1 /\ handled' = handled + 1
    PROVE  ChainInv'
<1>1. /\ Reckoned(Fills) /\ Fills \in Seq(FillRecord) /\ Len(Fills) = Len(tape) /\ Len(tape) \in Nat
  BY TapeFacts
<1>2. Fills' = Fills
  BY DEF Fills
<1>3. /\ handled \in 0 .. Len(tape) /\ executedMatches \subseteq {MatchID(Fills[j]) : j \in 1 .. handled}
  BY DEF ChainInv
<1>4. /\ MatchID(Fills[k]) \notin executedMatches
      /\ executedMatches' = executedMatches \cup {MatchID(Fills[k])}
      /\ canceled' = canceled
      /\ fills' \in [Authorizations -> FillState]
      /\ authorizationByNonce' \in [Accounts -> [{o.txId : o \in Orders} -> Authorizations \cup {NoHash}]]
      /\ \A o \in Orders :
             /\ authorizationByNonce'[o.evmAddress][o.txId] \in {NoHash, AuthorizationOf(o)}
             /\ fills'[AuthorizationOf(o)].shares
                    = fills[AuthorizationOf(o)].shares + SharesTaken(Fills[k], o.txId)
             /\ fills'[AuthorizationOf(o)].collateral
                    = fills[AuthorizationOf(o)].collateral + CollateralTaken(Fills[k], o)
  BY SettleWrites
<1>5. /\ handled' \in 0 .. Len(tape) /\ k \in 1 .. handled' /\ 1 .. handled \in SUBSET (1 .. handled')
      /\ 1 .. handled' \in SUBSET (1 .. Len(tape))
      /\ \A j \in 1 .. handled' : j \in 1 .. handled \/ j = k
  BY <1>1, <1>3
<1>6. Settled' = Settled \cup {k} /\ k \notin Settled
  <2>1. Settled' = {j \in 1 .. handled' : MatchID(Fills[j]) \in executedMatches \cup {MatchID(Fills[k])}}
    BY <1>2, <1>4 DEF Settled
  <2>2. \A j \in 1 .. handled' : MatchID(Fills[j]) = MatchID(Fills[k]) => j = k
    BY <1>1, <1>5, MatchIDsDiffer
  <2> QED
    BY <1>4, <1>5, <2>1, <2>2 DEF Settled
<1>7. executedMatches' \subseteq {MatchID(Fills[j]) : j \in 1 .. handled'}
  BY <1>3, <1>4, <1>5
<1>8. ASSUME NEW o \in Orders
      PROVE  /\ fills'[AuthorizationOf(o)].shares = SharesOver(Fills, Settled', o)
             /\ fills'[AuthorizationOf(o)].collateral = CollateralOver(Fills, Settled', o)
  <2>1. Settled \in SUBSET (1 .. Len(Fills)) /\ k \in (1 .. Len(Fills)) \ Settled
    BY <1>1, <1>5, <1>6 DEF Settled
  <2>2. /\ SharesOver(Fills, Settled \cup {k}, o) = SharesOver(Fills, Settled, o) + SharesTaken(Fills[k], o.txId)
        /\ CollateralOver(Fills, Settled \cup {k}, o) = CollateralOver(Fills, Settled, o) + CollateralTaken(Fills[k], o)
    BY <1>1, <2>1, OverFacts
  <2>3. /\ fills[AuthorizationOf(o)].shares = SharesOver(Fills, Settled, o)
        /\ fills[AuthorizationOf(o)].collateral = CollateralOver(Fills, Settled, o)
    BY DEF ChainInv
  <2> QED
    BY <1>4, <1>6, <2>2, <2>3
<1>9. \A o \in Orders : ~canceled'[o.evmAddress][o.txId]
  BY <1>4 DEF ChainInv
<1> QED
  BY <1>2, <1>4, <1>5, <1>7, <1>8, <1>9, ZenonT(60) DEF ChainInv

-----------------------------------------------------------------------------
(* The theorems. *)

\* Whatever happens between the book and the contract is a step of the book, or none.
LEMMA BookStepsOn == [BothNext]_allVars => [Next]_vars
<1> SUFFICES ASSUME [BothNext]_allVars PROVE [Next]_vars
  OBVIOUS
<1>1. CASE BookStep
  BY <1>1 DEF BookStep, Next
<1>2. CASE OwnerStep
  BY <1>2 DEF OwnerStep, bookVars, vars, Chain!associateCollateralToken, Chain!createMarket
<1>3. CASE SettleNext
  BY <1>3 DEF SettleNext, Settles, bookVars, vars, Chain!settle
<1>4. CASE SkipNext
  BY <1>4 DEF SkipNext, bookVars, vars
<1>5. CASE LateSettle
  BY <1>5 DEF LateSettle, Settles, bookVars, vars, Chain!settle
<1>6. CASE ClockStep
  BY <1>6 DEF ClockStep, bookVars, Next, Tick, Chain!Tick
<1>7. CASE UNCHANGED allVars
  BY <1>7 DEF allVars, bookVars, vars
<1> QED
  BY <1>1, <1>2, <1>3, <1>4, <1>5, <1>6, <1>7 DEF BothNext

\* In front of the contract the matching engine behaves as it does alone: nothing
\* the contract accepts, refuses or executes late comes back to it, so that all that
\* is proved of OrderBookService holds here.
THEOREM BookUnaware == BothSpec => Spec
<1>1. BothInit => Init
  BY DEF BothInit
<1>2. [BothNext]_allVars => [Next]_vars
  BY BookStepsOn
<1> QED
  BY <1>1, <1>2, PTL DEF BothSpec, Spec

\* Every step keeps what the contract has executed in step with the tape.
LEMMA ChainNext == IInv /\ AccountInv /\ ChainInv /\ [BothNext]_allVars => ChainInv'
<1> SUFFICES ASSUME IInv, AccountInv, ChainInv, [BothNext]_allVars PROVE ChainInv'
  OBVIOUS
<1>1. [Next]_vars
  BY BookStepsOn
<1>2. Len(tape) \in Nat /\ handled \in 0 .. Len(tape)
  BY TapeFacts DEF ChainInv
<1>3. ASSUME UNCHANGED <<fills, authorizationByNonce, canceled, executedMatches>>,
             handled' = handled \/ (handled < Len(tape) /\ handled' = handled + 1)
      PROVE  ChainInv'
  BY <1>1, <1>3, NothingSettled
<1>4. CASE BookStep \/ ClockStep \/ UNCHANGED allVars
  BY <1>3, <1>4 DEF BookStep, ClockStep, Chain!Tick, Chain!authVars, chainVars, allVars
<1>5. CASE OwnerStep
  BY <1>3, <1>5 DEF OwnerStep, Chain!associateCollateralToken, Chain!createMarket, Chain!authVars
<1>6. CASE SkipNext
  BY <1>3, <1>6 DEF SkipNext, chainVars
<1>7. CASE SettleNext
  <2>1. /\ handled < Len(tape) /\ Settles(tape[handled + 1]) /\ handled' = handled + 1 /\ tape' = tape
    BY <1>7 DEF SettleNext, Entry, bookVars
  <2>2. handled + 1 \in 1 .. Len(tape)
    BY <1>2, <2>1
  <2> QED
    BY <2>1, <2>2, OneSettled
<1>8. CASE LateSettle
  <2>1. PICK k \in 1 .. handled : Settles(tape[k]) /\ tape' = tape /\ handled' = handled
    BY <1>8 DEF LateSettle, bookVars
  <2>2. k \in 1 .. Len(tape)
    BY <1>2
  <2> QED
    BY <2>1, <2>2, OneSettled
<1> QED
  BY <1>4, <1>5, <1>6, <1>7, <1>8 DEF BothNext

\* What the contract has consumed of an authorization is what the executed fills of
\* the tape took from its order: _consume (PrismV2.sol:458-489) and the fill loop of
\* Book::add (matching.rs) keep the same accounts in two places.
THEOREM ChainIsTape == BothSpec => []ChainInv
<1>1. BothInit => ChainInv
  BY ChainInit
<1>2. IInv /\ AccountInv /\ ChainInv /\ [BothNext]_allVars => ChainInv'
  BY ChainNext
<1> QED
  BY <1>1, <1>2, BookUnaware, BooksInvariant, FillStateIsTape, PTL DEF BothSpec

\* What the contract has consumed of the order o is no more than what the fills that
\* were dealt with took from it, and a fill that is dealt with next fits.
LEMMA NeverAhead ==
    ASSUME IInv, AccountInv, ChainInv, NEW o \in Orders
    PROVE  /\ fills[AuthorizationOf(o)].shares \in Nat /\ fills[AuthorizationOf(o)].collateral \in Nat
           /\ fills[AuthorizationOf(o)].shares <= SharesIn(Fills, o.txId, handled)
           /\ fills[AuthorizationOf(o)].collateral <= CollateralIn(Fills, o, handled)
           /\ \A k \in 1 .. Len(tape) : handled < k =>
                  /\ fills[AuthorizationOf(o)].shares + SharesTaken(Fills[k], o.txId) <= o.qtyShares
                  /\ o.action = "BUY" =>
                         fills[AuthorizationOf(o)].collateral + CollateralTaken(Fills[k], o) <= o.collateralCap
<1> DEFINE n == Len(tape)
           f == fills[AuthorizationOf(o)]
<1>1. /\ Reckoned(Fills) /\ Fills \in Seq(FillRecord) /\ n \in Nat /\ Len(Fills) = n
  BY TapeFacts
<1>2. /\ handled \in 0 .. n
      /\ f.shares = SharesOver(Fills, Settled, o) /\ f.collateral = CollateralOver(Fills, Settled, o)
  BY DEF ChainInv
<1>3. Settled \in SUBSET (1 .. handled) /\ 1 .. handled \in SUBSET (1 .. n) /\ Settled \in SUBSET (1 .. n)
  BY <1>1, <1>2 DEF Settled
<1>4. /\ SharesOver(Fills, Settled, o) \in Nat /\ CollateralOver(Fills, Settled, o) \in Nat
  BY <1>1, <1>3, OverFacts
<1>5. /\ SharesOver(Fills, Settled, o) <= SharesOver(Fills, 1 .. handled, o)
      /\ CollateralOver(Fills, Settled, o) <= CollateralOver(Fills, 1 .. handled, o)
  BY <1>1, <1>3, OverFacts
<1>6. /\ SharesIn(Fills, o.txId, handled) = SharesOver(Fills, 1 .. handled, o)
      /\ CollateralIn(Fills, o, handled) = CollateralOver(Fills, 1 .. handled, o)
      /\ SharesIn(Fills, o.txId, n) = SharesOver(Fills, 1 .. n, o)
      /\ CollateralIn(Fills, o, n) = CollateralOver(Fills, 1 .. n, o)
  BY <1>1, <1>2, InIsOver
<1>7. ASSUME NEW k \in 1 .. n, handled < k
      PROVE  /\ f.shares + SharesTaken(Fills[k], o.txId) <= o.qtyShares
             /\ o.action = "BUY" => f.collateral + CollateralTaken(Fills[k], o) <= o.collateralCap
  <2>1. k \in (1 .. n) \ Settled /\ Settled \cup {k} \in SUBSET (1 .. n) /\ 1 .. n \in SUBSET (1 .. n)
    BY <1>2, <1>3, <1>7
  <2>2. /\ SharesOver(Fills, Settled \cup {k}, o) = f.shares + SharesTaken(Fills[k], o.txId)
        /\ CollateralOver(Fills, Settled \cup {k}, o) = f.collateral + CollateralTaken(Fills[k], o)
    BY <1>1, <1>2, <1>3, <2>1, OverFacts
  <2>3. /\ SharesOver(Fills, Settled \cup {k}, o) <= SharesOver(Fills, 1 .. n, o)
        /\ CollateralOver(Fills, Settled \cup {k}, o) <= CollateralOver(Fills, 1 .. n, o)
        /\ SharesOver(Fills, 1 .. n, o) \in Nat /\ CollateralOver(Fills, 1 .. n, o) \in Nat
    BY <1>1, <2>1, OverFacts
  <2>4. /\ o.sharesFilled + SharesIn(Fills, o.txId, n) <= o.qtyShares
        /\ o.action = "BUY" => o.collateralFilled + CollateralIn(Fills, o, n) <= o.collateralCap
    BY <1>1 DEF Reckoned, Within
  <2>5. /\ o.sharesFilled \in Nat /\ o.collateralFilled \in Nat /\ o.qtyShares \in Nat /\ o.collateralCap \in Nat
    BY OrdersAssumption DEF OrderRecord
  <2>6. /\ SharesTaken(Fills[k], o.txId) \in Nat /\ CollateralTaken(Fills[k], o) \in Nat
    BY TapeFacts, TakenType
  <2>7. SharesIn(Fills, o.txId, n) \in Nat /\ CollateralIn(Fills, o, n) \in Nat
    BY <1>6, <2>3
  <2> DEFINE ds == f.shares + SharesTaken(Fills[k], o.txId)
             dc == f.collateral + CollateralTaken(Fills[k], o)
             ss == SharesIn(Fills, o.txId, n)
             sc == CollateralIn(Fills, o, n)
  <2>8. ds \in Nat /\ dc \in Nat /\ ds <= ss /\ dc <= sc /\ ss \in Nat /\ sc \in Nat
    <3>1. f.shares \in Nat /\ f.collateral \in Nat
      BY <1>2, <1>4
    <3>2. ds \in Nat /\ dc \in Nat
      <4> HIDE DEF f
      <4> QED
        BY <2>6, <3>1
    <3> QED
      BY <1>6, <2>2, <2>3, <2>7, <3>2
  <2>9. o.sharesFilled + ss <= o.qtyShares /\ (o.action = "BUY" => o.collateralFilled + sc <= o.collateralCap)
    BY <2>4
  <2> HIDE DEF f, n, ds, dc, ss, sc
  <2>10. ds <= o.qtyShares /\ (o.action = "BUY" => dc <= o.collateralCap)
    BY <2>5, <2>8, <2>9
  <2> QED
    BY <2>10 DEF ds, dc
<1> HIDE DEF f, n
<1> QED
  BY <1>2, <1>4, <1>5, <1>6, <1>7 DEF f, n

\* The contract never consumes what the book has not filled (_consume, PrismV2.sol:458-489),
\* so the book never offers what is already spent.
THEOREM NeverAheadOfBook == BothSpec => []ContractNotAheadOfBook
<1>1. IInv /\ AccountInv /\ ChainInv => ContractNotAheadOfBook
  <2> SUFFICES ASSUME IInv, AccountInv, ChainInv, NEW o \in Orders
               PROVE  /\ fills[AuthorizationOf(o)].shares <= SharesOnTape(o.txId, handled)
                      /\ fills[AuthorizationOf(o)].collateral <= CollateralOnTape(o, handled)
    BY DEF ContractNotAheadOfBook
  <2>1. \A k \in 1 .. handled : Fills[k] = tape[k].match
    BY TapeFacts DEF ChainInv
  <2>2. /\ [k \in 1 .. handled |-> SharesTaken(tape[k].match, o.txId)]
               = [k \in 1 .. handled |-> SharesTaken(Fills[k], o.txId)]
        /\ [k \in 1 .. handled |-> CollateralTaken(tape[k].match, o)]
               = [k \in 1 .. handled |-> CollateralTaken(Fills[k], o)]
    BY <2>1
  <2> QED
    BY <2>2, NeverAhead DEF SharesOnTape, CollateralOnTape, SharesIn, CollateralIn
<1> QED
  BY <1>1, BookUnaware, BooksInvariant, FillStateIsTape, ChainIsTape, PTL

\* Whatever was lost, refused or executed late before, the contract finds nothing wrong
\* with a fill of the book that reaches it while its market trades and within the margin
\* of its orders' deadlines (settle, PrismV2.sol:266-293, 424-489).
LEMMA FillIsValid ==
    ASSUME IInv, AccountInv, ChainInv PROVE NextFillIsValid
<1> SUFFICES ASSUME handled < Len(tape), now <= tape[handled + 1].at + DEADLINE_MARGIN_SECS,
                    markets[tape[handled + 1].match.bid.marketId].state = "OPEN",
                    now < markets[tape[handled + 1].match.bid.marketId].closeTime
             PROVE  LET match == tape[handled + 1].match
                    IN  Chain!CanSettle(Operator, AuthorizationOf(match.bid), AuthorizationOf(match.ask),
                                        match.fillShares, match.executionYesPrice, MatchID(match))
  BY DEF NextFillIsValid, Entry
<1> DEFINE k == handled + 1
           match == Fills[k]
           s == match.fillShares
           e == match.executionYesPrice
<1>1. k \in 1 .. Len(tape) /\ handled < k
  BY TapeFacts DEF ChainInv
<1>2. /\ match = tape[k].match /\ match \in FillRecord /\ GoodFill(match) /\ SoundFill(match, tape[k].at)
      /\ tape[k].at \in Nat
  BY <1>1, TapeFacts
<1>3. MatchID(match) \notin executedMatches
  BY <1>1, NotYetSettled
<1>4. s \in Nat \ {0} /\ e \in 1 .. (PRICE_SCALE - 1) /\ PRICE_SCALE \in Nat
  BY <1>2, MatchingAssumption DEF FillRecord
<1>5. /\ YesLeg(s, e) # 0 /\ s - YesLeg(s, e) # 0
      /\ YesLeg(s, e) \in Nat /\ s - YesLeg(s, e) \in Nat
  BY <1>2, TakenType DEF SoundFill, split_collateral
<1>6. now \in Nat /\ DEADLINE_MARGIN_SECS \in Nat
  BY MatchingAssumption DEF IInv
<1>7. ASSUME NEW o \in {match.bid, match.ask}
      PROVE  /\ Chain!_validateAuthorization(AuthorizationOf(o), e)
             /\ Chain!CanConsume(AuthorizationOf(o), s, Chain!LegCollateral(AuthorizationOf(o), s, e))
  <2>1. PICK p \in Orders : SameTerms(o, p) /\ AuthorizationOf(o) = AuthorizationOf(p) /\ Takes(match, p.txId)
    BY <1>1, OrdersOfFill
  <2>2. /\ AuthorizationOf(p) \in Authorizations /\ AuthorizationOf(p).signer = p.evmAddress /\ AuthorizationOf(p).txId = p.txId /\ AuthorizationOf(p).side = p.side
    BY OneAuthorization
  <2>3. /\ AuthorizationOf(p).action = p.action /\ AuthorizationOf(p).limitYesPrice = p.limitYesPrice /\ AuthorizationOf(p).qtyShares = p.qtyShares
        /\ AuthorizationOf(p).collateralCap = p.collateralCap /\ AuthorizationOf(p).deadline = p.deadline /\ AuthorizationOf(p).here = TRUE
    BY DEF AuthorizationOf
  <2>4. /\ p.side \in {"YES", "NO"} /\ p.action \in {"BUY", "SELL"} /\ p.limitYesPrice \in 0 .. PRICE_SCALE
        /\ p.qtyShares \in Nat /\ p.collateralCap \in Nat /\ p.deadline \in Nat
    BY OrdersAssumption DEF OrderRecord
  <2>5. SharesTaken(match, p.txId) = s /\ CollateralTaken(match, p) = Chain!LegCollateral(AuthorizationOf(p), s, e)
    BY <2>1, <2>2 DEF SharesTaken, CollateralTaken, leg_collateral, YesLeg,
                      Chain!LegCollateral, Chain!YesCollateral, Chain!NoCollateral
  <2>6. Chain!LegCollateral(AuthorizationOf(p), s, e) \in Nat \ {0}
    BY <1>5 DEF Chain!LegCollateral, Chain!YesCollateral, Chain!NoCollateral, YesLeg
  <2>7. /\ fills[AuthorizationOf(p)].shares \in Nat /\ fills[AuthorizationOf(p)].collateral \in Nat
        /\ fills[AuthorizationOf(p)].shares + s <= p.qtyShares
        /\ p.action = "BUY" => fills[AuthorizationOf(p)].collateral + Chain!LegCollateral(AuthorizationOf(p), s, e) <= p.collateralCap
    BY <1>1, <2>5, NeverAhead
  <2>8. /\ authorizationByNonce[p.evmAddress][p.txId] \in {NoHash, AuthorizationOf(p)} /\ ~canceled[p.evmAddress][p.txId]
    BY DEF ChainInv
  <2> DEFINE leg == Chain!LegCollateral(AuthorizationOf(p), s, e)
  <2>9. Chain!CanConsume(AuthorizationOf(p), s, leg)
    <3> HIDE DEF leg, s
    <3> QED
      BY <2>2, <2>3, <2>7, <2>8 DEF Chain!CanConsume, leg
  <2>10. p.qtyShares # 0 /\ (p.action = "BUY" => p.collateralCap # 0)
    <3> DEFINE f == fills[AuthorizationOf(p)]
    <3>1. /\ f.shares \in Nat /\ f.collateral \in Nat /\ s \in Nat /\ s # 0 /\ leg \in Nat /\ leg # 0
          /\ f.shares + s <= p.qtyShares /\ (p.action = "BUY" => f.collateral + leg <= p.collateralCap)
      BY <1>4, <2>6, <2>7
    <3> HIDE DEF s, leg, f
    <3>2. p.qtyShares # 0
      BY <2>4, <3>1
    <3>3. p.action = "BUY" => p.collateralCap # 0
      BY <2>4, <3>1
    <3> QED
      BY <3>2, <3>3
  <2>11. p.deadline >= now
    <3>1. ~Expired(o, tape[k].at) /\ o.deadline = p.deadline
      BY <1>2, <2>1 DEF SoundFill, SameTerms
    <3> QED
      BY <1>2, <1>6, <2>4, <3>1 DEF Expired
  <2>12. Chain!WithinLimit(AuthorizationOf(p), e)
    <3>1. /\ o.limitYesPrice = p.limitYesPrice /\ (is_bid(o) <=> is_bid(p))
      BY <2>1 DEF SameTerms, is_bid
    <3>2. IF is_bid(p) THEN e <= p.limitYesPrice ELSE e >= p.limitYesPrice
      BY <1>2, <1>4, <2>4, <3>1 DEF SoundFill, GoodFill
    <3>3. is_bid(p) <=> ((p.side = "YES") = (p.action = "BUY"))
      BY <2>4 DEF is_bid
    <3> HIDE DEF e
    <3> QED
      BY <2>2, <2>3, <3>2, <3>3 DEF Chain!WithinLimit
  <2>13. Chain!_validateAuthorization(AuthorizationOf(p), e)
    <3> HIDE DEF e
    <3> QED
      BY <2>2, <2>3, <2>4, <2>8, <2>10, <2>11, <2>12 DEF Chain!_validateAuthorization, Authorizations
  <2> QED
    BY <2>1, <2>9, <2>13
<1>8. AuthorizationOf(match.bid).signer # AuthorizationOf(match.ask).signer /\ AuthorizationOf(match.bid).marketId = AuthorizationOf(match.ask).marketId
      /\ AuthorizationOf(match.bid).marketId = match.bid.marketId
  BY <1>2 DEF SoundFill, same_trader, AuthorizationOf
<1>9. Chain!YesCollateral(s, e) # 0 /\ Chain!NoCollateral(s, e) # 0
  BY <1>5 DEF Chain!YesCollateral, Chain!NoCollateral, YesLeg
<1>10. Chain!Trading(AuthorizationOf(match.bid).marketId)
  BY <1>2, <1>8 DEF Chain!Trading
<1>11. Chain!CanSettle(Operator, AuthorizationOf(match.bid), AuthorizationOf(match.ask), s, e, MatchID(match))
  <2>1. s # 0 /\ e # 0 /\ e < PRICE_SCALE
    BY <1>4
  <2> HIDE DEF s, e
  <2> QED
    BY <1>3, <1>7, <1>8, <1>9, <1>10, <2>1 DEF Chain!CanSettle, Chain!Fresh, Operator
<1> QED
  BY <1>2, <1>11

\* The contract finds nothing wrong with the next fill of the book, whatever the orders,
\* the losses, the refusals and the late executions (matching.rs:5, PrismV2.sol:266-293).
THEOREM BookFillsSettle == BothSpec => []NextFillIsValid
<1>1. IInv /\ AccountInv /\ ChainInv => NextFillIsValid
  BY FillIsValid
<1> QED
  BY <1>1, BookUnaware, BooksInvariant, FillStateIsTape, ChainIsTape, PTL
=============================================================================
