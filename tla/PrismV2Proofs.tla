--------------------------- MODULE PrismV2Proofs ---------------------------
(***************************************************************************)
(* Theorems about PrismV2 for every value of its constants: its types, its *)
(* solvency, what it allows an authorization, the life of a market; and,   *)
(* from the sums over accounts, markets and matches, that no redemption is *)
(* ever blocked, how little dust a void market keeps and that the ledgers  *)
(* stay in step.                                                           *)
(***************************************************************************)
EXTENDS PrismV2, FiniteSums

\* The two legs of a fill are naturals and add up to its shares.
LEMMA CollateralSplit ==
    ASSUME NEW s \in Nat, NEW p \in Nat, p <= PRICE_SCALE
    PROVE  /\ YesCollateral(s, p) \in Nat
           /\ NoCollateral(s, p) \in Nat
           /\ YesCollateral(s, p) + NoCollateral(s, p) = s
<1>1. PRICE_SCALE \in Nat \ {0}
  BY ConstantsAssumption
<1>2. s * p \in Nat /\ s * p <= s * PRICE_SCALE
  BY <1>1
<1>3. (s * p) \div PRICE_SCALE \in Nat
  BY <1>1, <1>2
<1>4. (s * p) \div PRICE_SCALE <= s
  BY <1>1, <1>2, <1>3
<1> QED
  BY <1>3, <1>4 DEF YesCollateral, NoCollateral

\* A transfer the sender can afford keeps every wallet a natural number.
LEMMA MovedType ==
    ASSUME NEW w \in [Addresses -> Nat], NEW from \in Addresses, NEW to \in Addresses,
           NEW amount \in Nat, w[from] >= amount
    PROVE  /\ Moved(w, from, to, amount) \in [Addresses -> Nat]
           /\ from # to => /\ Moved(w, from, to, amount)[from] = w[from] - amount
                           /\ Moved(w, from, to, amount)[to] = w[to] + amount
           /\ \A x \in Addresses \ {from, to} : Moved(w, from, to, amount)[x] = w[x]
  BY DEF Moved

\* The initial storage has its type.
LEMMA TypeInit == Init => TypeOK
<1> SUFFICES ASSUME Init PROVE TypeOK
  OBVIOUS
<1>1. roles \in [{"owner", "operator", "oracle", "dao"} -> Accounts] /\ defaultRakeBps \in 0 .. MAX_RAKE_BPS
  BY ConstantsAssumption DEF Init
<1>2. markets \in [MarketIds -> MarketType]
  BY ConstantsAssumption DEF Init, NoMarket, MarketType, States
<1>3. wallet \in [Addresses -> Nat]
  BY ConstantsAssumption DEF Init
<1>4. /\ authorizationByNonce \in [Accounts -> [TxIds -> Auths \cup {NoHash}]]
      /\ canceled \in [Accounts -> [TxIds -> BOOLEAN]]
      /\ executedMatches \in SUBSET MatchIds
  BY DEF Init
<1>5. /\ yesBalance \in [MarketIds -> [Accounts -> Nat]]
      /\ noBalance \in [MarketIds -> [Accounts -> Nat]]
      /\ fills \in [Auths -> [shares : Nat, collateral : Nat]]
  BY DEF Init
<1> QED
  BY <1>1, <1>2, <1>3, <1>4, <1>5 DEF Init, TypeOK

\* The administrative calls keep the types.
LEMMA TypeAdmin ==
    ASSUME TypeOK, NEW sender \in Accounts, Admin(sender)
    PROVE  TypeOK'
<1> USE ConstantsAssumption DEF TypeOK, authVars, moneyVars, adminVars
<1>1. CASE associateCollateralToken(sender)
  BY <1>1 DEF associateCollateralToken
<1>2. CASE \E account \in RoleArgs \cap {sender} : acceptOwnership(account)
  BY <1>2, ZenonT(60) DEF acceptOwnership
<1>3. CASE \E account \in RoleArgs : transferOwnership(sender, account)
  BY <1>3 DEF transferOwnership
<1>4. CASE \E account \in RoleArgs, slot \in {"operator", "oracle", "dao"} : setRole(sender, slot, account)
  <2>1. PICK account \in RoleArgs, slot \in {"operator", "oracle", "dao"} : setRole(sender, slot, account)
    BY <1>4
  <2>2. roles' \in [{"owner", "operator", "oracle", "dao"} -> Accounts]
    BY <2>1 DEF setRole
  <2> QED
    BY <2>1, <2>2 DEF setRole
<1>5. CASE \E rake \in RakeArgs : setDefaultRake(sender, rake)
  BY <1>5 DEF setDefaultRake
<1> QED
  BY <1>1, <1>2, <1>3, <1>4, <1>5 DEF Admin

\* The calls that move a market through its states keep the types.
LEMMA TypeLifecycle ==
    ASSUME TypeOK, NEW sender \in Accounts, NEW m \in MarketIds, Lifecycle(sender, m)
    PROVE  TypeOK'
<1> USE DEF TypeOK, authVars, moneyVars, adminVars
<1>1. CASE \E t \in CloseTimes : createMarket(sender, m, t)
  <2>1. PICK t \in CloseTimes : createMarket(sender, m, t)
    BY <1>1
  <2>2. [NoMarket EXCEPT !.state = "OPEN", !.closeTime = t, !.rakeBps = defaultRakeBps] \in MarketType
    BY ConstantsAssumption DEF NoMarket, MarketType, States
  <2> QED
    BY <2>1, <2>2 DEF createMarket
<1>2. ASSUME NEW state \in States, SetState(m, state) PROVE TypeOK'
  BY <1>2, ZenonT(60) DEF SetState, MarketType
<1> QED
  BY <1>1, <1>2 DEF Lifecycle, haltMarket, resumeMarket, closeMarket, resolveMarket, voidMarket, States

\* What the guards of settle say about the numbers it moves.
LEMMA SettleNumbers ==
    ASSUME TypeOK, NEW sender \in Accounts, NEW a \in Auths, NEW b \in Auths,
           NEW shares \in FillArgs, NEW price \in PriceArgs, NEW id \in MatchIds,
           CanSettle(sender, a, b, shares, price, id)
    PROVE  /\ shares \in Nat /\ shares > 0
           /\ price \in Nat /\ price > 0 /\ price < PRICE_SCALE
           /\ YesCollateral(shares, price) \in Nat
           /\ NoCollateral(shares, price) \in Nat
           /\ YesCollateral(shares, price) + NoCollateral(shares, price) = shares
           /\ LegCollateral(a, shares, price) \in Nat
           /\ LegCollateral(b, shares, price) \in Nat
<1>1. /\ shares \in Nat /\ shares > 0
      /\ price \in Nat /\ price > 0 /\ price < PRICE_SCALE
      /\ PRICE_SCALE \in Nat
  BY ConstantsAssumption DEF CanSettle
<1> QED
  BY <1>1, CollateralSplit DEF LegCollateral

\* The fields of an authorization have their types.
LEMMA AuthFields ==
    ASSUME NEW h \in Auths
    PROVE  /\ h.signer \in Accounts /\ h.marketId \in MarketIds /\ h.txId \in TxIds
           /\ h.side \in {"YES", "NO"} /\ h.action \in {"BUY", "SELL"}
           /\ h.limitYesPrice \in Nat /\ h.qtyShares \in Nat
           /\ h.collateralCap \in Nat /\ h.deadline \in Nat
           /\ h.signer \in Addresses /\ h.signer # This /\ This \in Addresses
           /\ h # NoHash
  BY ConstantsAssumption DEF AuthorizationType, Addresses

\* Writing the three quantities of a market record.
LEMMA MarketUpdate ==
    ASSUME NEW k \in MarketType, NEW ty \in Nat, NEW tn \in Nat, NEW r \in Nat
    PROVE  /\ WithTotals(k, ty, tn, r) \in MarketType
           /\ WithTotals(k, ty, tn, r).totalYes = ty
           /\ WithTotals(k, ty, tn, r).totalNo = tn
           /\ WithTotals(k, ty, tn, r).reserve = r
           /\ WithTotals(k, ty, tn, r).state = k.state
           /\ WithTotals(k, ty, tn, r).closeTime = k.closeTime
           /\ WithTotals(k, ty, tn, r).rakeBps = k.rakeBps
  BY DEF MarketType, WithTotals

\* Mint, merge and transfer keep the types of what they write.
LEMMA TypeMint ==
    ASSUME TypeOK, NEW y \in Auths, NEW n \in Auths, y.marketId = n.marketId,
           NEW shares \in Nat, NEW yc \in Nat, NEW nc \in Nat, yc + nc = shares,
           _mintCompleteSet(y, n, shares, yc, nc)
    PROVE  /\ markets' \in [MarketIds -> MarketType]
           /\ yesBalance' \in [MarketIds -> [Accounts -> Nat]]
           /\ noBalance' \in [MarketIds -> [Accounts -> Nat]]
           /\ aggregateReserved' \in Nat
           /\ wallet' \in [Addresses -> Nat]
           /\ wallet'[This] = wallet[This] + shares
<1> DEFINE paid == Moved(wallet, y.signer, This, yc)
<1>1. paid \in [Addresses -> Nat] /\ paid[This] = wallet[This] + yc
  <2>1. wallet \in [Addresses -> Nat] /\ wallet[y.signer] >= yc
    BY DEF _mintCompleteSet, CanMove, TypeOK
  <2> QED
    BY <2>1, AuthFields, MovedType
<1>2. /\ wallet' \in [Addresses -> Nat]
      /\ wallet'[This] = paid[This] + nc
  <2>1. wallet' = Moved(paid, n.signer, This, nc) /\ paid[n.signer] >= nc
    BY DEF _mintCompleteSet, CanMove
  <2> HIDE DEF paid
  <2> QED
    BY <1>1, <2>1, AuthFields, MovedType
<1>3. wallet'[This] = wallet[This] + shares
  <2>1. wallet[This] \in Nat
    BY DEF TypeOK, Addresses
  <2> HIDE DEF paid
  <2> QED
    BY <1>1, <1>2, <2>1
<1>4. markets' \in [MarketIds -> MarketType]
  <2> DEFINE k == markets[y.marketId]
             kk == WithTotals(k, k.totalYes + shares, k.totalNo + shares, k.reserve + shares)
  <2>1. markets' = [markets EXCEPT ![y.marketId] = kk]
    BY DEF _mintCompleteSet
  <2>2. k \in MarketType
    BY AuthFields DEF TypeOK
  <2>3. k.totalYes + shares \in Nat /\ k.totalNo + shares \in Nat /\ k.reserve + shares \in Nat
    BY <2>2 DEF _mintCompleteSet, MarketType
  <2>4. kk \in MarketType
    BY <2>2, <2>3, MarketUpdate
  <2> HIDE DEF kk
  <2> QED
    BY <2>1, <2>4 DEF TypeOK
<1>5. /\ yesBalance' \in [MarketIds -> [Accounts -> Nat]]
      /\ noBalance' \in [MarketIds -> [Accounts -> Nat]]
      /\ aggregateReserved' \in Nat
  BY AuthFields DEF _mintCompleteSet, TypeOK, Add
<1> QED
  BY <1>2, <1>3, <1>4, <1>5

\* Merging keeps positions, totals and reserves natural and pays out what it
\* unreserves.
LEMMA TypeMerge ==
    ASSUME TypeOK, NEW y \in Auths, NEW n \in Auths, y.marketId = n.marketId,
           NEW shares \in Nat, NEW yc \in Nat, NEW nc \in Nat, yc + nc = shares,
           _mergeCompleteSet(y, n, shares, yc, nc)
    PROVE  /\ markets' \in [MarketIds -> MarketType]
           /\ yesBalance' \in [MarketIds -> [Accounts -> Nat]]
           /\ noBalance' \in [MarketIds -> [Accounts -> Nat]]
           /\ aggregateReserved' \in Nat
           /\ wallet' \in [Addresses -> Nat]
           /\ wallet'[This] = wallet[This] - shares
<1> DEFINE paid == Moved(wallet, This, y.signer, yc)
<1>1. paid \in [Addresses -> Nat] /\ paid[This] = wallet[This] - yc
  <2>1. wallet \in [Addresses -> Nat] /\ wallet[This] >= yc
    BY DEF _mergeCompleteSet, CanMove, TypeOK
  <2> QED
    BY <2>1, AuthFields, MovedType
<1>2. /\ wallet' \in [Addresses -> Nat]
      /\ wallet'[This] = paid[This] - nc
  <2>1. wallet' = Moved(paid, This, n.signer, nc) /\ paid[This] >= nc
    BY DEF _mergeCompleteSet, CanMove
  <2> HIDE DEF paid
  <2> QED
    BY <1>1, <2>1, AuthFields, MovedType
<1>3. wallet'[This] = wallet[This] - shares
  <2>1. wallet[This] \in Nat
    BY DEF TypeOK, Addresses
  <2> HIDE DEF paid
  <2> QED
    BY <1>1, <1>2, <2>1
<1>4. markets' \in [MarketIds -> MarketType]
  <2> DEFINE k == markets[y.marketId]
             kk == WithTotals(k, k.totalYes - shares, k.totalNo - shares, k.reserve - shares)
  <2>1. markets' = [markets EXCEPT ![y.marketId] = kk]
    BY DEF _mergeCompleteSet
  <2>2. k \in MarketType
    BY AuthFields DEF TypeOK
  <2>3. k.totalYes - shares \in Nat /\ k.totalNo - shares \in Nat /\ k.reserve - shares \in Nat
    BY <2>2 DEF _mergeCompleteSet, MarketType
  <2>4. kk \in MarketType
    BY <2>2, <2>3, MarketUpdate
  <2> HIDE DEF kk
  <2> QED
    BY <2>1, <2>4 DEF TypeOK
<1>5. /\ yesBalance' \in [MarketIds -> [Accounts -> Nat]]
      /\ noBalance' \in [MarketIds -> [Accounts -> Nat]]
      /\ aggregateReserved' \in Nat
  BY AuthFields DEF _mergeCompleteSet, TypeOK, Sub
<1> QED
  BY <1>2, <1>3, <1>4, <1>5

\* A transfer keeps positions natural and leaves custody alone.
LEMMA TypeTransfer ==
    ASSUME TypeOK, NEW x \in Auths, NEW y \in Auths, x.marketId = y.marketId,
           NEW shares \in Nat, NEW c \in Nat,
           _transferPosition(x, y, shares, c)
    PROVE  /\ markets' = markets
           /\ yesBalance' \in [MarketIds -> [Accounts -> Nat]]
           /\ noBalance' \in [MarketIds -> [Accounts -> Nat]]
           /\ aggregateReserved' = aggregateReserved
           /\ wallet' \in [Addresses -> Nat]
           /\ wallet'[This] = wallet[This]
<1>1. /\ wallet' \in [Addresses -> Nat]
      /\ wallet'[This] = wallet[This]
  <2>1. /\ wallet \in [Addresses -> Nat] /\ wallet[x.signer] >= c
        /\ wallet' = Moved(wallet, x.signer, y.signer, c)
    BY DEF _transferPosition, CanMove, TypeOK
  <2> QED
    BY <2>1, AuthFields, MovedType
<1>2. markets' = markets /\ aggregateReserved' = aggregateReserved
  BY DEF _transferPosition
<1>3. \A bal \in [MarketIds -> [Accounts -> Nat]] : bal[x.marketId][y.signer] >= shares =>
          Add(Sub(bal, x.marketId, y.signer, shares), x.marketId, x.signer, shares)
              \in [MarketIds -> [Accounts -> Nat]]
  <2> SUFFICES ASSUME NEW bal \in [MarketIds -> [Accounts -> Nat]], bal[x.marketId][y.signer] >= shares
               PROVE  Add(Sub(bal, x.marketId, y.signer, shares), x.marketId, x.signer, shares)
                          \in [MarketIds -> [Accounts -> Nat]]
    OBVIOUS
  <2>1. Sub(bal, x.marketId, y.signer, shares) \in [MarketIds -> [Accounts -> Nat]]
    BY AuthFields DEF Sub
  <2> QED
    BY <2>1, AuthFields DEF Add
<1>4. yesBalance' \in [MarketIds -> [Accounts -> Nat]] /\ noBalance' \in [MarketIds -> [Accounts -> Nat]]
  BY <1>3 DEF _transferPosition, TypeOK
<1> QED
  BY <1>1, <1>2, <1>4

\* settle keeps the types, and custody grows by what it reserves.
LEMMA TypeSettle ==
    ASSUME TypeOK, NEW sender \in Accounts, NEW a \in Auths, NEW b \in Auths,
           NEW shares \in FillArgs, NEW price \in PriceArgs, NEW id \in MatchIds,
           settle(sender, a, b, shares, price, id)
    PROVE  /\ TypeOK'
           /\ wallet'[This] - aggregateReserved' = wallet[This] - aggregateReserved
<1> DEFINE yc == YesCollateral(shares, price)
           nc == NoCollateral(shares, price)
           ca == LegCollateral(a, shares, price)
           cb == LegCollateral(b, shares, price)
<1>1. CanSettle(sender, a, b, shares, price, id)
  BY DEF settle
<1>2. /\ shares \in Nat /\ yc \in Nat /\ nc \in Nat /\ yc + nc = shares
      /\ ca \in Nat /\ cb \in Nat
  BY <1>1, SettleNumbers
<1>3. a.marketId = b.marketId
  BY <1>1 DEF CanSettle
<1>4. fills' \in [Auths -> [shares : Nat, collateral : Nat]]
  <2>1. \A f \in [Auths -> [shares : Nat, collateral : Nat]], h \in Auths, c \in Nat :
            Consumed(f, h, shares, c) \in [Auths -> [shares : Nat, collateral : Nat]]
    BY <1>2 DEF Consumed
  <2>2. fills' = Consumed(Consumed(fills, a, shares, ca), b, shares, cb)
    BY DEF settle
  <2> HIDE DEF ca, cb
  <2> QED
    BY <1>2, <2>1, <2>2 DEF TypeOK
<1>5. authorizationByNonce' \in [Accounts -> [TxIds -> Auths \cup {NoHash}]]
  <2>1. authorizationByNonce' = Bound(Bound(authorizationByNonce, a), b)
    BY DEF settle
  <2>2. \A f \in [Accounts -> [TxIds -> Auths \cup {NoHash}]], h \in Auths :
            Bound(f, h) \in [Accounts -> [TxIds -> Auths \cup {NoHash}]]
    BY AuthFields DEF Bound
  <2> QED
    BY <2>1, <2>2 DEF TypeOK
<1>6. /\ executedMatches' \in SUBSET MatchIds
      /\ UNCHANGED <<adminVars, canceled, now>>
  BY DEF settle, TypeOK
<1>7. /\ markets' \in [MarketIds -> MarketType]
      /\ yesBalance' \in [MarketIds -> [Accounts -> Nat]]
      /\ noBalance' \in [MarketIds -> [Accounts -> Nat]]
      /\ aggregateReserved' \in Nat
      /\ wallet' \in [Addresses -> Nat]
      /\ wallet'[This] - aggregateReserved' = wallet[This] - aggregateReserved
  <2>0. wallet[This] \in Nat /\ aggregateReserved \in Nat /\ markets \in [MarketIds -> MarketType]
    BY DEF TypeOK, Addresses
  <2>1. CASE _mintCompleteSet(a, b, shares, yc, nc)
    <3>1. aggregateReserved' = aggregateReserved + shares
      BY <2>1 DEF _mintCompleteSet
    <3> HIDE DEF yc, nc
    <3>2. wallet'[This] = wallet[This] + shares
      BY <1>2, <1>3, <2>1, TypeMint
    <3>3. wallet'[This] - aggregateReserved' = wallet[This] - aggregateReserved
      BY <1>2, <2>0, <3>1, <3>2
    <3> QED
      BY <1>2, <1>3, <2>1, <3>3, TypeMint
  <2>2. CASE _mergeCompleteSet(a, b, shares, yc, nc)
    <3>1. aggregateReserved' = aggregateReserved - shares
      BY <2>2 DEF _mergeCompleteSet
    <3> HIDE DEF yc, nc
    <3>2. wallet'[This] = wallet[This] - shares
      BY <1>2, <1>3, <2>2, TypeMerge
    <3>3. wallet'[This] - aggregateReserved' = wallet[This] - aggregateReserved
      BY <1>2, <2>0, <3>1, <3>2
    <3> QED
      BY <1>2, <1>3, <2>2, <3>3, TypeMerge
  <2>3. CASE _transferPosition(a, b, shares, ca)
    <3> HIDE DEF ca
    <3> QED
      BY <1>2, <1>3, <2>0, <2>3, TypeTransfer
  <2> QED
    BY <2>1, <2>2, <2>3 DEF settle
<1> HIDE DEF yc, nc, ca, cb
<1> QED
  BY <1>4, <1>5, <1>6, <1>7 DEF TypeOK, adminVars

\* What redeem takes from a holder and pays, in numbers.
LEMMA RedeemNumbers ==
    ASSUME TypeOK, NEW m \in MarketIds, NEW acct \in Accounts
    PROVE  /\ Burned(m, acct).yes \in Nat /\ Burned(m, acct).yes <= yesBalance[m][acct]
           /\ Burned(m, acct).no \in Nat /\ Burned(m, acct).no <= noBalance[m][acct]
           /\ Gross(m, acct) \in Nat
           /\ Fee(m, acct) \in Nat /\ Fee(m, acct) <= Gross(m, acct)
<1>1. /\ yesBalance[m][acct] \in Nat /\ noBalance[m][acct] \in Nat
      /\ markets[m] \in MarketType
  BY DEF TypeOK
<1>2. /\ Burned(m, acct).yes \in Nat /\ Burned(m, acct).yes <= yesBalance[m][acct]
      /\ Burned(m, acct).no \in Nat /\ Burned(m, acct).no <= noBalance[m][acct]
  BY <1>1 DEF Burned
<1>3. Gross(m, acct) \in Nat
  BY <1>1, <1>2 DEF Gross, MarketType
<1>4. Fee(m, acct) \in Nat /\ Fee(m, acct) <= Gross(m, acct)
  <2>1. markets[m].rakeBps \in Nat /\ markets[m].rakeBps <= BPS /\ BPS \in Nat \ {0}
    BY <1>1, ConstantsAssumption DEF MarketType
  <2>2. \A g, r \in Nat : r <= BPS => (g * r) \div BPS \in Nat /\ (g * r) \div BPS <= g
    <3> SUFFICES ASSUME NEW g \in Nat, NEW r \in Nat, r <= BPS
                 PROVE  (g * r) \div BPS \in Nat /\ (g * r) \div BPS <= g
      OBVIOUS
    <3>1. g * r \in Nat /\ g * r <= g * BPS
      BY <2>1
    <3> QED
      BY <2>1, <3>1
  <2> QED
    BY <1>3, <2>1, <2>2 DEF Fee
<1> QED
  BY <1>2, <1>3, <1>4

\* redeem keeps the types, and custody shrinks by what it unreserves.
LEMMA TypeRedeem ==
    ASSUME TypeOK, NEW sender \in Accounts, NEW m \in MarketIds, redeem(sender, m)
    PROVE  /\ TypeOK'
           /\ wallet'[This] - aggregateReserved' = wallet[This] - aggregateReserved
           /\ markets[m] \in MarketType
           /\ markets' = [markets EXCEPT ![m] =
                 WithTotals(@, @.totalYes - Burned(m, sender).yes, @.totalNo - Burned(m, sender).no,
                            @.reserve - Gross(m, sender))]
           /\ markets'[m] \in MarketType
<1> DEFINE y == Burned(m, sender).yes
           n == Burned(m, sender).no
           g == Gross(m, sender)
           f == Fee(m, sender)
           k == markets[m]
           w1 == Moved(wallet, This, roles.dao, f)
<1>1. y \in Nat /\ n \in Nat /\ g \in Nat /\ f \in Nat /\ f <= g
      /\ y <= yesBalance[m][sender] /\ n <= noBalance[m][sender]
  BY RedeemNumbers
<1>2. /\ y <= k.totalYes /\ n <= k.totalNo /\ g <= k.reserve
      /\ g <= aggregateReserved /\ g <= wallet[This]
  BY DEF redeem, RedeemGoesThrough
<1>3. /\ yesBalance' = Sub(yesBalance, m, sender, y)
      /\ noBalance' = Sub(noBalance, m, sender, n)
      /\ markets' = [markets EXCEPT ![m] = WithTotals(k, k.totalYes - y, k.totalNo - n, k.reserve - g)]
      /\ aggregateReserved' = aggregateReserved - g
      /\ wallet' = Moved(w1, This, sender, g - f)
      /\ UNCHANGED <<adminVars, authVars, now>>
  BY DEF redeem
<1>4. k \in MarketType /\ wallet \in [Addresses -> Nat] /\ aggregateReserved \in Nat
  BY DEF TypeOK
<1>5. /\ roles.dao \in Accounts /\ roles.dao \in Addresses /\ roles.dao # This
      /\ sender \in Addresses /\ sender # This /\ This \in Addresses
  BY ConstantsAssumption DEF TypeOK, Addresses
<1> HIDE DEF y, n, g, f, k
<1>6. w1 \in [Addresses -> Nat] /\ w1[This] = wallet[This] - f
  BY <1>1, <1>2, <1>4, <1>5, MovedType
<1>7. wallet[This] \in Nat
  BY <1>4, <1>5
<1> HIDE DEF w1
<1>8. wallet' \in [Addresses -> Nat] /\ wallet'[This] = w1[This] - (g - f)
  <2>1. g - f \in Nat /\ w1[This] >= g - f
    BY <1>1, <1>2, <1>6, <1>7
  <2> DEFINE net == g - f
  <2> HIDE DEF net
  <2>2. wallet' = Moved(w1, This, sender, net) /\ net \in Nat /\ w1[This] >= net
    BY <1>3, <2>1 DEF net
  <2>3. wallet' \in [Addresses -> Nat] /\ wallet'[This] = w1[This] - net
    BY <1>5, <1>6, <2>2, MovedType
  <2> QED
    BY <2>3 DEF net
<1>9. /\ k.totalYes - y \in Nat /\ k.totalNo - n \in Nat /\ k.reserve - g \in Nat
  BY <1>1, <1>2, <1>4 DEF MarketType
<1>10. WithTotals(k, k.totalYes - y, k.totalNo - n, k.reserve - g) \in MarketType
  BY <1>4, <1>9, MarketUpdate
<1>11. markets' \in [MarketIds -> MarketType] /\ markets'[m] \in MarketType
  BY <1>3, <1>10 DEF TypeOK
<1>12. /\ yesBalance' \in [MarketIds -> [Accounts -> Nat]]
       /\ noBalance' \in [MarketIds -> [Accounts -> Nat]]
  BY <1>1, <1>3 DEF TypeOK, Sub
<1>13. wallet'[This] - aggregateReserved' = wallet[This] - aggregateReserved /\ aggregateReserved' \in Nat
  BY <1>1, <1>2, <1>3, <1>4, <1>6, <1>7, <1>8
<1>14. TypeOK'
  BY <1>3, <1>8, <1>11, <1>12, <1>13 DEF TypeOK, adminVars, authVars
<1> QED
  BY <1>3, <1>4, <1>11, <1>13, <1>14 DEF y, n, g, k

\* Cancelling, donating and the passing of time.
LEMMA TypeWorld ==
    ASSUME TypeOK,
           \/ \E c \in CancelArgs : cancelAuthorization(c[1], c[2])
           \/ \E from \in Donors : Donate(from, 1)
           \/ Tick
    PROVE  /\ TypeOK'
           /\ UNCHANGED <<aggregateReserved, markets, yesBalance, noBalance, fills, authorizationByNonce>>
           /\ wallet'[This] >= wallet[This]
<1>1. This \in Addresses /\ wallet[This] \in Nat
  BY DEF TypeOK, Addresses
<1>2. CASE \E c \in CancelArgs : cancelAuthorization(c[1], c[2])
  <2>1. PICK c \in Accounts \X TxIds : cancelAuthorization(c[1], c[2])
    BY <1>2, ConstantsAssumption
  <2>2. canceled' \in [Accounts -> [TxIds -> BOOLEAN]]
    BY <2>1 DEF cancelAuthorization, TypeOK
  <2> QED
    BY <1>1, <2>1, <2>2 DEF cancelAuthorization, TypeOK, adminVars, moneyVars
<1>3. CASE \E from \in Donors : Donate(from, 1)
  <2>1. PICK from \in Donors : Donate(from, 1)
    BY <1>3
  <2>2. /\ from \in Addresses /\ from # This
        /\ wallet \in [Addresses -> Nat] /\ wallet[from] >= 1
        /\ wallet' = Moved(wallet, from, This, 1)
    BY <2>1, ConstantsAssumption DEF Donate, CanMove, Addresses, TypeOK
  <2>3. wallet' \in [Addresses -> Nat] /\ wallet'[This] = wallet[This] + 1
    BY <1>1, <2>2, MovedType
  <2> QED
    BY <1>1, <2>1, <2>3 DEF Donate, TypeOK, adminVars, authVars
<1>4. CASE Tick
  BY <1>1, <1>4 DEF Tick, TypeOK, adminVars, authVars, moneyVars
<1> QED
  BY <1>2, <1>3, <1>4

\* Every step keeps the types.
LEMMA TypeStep == TypeOK /\ [Next]_vars => TypeOK'
<1> SUFFICES ASSUME TypeOK, [Next]_vars PROVE TypeOK'
  OBVIOUS
<1>1. CASE \E sender \in Accounts : Admin(sender)
  BY <1>1, TypeAdmin
<1>2. CASE \E sender \in Accounts, m \in MarketIds : Lifecycle(sender, m)
  BY <1>2, TypeLifecycle
<1>3. CASE \E sender \in Accounts, a, b \in Auths, shares \in FillArgs, price \in PriceArgs, id \in MatchIds :
               settle(sender, a, b, shares, price, id)
  BY <1>3, TypeSettle
<1>4. CASE \E sender \in Accounts, m \in MarketIds : redeem(sender, m)
  BY <1>4, TypeRedeem
<1>5. CASE UNCHANGED vars
  BY <1>5 DEF vars, TypeOK, adminVars, authVars, moneyVars
<1> QED
  BY <1>1, <1>2, <1>3, <1>4, <1>5, TypeWorld DEF Next

\* Type correctness of the contract's storage: no sequence of calls makes a
\* balance, a total or a reserve negative, with arbitrarily many accounts,
\* markets and authorizations.
THEOREM TypeCorrect == Spec => []TypeOK
<1>1. Init => TypeOK
  BY TypeInit
<1>2. TypeOK /\ [Next]_vars => TypeOK'
  BY TypeStep
<1> QED
  BY <1>1, <1>2, PTL DEF Spec

-----------------------------------------------------------------------------
(* Custody. *)

\* The calls that are neither a settlement nor a redemption leave positions,
\* reserves and fills alone.
LEMMA QuietCalls ==
    ASSUME \/ \E sender \in Accounts : Admin(sender)
           \/ \E sender \in Accounts, m \in MarketIds : Lifecycle(sender, m)
    PROVE  UNCHANGED <<moneyVars, authVars>>
<1>1. ASSUME NEW sender \in Accounts, Admin(sender) PROVE UNCHANGED <<moneyVars, authVars>>
  BY <1>1 DEF Admin, associateCollateralToken, acceptOwnership, transferOwnership, setRole, setDefaultRake
<1>2. ASSUME NEW sender \in Accounts, NEW m \in MarketIds, Lifecycle(sender, m)
      PROVE  UNCHANGED <<moneyVars, authVars>>
  BY <1>2 DEF Lifecycle, createMarket, SetState, haltMarket, resumeMarket, closeMarket, resolveMarket, voidMarket
<1> QED
  BY <1>1, <1>2

\* No step takes more out of custody than it takes off aggregateReserved.
LEMMA SurplusStep ==
    ASSUME TypeOK, [Next]_vars
    PROVE  wallet'[This] - aggregateReserved' >= wallet[This] - aggregateReserved
<1>0. wallet[This] \in Nat /\ aggregateReserved \in Nat
  BY DEF TypeOK, Addresses
<1>1. CASE \/ \E sender \in Accounts : Admin(sender)
           \/ \E sender \in Accounts, m \in MarketIds : Lifecycle(sender, m)
           \/ UNCHANGED vars
  BY <1>0, <1>1, QuietCalls DEF vars, moneyVars
<1>2. CASE \E sender \in Accounts, a, b \in Auths, shares \in FillArgs, price \in PriceArgs, id \in MatchIds :
               settle(sender, a, b, shares, price, id)
  <2>1. wallet'[This] - aggregateReserved' = wallet[This] - aggregateReserved
    BY <1>2, TypeSettle
  <2> QED
    BY <1>0, <2>1
<1>3. CASE \E sender \in Accounts, m \in MarketIds : redeem(sender, m)
  <2>1. wallet'[This] - aggregateReserved' = wallet[This] - aggregateReserved
    BY <1>3, TypeRedeem
  <2> QED
    BY <1>0, <2>1
<1>4. CASE \/ \E c \in CancelArgs : cancelAuthorization(c[1], c[2])
           \/ \E from \in Donors : Donate(from, 1)
           \/ Tick
  <2>1. wallet'[This] >= wallet[This] /\ aggregateReserved' = aggregateReserved /\ TypeOK'
    BY <1>4, TypeWorld
  <2>2. wallet'[This] \in Nat
    BY <2>1 DEF TypeOK, Addresses
  <2> QED
    BY <1>0, <2>1, <2>2
<1> QED
  BY <1>1, <1>2, <1>3, <1>4 DEF Next

\* No call, and no sequence of calls, takes more out of custody than it takes
\* off aggregateReserved: the collateral beyond the reserves never shrinks.
THEOREM CustodySurplus == Spec => SurplusNeverShrinks
<1>1. TypeOK /\ [Next]_vars => [wallet'[This] - aggregateReserved' >= wallet[This] - aggregateReserved]_vars
  BY SurplusStep
<1> QED
  BY <1>1, TypeCorrect, PTL DEF Spec, SurplusNeverShrinks

\* The contract holds what it owes.
Solvent == wallet[This] >= aggregateReserved

\* The contract is solvent after every call: it starts so, and the surplus of
\* its balance over aggregateReserved never shrinks, so _assertSolvent
\* (PrismV2.sol:569-571) never has to stop a call.
THEOREM AlwaysSolvent == Spec => []Solvent
<1>1. Init => Solvent
  BY ConstantsAssumption DEF Init, Solvent, Addresses
<1>2. TypeOK /\ TypeOK' /\ Solvent /\ [Next]_vars => Solvent'
  <2> SUFFICES ASSUME TypeOK, TypeOK', Solvent, [Next]_vars PROVE Solvent'
    OBVIOUS
  <2>1. wallet'[This] - aggregateReserved' >= wallet[This] - aggregateReserved
    BY SurplusStep
  <2>2. /\ wallet[This] \in Nat /\ aggregateReserved \in Nat
        /\ wallet'[This] \in Nat /\ aggregateReserved' \in Nat
    BY DEF TypeOK, Addresses
  <2> QED
    BY <2>1, <2>2 DEF Solvent
<1> QED
  BY <1>1, <1>2, TypeCorrect, PTL DEF Spec

-----------------------------------------------------------------------------
(* Complete sets. *)

\* settle keeps every market backed.
LEMMA BackedSettle ==
    ASSUME TypeOK, CompleteSetsBacked,
           NEW sender \in Accounts, NEW a \in Auths, NEW b \in Auths,
           NEW shares \in FillArgs, NEW price \in PriceArgs, NEW id \in MatchIds,
           settle(sender, a, b, shares, price, id)
    PROVE  CompleteSetsBacked'
<1> DEFINE mm == a.marketId
           k == markets[mm]
<1>1. /\ mm \in MarketIds /\ k \in MarketType /\ Backed(k)
      /\ shares \in Nat /\ k.state = "OPEN"
  <2>1. CanSettle(sender, a, b, shares, price, id)
    BY DEF settle
  <2> QED
    BY <2>1, AuthFields, SettleNumbers DEF TypeOK, CompleteSetsBacked, CanSettle, Trading
<1>2. ASSUME NEW r \in Nat, NEW ty \in Nat, NEW tn \in Nat, r = ty, r = tn,
             markets' = [markets EXCEPT ![mm] = WithTotals(k, ty, tn, r)]
      PROVE  CompleteSetsBacked'
  <2> DEFINE kk == WithTotals(k, ty, tn, r)
  <2>1. kk.state = "OPEN" /\ kk.reserve = r /\ kk.totalYes = ty /\ kk.totalNo = tn
    BY <1>1 DEF MarketType, WithTotals
  <2>2. Backed(kk)
    BY <1>2, <2>1 DEF Backed, Terminal
  <2> HIDE DEF kk
  <2>3. markets' = [markets EXCEPT ![mm] = kk]
    BY <1>2 DEF kk
  <2> QED
    BY <1>1, <2>2, <2>3 DEF CompleteSetsBacked, TypeOK
<1>3. k.reserve \in Nat /\ k.totalYes = k.reserve /\ k.totalNo = k.reserve
  BY <1>1 DEF Backed, Terminal, MarketType
<1>4. CASE _mintCompleteSet(a, b, shares, YesCollateral(shares, price), NoCollateral(shares, price))
  <2>1. markets' = [markets EXCEPT ![mm] = WithTotals(k, k.totalYes + shares, k.totalNo + shares, k.reserve + shares)]
    BY <1>4 DEF _mintCompleteSet
  <2>2. k.reserve + shares \in Nat
    BY <1>1, <1>3
  <2> QED
    BY <1>2, <1>3, <2>1, <2>2
<1>5. CASE _mergeCompleteSet(a, b, shares, YesCollateral(shares, price), NoCollateral(shares, price))
  <2>1. /\ markets' = [markets EXCEPT ![mm] = WithTotals(k, k.totalYes - shares, k.totalNo - shares, k.reserve - shares)]
        /\ k.reserve >= shares
    BY <1>5 DEF _mergeCompleteSet
  <2>2. k.reserve - shares \in Nat
    BY <1>1, <1>3, <2>1
  <2> QED
    BY <1>2, <1>3, <2>1, <2>2
<1>6. CASE _transferPosition(a, b, shares, LegCollateral(a, shares, price))
  BY <1>6 DEF _transferPosition, CompleteSetsBacked
<1> QED
  BY <1>4, <1>5, <1>6 DEF settle

\* redeem keeps every market backed, the last claim on a void market
\* included.
LEMMA BackedRedeem ==
    ASSUME TypeOK, CompleteSetsBacked, NEW sender \in Accounts, NEW m \in MarketIds, redeem(sender, m)
    PROVE  CompleteSetsBacked'
<1> DEFINE k == markets[m]
           y == Burned(m, sender).yes
           n == Burned(m, sender).no
           g == Gross(m, sender)
           kk == WithTotals(k, k.totalYes - y, k.totalNo - n, k.reserve - g)
<1>1. k \in MarketType /\ Backed(k)
  BY DEF TypeOK, CompleteSetsBacked
<1>2. /\ y \in Nat /\ n \in Nat /\ g \in Nat
      /\ y <= k.totalYes /\ n <= k.totalNo /\ g <= k.reserve
  BY RedeemNumbers DEF redeem, RedeemGoesThrough
<1>3. k.totalYes - y \in Nat /\ k.totalNo - n \in Nat /\ k.reserve - g \in Nat
      /\ k.totalYes \in Nat /\ k.totalNo \in Nat /\ k.reserve \in Nat
  BY <1>1, <1>2 DEF MarketType
<1>4. /\ kk.totalYes = k.totalYes - y /\ kk.totalNo = k.totalNo - n
      /\ kk.reserve = k.reserve - g /\ kk.state = k.state
  BY <1>1 DEF MarketType, WithTotals
<1>5. k.state \in Terminal
  BY DEF redeem, HasClaim
<1>6. ASSUME k.state = "RESOLVED_YES" PROVE Backed(kk)
  <2>1. g = y /\ k.reserve = k.totalYes
    BY <1>1, <1>2, <1>6 DEF Gross, Burned, Backed
  <2> QED
    BY <1>3, <1>4, <1>6, <2>1 DEF Backed, Terminal
<1>7. ASSUME k.state = "RESOLVED_NO" PROVE Backed(kk)
  <2>1. g = n /\ k.reserve = k.totalNo
    BY <1>1, <1>2, <1>7 DEF Gross, Burned, Backed
  <2> QED
    BY <1>3, <1>4, <1>7, <2>1 DEF Backed, Terminal
<1>8. ASSUME k.state = "VOID" PROVE Backed(kk)
  <2>1. 2 * k.reserve >= k.totalYes + k.totalNo
    BY <1>1, <1>8 DEF Backed
  <2>2. g = IF k.totalYes - y + (k.totalNo - n) = 0 THEN k.reserve ELSE (y + n) \div 2
    BY <1>8 DEF Gross
  <2> HIDE DEF y, n, g, k
  <2>3. /\ 2 * (k.reserve - g) >= (k.totalYes - y) + (k.totalNo - n)
        /\ (k.totalYes - y) + (k.totalNo - n) = 0 => k.reserve - g = 0
    <3>1. CASE k.totalYes - y + (k.totalNo - n) = 0
      <4>1. g = k.reserve /\ (k.totalYes - y) + (k.totalNo - n) = 0
        BY <2>2, <3>1
      <4>2. k.reserve - g = 0
        BY <1>3, <4>1
      <4> QED
        BY <4>1, <4>2
    <3>2. CASE k.totalYes - y + (k.totalNo - n) # 0
      BY <1>2, <1>3, <2>1, <2>2, <3>2
    <3> QED
      BY <3>1, <3>2
  <2> HIDE DEF kk
  <2> QED
    BY <1>4, <1>8, <2>3 DEF Backed, Terminal
<1>9. Backed(kk)
  BY <1>5, <1>6, <1>7, <1>8 DEF Terminal
<1>10. markets' = [markets EXCEPT ![m] = kk]
  BY DEF redeem
<1> HIDE DEF kk
<1> QED
  BY <1>9, <1>10 DEF CompleteSetsBacked, TypeOK

\* Creating, halting, closing and deciding a market keep it backed.
LEMMA BackedLifecycle ==
    ASSUME TypeOK, CompleteSetsBacked, NEW sender \in Accounts, NEW m \in MarketIds, Lifecycle(sender, m)
    PROVE  CompleteSetsBacked'
<1>1. markets \in [MarketIds -> MarketType] /\ markets[m] \in MarketType /\ Backed(markets[m])
  BY DEF TypeOK, CompleteSetsBacked
<1>2. ASSUME NEW kk, Backed(kk), markets' = [markets EXCEPT ![m] = kk] PROVE CompleteSetsBacked'
  BY <1>1, <1>2 DEF CompleteSetsBacked
<1>3. CASE \E t \in CloseTimes : createMarket(sender, m, t)
  <2>1. PICK t \in CloseTimes : createMarket(sender, m, t)
    BY <1>3
  <2> DEFINE kk == [NoMarket EXCEPT !.state = "OPEN", !.closeTime = t, !.rakeBps = defaultRakeBps]
  <2>2. Backed(kk)
    BY DEF Backed, NoMarket, Terminal
  <2>3. markets' = [markets EXCEPT ![m] = kk]
    BY <2>1 DEF createMarket
  <2> HIDE DEF kk
  <2> QED
    BY <1>2, <2>2, <2>3
<1>4. ASSUME NEW state \in States \ {"UNINITIALIZED"}, markets[m].state \notin Terminal, SetState(m, state)
      PROVE  CompleteSetsBacked'
  <2> DEFINE kk == [markets[m] EXCEPT !.state = state]
  <2>1. /\ kk.reserve = markets[m].reserve /\ kk.totalYes = markets[m].reserve
        /\ kk.totalNo = markets[m].reserve /\ markets[m].reserve \in Nat
    BY <1>1, <1>4 DEF Backed, MarketType
  <2>2. markets' = [markets EXCEPT ![m] = kk]
    BY <1>4 DEF SetState
  <2> HIDE DEF kk
  <2>3. Backed(kk)
    BY <2>1 DEF Backed
  <2> QED
    BY <1>2, <2>2, <2>3
<1> QED
  BY <1>3, <1>4 DEF Lifecycle, haltMarket, resumeMarket, closeMarket, resolveMarket, voidMarket, States, Terminal

\* Every market is backed one collateral unit per complete set, whatever
\* sequence of trades, halts, resolutions, voids and redemptions it sees.
THEOREM CompleteSets == Spec => []CompleteSetsBacked
<1>1. Init => CompleteSetsBacked
  BY DEF Init, CompleteSetsBacked, Backed, NoMarket, Terminal
<1>2. TypeOK /\ CompleteSetsBacked /\ [Next]_vars => CompleteSetsBacked'
  <2> SUFFICES ASSUME TypeOK, CompleteSetsBacked, [Next]_vars PROVE CompleteSetsBacked'
    OBVIOUS
  <2>1. CASE \E sender \in Accounts : Admin(sender)
    BY <2>1 DEF CompleteSetsBacked, Admin, associateCollateralToken, acceptOwnership,
                transferOwnership, setRole, setDefaultRake
  <2>2. CASE \E sender \in Accounts, m \in MarketIds : Lifecycle(sender, m)
    BY <2>2, BackedLifecycle
  <2>3. CASE \E sender \in Accounts, a, b \in Auths, shares \in FillArgs, price \in PriceArgs, id \in MatchIds :
                 settle(sender, a, b, shares, price, id)
    BY <2>3, BackedSettle
  <2>4. CASE \E sender \in Accounts, m \in MarketIds : redeem(sender, m)
    BY <2>4, BackedRedeem
  <2>5. CASE UNCHANGED vars
    BY <2>5 DEF vars, CompleteSetsBacked
  <2>6. ASSUME UNCHANGED markets PROVE CompleteSetsBacked'
    BY <2>6 DEF CompleteSetsBacked
  <2> QED
    BY <2>1, <2>2, <2>3, <2>4, <2>5, <2>6, TypeWorld DEF Next
<1> QED
  BY <1>1, <1>2, TypeCorrect, PTL DEF Spec

-----------------------------------------------------------------------------
(* Authorizations. *)

\* The inductive form: an authorization that was filled owns its nonce.
FilledOwnsNonce ==
    \A h \in Auths : fills[h].shares # 0 => authorizationByNonce[h.signer][h.txId] = h

FillsBounded ==
    \A h \in Auths : /\ fills[h].shares <= h.qtyShares
                     /\ h.action = "BUY" => fills[h].collateral <= h.collateralCap

\* settle keeps the fills within the authorizations and the nonces bound.
LEMMA FillsSettle ==
    ASSUME TypeOK, FilledOwnsNonce, FillsBounded,
           NEW sender \in Accounts, NEW a \in Auths, NEW b \in Auths,
           NEW shares \in FillArgs, NEW price \in PriceArgs, NEW id \in MatchIds,
           settle(sender, a, b, shares, price, id)
    PROVE  FilledOwnsNonce' /\ FillsBounded'
<1> DEFINE ca == LegCollateral(a, shares, price)
           cb == LegCollateral(b, shares, price)
<1>1. CanSettle(sender, a, b, shares, price, id)
  BY DEF settle
<1>2. /\ a.signer # b.signer /\ a # b
      /\ CanConsume(a, shares, ca) /\ CanConsume(b, shares, cb)
  BY <1>1 DEF CanSettle
<1>3. /\ fills \in [Auths -> [shares : Nat, collateral : Nat]]
      /\ authorizationByNonce \in [Accounts -> [TxIds -> Auths \cup {NoHash}]]
  BY DEF TypeOK
<1>4. /\ fills' = Consumed(Consumed(fills, a, shares, ca), b, shares, cb)
      /\ authorizationByNonce' = Bound(Bound(authorizationByNonce, a), b)
  BY DEF settle
<1> HIDE DEF ca, cb
<1>5. /\ fills'[a] = [shares |-> fills[a].shares + shares, collateral |-> fills[a].collateral + ca]
      /\ fills'[b] = [shares |-> fills[b].shares + shares, collateral |-> fills[b].collateral + cb]
      /\ \A h \in Auths \ {a, b} : fills'[h] = fills[h]
  BY <1>2, <1>3, <1>4 DEF Consumed
<1>6. /\ authorizationByNonce'[a.signer][a.txId] = a
      /\ authorizationByNonce'[b.signer][b.txId] = b
      /\ \A h \in Auths : \/ authorizationByNonce'[h.signer][h.txId] = authorizationByNonce[h.signer][h.txId]
                          \/ h.signer = a.signer /\ h.txId = a.txId
                          \/ h.signer = b.signer /\ h.txId = b.txId
  BY <1>2, <1>3, <1>4, AuthFields DEF Bound
<1>7. FillsBounded'
  BY <1>2, <1>5 DEF FillsBounded, CanConsume
<1>8. FilledOwnsNonce'
  <2> SUFFICES ASSUME NEW h \in Auths, fills'[h].shares # 0
               PROVE  authorizationByNonce'[h.signer][h.txId] = h
    BY DEF FilledOwnsNonce
  <2>1. CASE h \in {a, b}
    BY <1>6, <2>1
  <2>2. CASE h \notin {a, b}
    <3>1. authorizationByNonce[h.signer][h.txId] = h
      BY <1>5, <2>2 DEF FilledOwnsNonce
    <3>2. ~(h.signer = a.signer /\ h.txId = a.txId) /\ ~(h.signer = b.signer /\ h.txId = b.txId)
      BY <1>2, <2>2, <3>1, AuthFields DEF CanConsume
    <3> QED
      BY <1>6, <3>1, <3>2
  <2> QED
    BY <2>1, <2>2
<1> QED
  BY <1>7, <1>8

\* However often and with whatever counterparties the operator presents it, a
\* signed authorization is never filled beyond its quantity or its collateral
\* cap, and one nonce never serves two authorizations.
THEOREM AuthorizationsRespected == Spec => []FillsWithinAuthorization
<1> DEFINE IInv == FilledOwnsNonce /\ FillsBounded
<1>1. Init => IInv
  <2> SUFFICES ASSUME Init, NEW h \in Auths
               PROVE  /\ fills[h].shares = 0 /\ fills[h].collateral = 0
                      /\ h.qtyShares \in Nat /\ h.collateralCap \in Nat
    BY DEF FilledOwnsNonce, FillsBounded
  <2> QED
    BY AuthFields DEF Init
<1>2. TypeOK /\ IInv /\ [Next]_vars => IInv'
  <2> SUFFICES ASSUME TypeOK, IInv, [Next]_vars PROVE IInv'
    OBVIOUS
  <2>1. CASE \E sender \in Accounts, a, b \in Auths, shares \in FillArgs, price \in PriceArgs, id \in MatchIds :
                 settle(sender, a, b, shares, price, id)
    BY <2>1, FillsSettle
  <2>2. ASSUME UNCHANGED <<fills, authorizationByNonce>> PROVE IInv'
    BY <2>2 DEF FilledOwnsNonce, FillsBounded
  <2>3. CASE \E sender \in Accounts, m \in MarketIds : redeem(sender, m)
    BY <2>2, <2>3 DEF redeem, authVars
  <2>4. CASE \/ \E sender \in Accounts : Admin(sender)
             \/ \E sender \in Accounts, m \in MarketIds : Lifecycle(sender, m)
             \/ UNCHANGED vars
    BY <2>2, <2>4, QuietCalls DEF vars, authVars
  <2> QED
    BY <2>1, <2>2, <2>3, <2>4, TypeWorld DEF Next
<1>3. IInv => FillsWithinAuthorization
  BY DEF FilledOwnsNonce, FillsBounded, FillsWithinAuthorization
<1> QED
  BY <1>1, <1>2, <1>3, TypeCorrect, PTL DEF Spec

-----------------------------------------------------------------------------
(* The life of a market. *)

\* A market whose record and positions a step leaves alone, or whose record
\* only gets new totals while it trades, moves forward.
LEMMA ForwardTrade ==
    ASSUME TypeOK, NEW mm \in MarketIds, Trading(mm), NEW ty \in Nat, NEW tn \in Nat, NEW r \in Nat,
           markets' = [markets EXCEPT ![mm] = WithTotals(markets[mm], ty, tn, r)],
           \A x \in MarketIds \ {mm} : yesBalance'[x] = yesBalance[x] /\ noBalance'[x] = noBalance[x]
    PROVE  \A m \in MarketIds : StepForward(m)
<1> SUFFICES ASSUME NEW m \in MarketIds PROVE StepForward(m)
  OBVIOUS
<1> DEFINE kk == WithTotals(markets[mm], ty, tn, r)
<1>1. /\ markets \in [MarketIds -> MarketType] /\ markets[mm] \in MarketType
      /\ markets[m] \in MarketType /\ now \in Nat
  BY DEF TypeOK
<1>2. kk.state = "OPEN" /\ kk.closeTime = markets[mm].closeTime /\ kk.rakeBps = markets[mm].rakeBps
  BY <1>1 DEF Trading, WithTotals, MarketType
<1>3. markets[mm].state = "OPEN" /\ now < markets[mm].closeTime /\ markets[mm].closeTime \in Nat
  BY <1>1 DEF Trading, MarketType
<1> HIDE DEF kk
<1>4. markets' = [markets EXCEPT ![mm] = kk]
  BY DEF kk
<1>5. CASE m = mm
  <2>1. markets'[m] = kk
    BY <1>1, <1>4, <1>5
  <2> QED
    BY <1>1, <1>2, <1>3, <1>5, <2>1 DEF StepForward, Terminal
<1>6. CASE m # mm
  <2>1. markets'[m] = markets[m] /\ markets[m].reserve \in Nat
    BY <1>1, <1>4, <1>6 DEF MarketType
  <2> QED
    BY <1>6, <2>1 DEF StepForward, Terminal
<1> QED
  BY <1>5, <1>6

\* A step that changes no market and no position.
LEMMA ForwardQuiet ==
    ASSUME TypeOK, UNCHANGED <<markets, yesBalance, noBalance>>
    PROVE  \A m \in MarketIds : StepForward(m)
<1>1. \A m \in MarketIds : markets[m].reserve \in Nat
  BY DEF TypeOK, MarketType
<1> QED
  BY <1>1 DEF StepForward, Terminal

\* settle trades in one open market before its close time.
LEMMA ForwardSettle ==
    ASSUME TypeOK, NEW sender \in Accounts, NEW a \in Auths, NEW b \in Auths,
           NEW shares \in FillArgs, NEW price \in PriceArgs, NEW id \in MatchIds,
           settle(sender, a, b, shares, price, id)
    PROVE  \A m \in MarketIds : StepForward(m)
<1> DEFINE mm == a.marketId
           k == markets[mm]
<1>1. CanSettle(sender, a, b, shares, price, id)
  BY DEF settle
<1>2. /\ mm \in MarketIds /\ b.marketId = mm /\ Trading(mm) /\ shares \in Nat
      /\ a.signer \in Accounts /\ b.signer \in Accounts
      /\ k \in MarketType /\ k.totalYes \in Nat /\ k.totalNo \in Nat /\ k.reserve \in Nat
  BY <1>1, SettleNumbers, AuthFields DEF CanSettle, TypeOK, MarketType
<1>3. yesBalance \in [MarketIds -> [Accounts -> Nat]] /\ noBalance \in [MarketIds -> [Accounts -> Nat]]
  BY DEF TypeOK
<1>4. CASE _mintCompleteSet(a, b, shares, YesCollateral(shares, price), NoCollateral(shares, price))
  <2>1. /\ markets' = [markets EXCEPT ![mm] = WithTotals(k, k.totalYes + shares, k.totalNo + shares, k.reserve + shares)]
        /\ yesBalance' = Add(yesBalance, mm, a.signer, shares)
        /\ noBalance' = Add(noBalance, mm, b.signer, shares)
    BY <1>4 DEF _mintCompleteSet
  <2>2. k.totalYes + shares \in Nat /\ k.totalNo + shares \in Nat /\ k.reserve + shares \in Nat
    BY <1>2
  <2>3. \A x \in MarketIds \ {mm} : yesBalance'[x] = yesBalance[x] /\ noBalance'[x] = noBalance[x]
    BY <1>2, <1>3, <2>1 DEF Add
  <2> QED
    BY <1>2, <2>1, <2>2, <2>3, ForwardTrade
<1>5. CASE _mergeCompleteSet(a, b, shares, YesCollateral(shares, price), NoCollateral(shares, price))
  <2>1. /\ markets' = [markets EXCEPT ![mm] = WithTotals(k, k.totalYes - shares, k.totalNo - shares, k.reserve - shares)]
        /\ yesBalance' = Sub(yesBalance, mm, a.signer, shares)
        /\ noBalance' = Sub(noBalance, mm, b.signer, shares)
        /\ k.totalYes >= shares /\ k.totalNo >= shares /\ k.reserve >= shares
    BY <1>5 DEF _mergeCompleteSet
  <2>2. k.totalYes - shares \in Nat /\ k.totalNo - shares \in Nat /\ k.reserve - shares \in Nat
    BY <1>2, <2>1
  <2>3. \A x \in MarketIds \ {mm} : yesBalance'[x] = yesBalance[x] /\ noBalance'[x] = noBalance[x]
    BY <1>2, <1>3, <2>1 DEF Sub
  <2> QED
    BY <1>2, <2>1, <2>2, <2>3, ForwardTrade
<1>6. CASE _transferPosition(a, b, shares, LegCollateral(a, shares, price))
  <2>1. markets' = [markets EXCEPT ![mm] = WithTotals(k, k.totalYes, k.totalNo, k.reserve)]
    BY <1>2, <1>6 DEF _transferPosition, WithTotals, MarketType, TypeOK
  <2>2. \A x \in MarketIds \ {mm} : yesBalance'[x] = yesBalance[x] /\ noBalance'[x] = noBalance[x]
    BY <1>2, <1>3, <1>6 DEF _transferPosition, Add, Sub
  <2> QED
    BY <1>2, <2>1, <2>2, ForwardTrade
<1> QED
  BY <1>4, <1>5, <1>6 DEF settle

\* redeem takes from one decided market only.
LEMMA ForwardRedeem ==
    ASSUME TypeOK, NEW sender \in Accounts, NEW mm \in MarketIds, redeem(sender, mm)
    PROVE  \A m \in MarketIds : StepForward(m)
<1> SUFFICES ASSUME NEW m \in MarketIds PROVE StepForward(m)
  OBVIOUS
<1> DEFINE k == markets[mm]
           y == Burned(mm, sender).yes
           n == Burned(mm, sender).no
           g == Gross(mm, sender)
           kk == WithTotals(k, k.totalYes - y, k.totalNo - n, k.reserve - g)
<1>1. /\ markets \in [MarketIds -> MarketType] /\ k \in MarketType /\ k.state \in Terminal
      /\ k.reserve \in Nat /\ g \in Nat /\ g <= k.reserve
  BY RedeemNumbers DEF TypeOK, redeem, HasClaim, RedeemGoesThrough, MarketType
<1>2. markets' = [markets EXCEPT ![mm] = kk]
  BY DEF redeem
<1>3. CASE m = mm
  <2>1. /\ kk.state = k.state /\ kk.closeTime = k.closeTime /\ kk.rakeBps = k.rakeBps
        /\ kk.reserve = k.reserve - g
    BY <1>1 DEF WithTotals, MarketType
  <2> HIDE DEF kk, k, g
  <2>2. markets'[m] = kk /\ markets[m] = k
    BY <1>1, <1>2, <1>3 DEF k
  <2> QED
    BY <1>1, <2>1, <2>2 DEF StepForward, Terminal
<1>4. CASE m # mm
  <2> HIDE DEF kk
  <2>1. markets'[m] = markets[m] /\ markets[m].reserve \in Nat
    BY <1>1, <1>2, <1>4 DEF MarketType
  <2>2. yesBalance'[m] = yesBalance[m] /\ noBalance'[m] = noBalance[m]
    BY <1>4 DEF redeem, Sub, TypeOK
  <2> QED
    BY <2>1, <2>2 DEF StepForward, Terminal
<1> QED
  BY <1>3, <1>4

\* The calls of owner and oracle only take a market to a later state.
LEMMA ForwardLifecycle ==
    ASSUME TypeOK, NEW sender \in Accounts, NEW mm \in MarketIds, Lifecycle(sender, mm)
    PROVE  \A m \in MarketIds : StepForward(m)
<1> SUFFICES ASSUME NEW m \in MarketIds PROVE StepForward(m)
  OBVIOUS
<1>1. markets \in [MarketIds -> MarketType] /\ markets[mm] \in MarketType
  BY DEF TypeOK
<1>2. UNCHANGED <<yesBalance, noBalance>>
  BY QuietCalls DEF moneyVars
<1>3. CASE \E t \in CloseTimes : createMarket(sender, mm, t)
  <2>1. markets[mm].state = "UNINITIALIZED" /\ \A x \in MarketIds \ {mm} : markets'[x] = markets[x]
    BY <1>1, <1>3 DEF createMarket
  <2> QED
    BY <1>1, <1>2, <2>1 DEF StepForward, Terminal, MarketType
<1>4. ASSUME NEW state \in States \ {"UNINITIALIZED"}, markets[mm].state \notin Terminal,
             markets[mm].state = "CLOSED" => state \in Terminal,
             SetState(mm, state)
      PROVE  StepForward(m)
  <2> DEFINE kk == [markets[mm] EXCEPT !.state = state]
  <2>1. /\ kk.state = state /\ kk.reserve = markets[mm].reserve
        /\ kk.closeTime = markets[mm].closeTime /\ kk.rakeBps = markets[mm].rakeBps
    BY <1>1 DEF MarketType
  <2>2. markets' = [markets EXCEPT ![mm] = kk]
    BY <1>4 DEF SetState
  <2> HIDE DEF kk
  <2>3. CASE m = mm
    <3>1. markets'[m] = kk
      BY <1>1, <2>2, <2>3
    <3> QED
      BY <1>2, <1>4, <2>1, <2>3, <3>1 DEF StepForward, Terminal
  <2>4. CASE m # mm
    <3>1. markets'[m] = markets[m] /\ markets[m].reserve \in Nat
      BY <1>1, <2>2, <2>4 DEF MarketType
    <3> QED
      BY <1>2, <3>1 DEF StepForward, Terminal
  <2> QED
    BY <2>3, <2>4
<1> QED
  BY <1>3, <1>4 DEF Lifecycle, haltMarket, resumeMarket, closeMarket, resolveMarket, voidMarket, States, Terminal

\* Every step moves every market forward.
LEMMA NextForward ==
    ASSUME TypeOK, [Next]_vars
    PROVE  UNCHANGED vars \/ \A m \in MarketIds : StepForward(m)
<1> SUFFICES ASSUME Next PROVE \A m \in MarketIds : StepForward(m)
  OBVIOUS
<1>1. CASE \E sender \in Accounts : Admin(sender)
  <2>1. UNCHANGED <<markets, yesBalance, noBalance>>
    BY <1>1 DEF Admin, associateCollateralToken, acceptOwnership, transferOwnership,
                setRole, setDefaultRake, moneyVars
  <2> QED
    BY <2>1, ForwardQuiet
<1>2. CASE \E sender \in Accounts, m \in MarketIds : Lifecycle(sender, m)
  BY <1>2, ForwardLifecycle
<1>3. CASE \E sender \in Accounts, a, b \in Auths, shares \in FillArgs, price \in PriceArgs, id \in MatchIds :
               settle(sender, a, b, shares, price, id)
  BY <1>3, ForwardSettle
<1>4. CASE \E sender \in Accounts, m \in MarketIds : redeem(sender, m)
  BY <1>4, ForwardRedeem
<1>5. CASE \/ \E c \in CancelArgs : cancelAuthorization(c[1], c[2])
           \/ \E from \in Donors : Donate(from, 1)
           \/ Tick
  BY <1>5, TypeWorld, ForwardQuiet
<1> QED
  BY <1>1, <1>2, <1>3, <1>4, <1>5 DEF Next

\* Every market only moves forward, for any number of markets and whoever
\* holds the roles: a decision is final and its reserve only shrinks, a closed
\* market is only decided, the terms fixed at creation stay, and nothing
\* trades from the close time on.
THEOREM MarketsMoveForward == Spec => MarketMovesForward
<1>1. TypeOK /\ [Next]_vars => [\A m \in MarketIds : StepForward(m)]_vars
  BY NextForward
<1> QED
  BY <1>1, TypeCorrect, PTL DEF Spec, MarketMovesForward

-----------------------------------------------------------------------------
(* The sums of the contract.  Nobody's redemption can be blocked, for any  *)
(* number of accounts and markets: the guards of redeem compare one        *)
(* holder's balance with a total and one market's reserve with             *)
(* aggregateReserved, so the proof needs that the totals really are sums.  *)
(* The dust of a void market and the limit prices are bounded by counts,   *)
(* of accounts and of matches.                                             *)

SumsTo(f, S, t) == t = SumFunctionOnSet(f, S)

Reserves == [m \in MarketIds |-> markets[m].reserve]

\* totalYes, totalNo and aggregateReserved are the sums they stand for.
SumsInv ==
    /\ \A m \in MarketIds : /\ SumsTo(yesBalance[m], Accounts, markets[m].totalYes)
                            /\ SumsTo(noBalance[m], Accounts, markets[m].totalNo)
    /\ SumsTo(Reserves, MarketIds, aggregateReserved)

\* A market that was never created is empty.
UncreatedEmpty ==
    \A m \in MarketIds : markets[m].state = "UNINITIALIZED" =>
        markets[m].reserve = 0 /\ markets[m].totalYes = 0 /\ markets[m].totalNo = 0

\* The sums agree in the initial state.
LEMMA SumsInit == Init => SumsInv /\ UncreatedEmpty
<1> SUFFICES ASSUME Init PROVE SumsInv /\ UncreatedEmpty
  OBVIOUS
<1>1. \A m \in MarketIds : /\ markets[m].reserve = 0 /\ markets[m].totalYes = 0 /\ markets[m].totalNo = 0
  BY DEF Init, NoMarket
<1>2. ASSUME NEW m \in MarketIds
      PROVE  /\ yesBalance[m] \in [Accounts -> Nat] /\ \A x \in Accounts : yesBalance[m][x] = 0
             /\ noBalance[m] \in [Accounts -> Nat] /\ \A x \in Accounts : noBalance[m][x] = 0
  BY DEF Init
<1>3. ASSUME NEW m \in MarketIds
      PROVE  SumsTo(yesBalance[m], Accounts, 0) /\ SumsTo(noBalance[m], Accounts, 0)
  BY <1>2, SumOfZeros, FiniteAssumption DEF SumsTo
<1>4. Reserves \in [MarketIds -> Nat] /\ \A m \in MarketIds : Reserves[m] = 0
  BY <1>1 DEF Reserves
<1>5. SumsTo(Reserves, MarketIds, 0)
  BY <1>4, SumOfZeros, FiniteAssumption DEF SumsTo
<1>6. aggregateReserved = 0
  BY DEF Init
<1> QED
  BY <1>1, <1>3, <1>5, <1>6 DEF SumsInv, UncreatedEmpty

\* From the sums, the backing of complete sets and solvency, every guard of
\* redeem holds for whoever has a claim.
LEMMA SumsUnblock ==
    ASSUME TypeOK, SumsInv, CompleteSetsBacked, Solvent
    PROVE  RedeemNeverReverts
<1> SUFFICES ASSUME NEW m \in MarketIds, NEW acct \in Accounts, HasClaim(m, acct)
             PROVE  RedeemGoesThrough(m, acct)
  BY DEF RedeemNeverReverts
<1> DEFINE k == markets[m]
           y == Burned(m, acct).yes
           n == Burned(m, acct).no
           g == Gross(m, acct)
<1>1. /\ k \in MarketType /\ Backed(k) /\ k.state \in Terminal
      /\ wallet[This] \in Nat /\ aggregateReserved \in Nat /\ wallet[This] >= aggregateReserved
  BY DEF TypeOK, CompleteSetsBacked, HasClaim, Solvent, Addresses
<1>2. k.totalYes \in Nat /\ k.totalNo \in Nat /\ k.reserve \in Nat
  BY <1>1 DEF MarketType
<1>3. /\ y \in Nat /\ y <= yesBalance[m][acct] /\ n \in Nat /\ n <= noBalance[m][acct]
      /\ g \in Nat /\ Fee(m, acct) \in Nat /\ Fee(m, acct) <= g
  BY RedeemNumbers
<1>4. /\ yesBalance[m] \in [Accounts -> Nat] /\ noBalance[m] \in [Accounts -> Nat]
      /\ SumsTo(yesBalance[m], Accounts, k.totalYes) /\ SumsTo(noBalance[m], Accounts, k.totalNo)
  BY DEF TypeOK, SumsInv
<1>5. yesBalance[m][acct] <= k.totalYes /\ noBalance[m][acct] <= k.totalNo
      /\ yesBalance[m][acct] \in Nat /\ noBalance[m][acct] \in Nat
  BY <1>4, SummandBound, FiniteAssumption DEF SumsTo
<1>6. y <= k.totalYes /\ n <= k.totalNo
  BY <1>2, <1>3, <1>5
<1>7. k.reserve <= aggregateReserved
  <2>1. Reserves \in [MarketIds -> Nat] /\ SumsTo(Reserves, MarketIds, aggregateReserved) /\ Reserves[m] = k.reserve
    BY DEF TypeOK, MarketType, SumsInv, Reserves
  <2> QED
    BY <2>1, SummandBound, FiniteAssumption DEF SumsTo
<1>8. g <= k.reserve
  <2>1. CASE k.state = "RESOLVED_YES"
    BY <1>1, <1>2, <1>3, <1>6, <2>1 DEF Gross, Burned, Backed
  <2>2. CASE k.state = "RESOLVED_NO"
    BY <1>1, <1>2, <1>3, <1>6, <2>2 DEF Gross, Burned, Backed
  <2>3. CASE k.state = "VOID"
    <3>1. 2 * k.reserve >= k.totalYes + k.totalNo
      BY <1>1, <2>3 DEF Backed
    <3>2. g = k.reserve \/ g = (y + n) \div 2
      BY <2>3 DEF Gross
    <3> HIDE DEF y, n, g, k
    <3> QED
      BY <1>2, <1>3, <1>6, <3>1, <3>2
  <2> QED
    BY <1>1, <2>1, <2>2, <2>3 DEF Terminal
<1> HIDE DEF g
<1>9. /\ g <= aggregateReserved /\ g <= wallet[This]
      /\ wallet[This] - g >= aggregateReserved - g
  BY <1>1, <1>2, <1>3, <1>7, <1>8
<1> QED
  BY <1>3, <1>6, <1>8, <1>9 DEF RedeemGoesThrough, g

-----------------------------------------------------------------------------
(* The sums are preserved. *)

\* Changing one holder's balance in market m changes the sum of that market.
LEMMA SumOfAdd ==
    ASSUME NEW bal \in [MarketIds -> [Accounts -> Nat]], NEW m \in MarketIds, NEW acct \in Accounts,
           NEW t \in Nat, SumsTo(bal[m], Accounts, t), NEW s \in Nat
    PROVE  SumsTo(Add(bal, m, acct, s)[m], Accounts, t + s)
<1>1. bal[m] \in [Accounts -> Nat] /\ bal[m][acct] + s \in Nat /\ s \in Int
  OBVIOUS
<1>2. Add(bal, m, acct, s)[m] = [bal[m] EXCEPT ![acct] = @ + s]
  BY DEF Add
<1>3. SumsTo([bal[m] EXCEPT ![acct] = @ + s], Accounts, t + s)
  BY <1>1, SumOfUpdate, FiniteAssumption, ZenonT(60) DEF SumsTo
<1> QED
  BY <1>2, <1>3

\* Debiting an account lowers the sum of its market by as much.
LEMMA SumOfSub ==
    ASSUME NEW bal \in [MarketIds -> [Accounts -> Nat]], NEW m \in MarketIds, NEW acct \in Accounts,
           NEW t \in Nat, SumsTo(bal[m], Accounts, t), NEW s \in Nat, bal[m][acct] >= s
    PROVE  SumsTo(Sub(bal, m, acct, s)[m], Accounts, t - s)
<1>1. bal[m] \in [Accounts -> Nat] /\ bal[m][acct] + (-s) \in Nat /\ -s \in Int
  OBVIOUS
<1>2. Sub(bal, m, acct, s)[m] = [bal[m] EXCEPT ![acct] = @ + (-s)]
  BY DEF Sub
<1>3. SumsTo([bal[m] EXCEPT ![acct] = @ + (-s)], Accounts, t + (-s))
  BY <1>1, SumOfUpdate, FiniteAssumption, ZenonT(60) DEF SumsTo
<1>4. t + (-s) = t - s
  OBVIOUS
<1> QED
  BY <1>2, <1>3, <1>4

\* Crediting or debiting in one market leaves the others alone.
LEMMA OtherMarkets ==
    ASSUME NEW bal \in [MarketIds -> [Accounts -> Nat]], NEW m, NEW acct, NEW s,
           NEW x \in MarketIds \ {m}
    PROVE  Add(bal, m, acct, s)[x] = bal[x] /\ Sub(bal, m, acct, s)[x] = bal[x]
  BY DEF Add, Sub

\* Changing the reserve of market m by d together with aggregateReserved.
LEMMA SumOfReserves ==
    ASSUME TypeOK, SumsTo(Reserves, MarketIds, aggregateReserved),
           NEW m \in MarketIds, NEW d \in Int, markets[m].reserve + d \in Nat,
           NEW kk \in MarketType, kk.reserve = markets[m].reserve + d,
           markets' = [markets EXCEPT ![m] = kk], aggregateReserved' = aggregateReserved + d
    PROVE  SumsTo(Reserves', MarketIds, aggregateReserved')
<1>1. Reserves \in [MarketIds -> Nat] /\ Reserves[m] = markets[m].reserve
  BY DEF TypeOK, MarketType, Reserves
<1>2. Reserves' = [Reserves EXCEPT ![m] = @ + d]
  BY DEF TypeOK, Reserves
<1>3. SumsTo([Reserves EXCEPT ![m] = @ + d], MarketIds, aggregateReserved + d)
  BY <1>1, SumOfUpdate, FiniteAssumption DEF SumsTo
<1> QED
  BY <1>2, <1>3

\* One market and its two balance maps change, the sums stay right.
LEMMA SumsOneMarket ==
    ASSUME TypeOK, SumsInv, NEW m \in MarketIds, NEW kk \in MarketType,
           NEW d \in Int, markets[m].reserve + d \in Nat, kk.reserve = markets[m].reserve + d,
           markets' = [markets EXCEPT ![m] = kk], aggregateReserved' = aggregateReserved + d,
           SumsTo(yesBalance'[m], Accounts, kk.totalYes),
           SumsTo(noBalance'[m], Accounts, kk.totalNo),
           \A x \in MarketIds \ {m} : yesBalance'[x] = yesBalance[x] /\ noBalance'[x] = noBalance[x]
    PROVE  SumsInv'
<1>1. markets'[m] = kk /\ \A x \in MarketIds \ {m} : markets'[x] = markets[x]
  BY DEF TypeOK
<1>2. SumsTo(Reserves', MarketIds, aggregateReserved')
  BY SumOfReserves DEF SumsInv
<1>3. ASSUME NEW x \in MarketIds
      PROVE  /\ SumsTo(yesBalance'[x], Accounts, markets'[x].totalYes)
             /\ SumsTo(noBalance'[x], Accounts, markets'[x].totalNo)
  <2>1. CASE x = m
    BY <1>1, <2>1
  <2>2. CASE x # m
    BY <1>1, <2>2 DEF SumsInv
  <2> QED
    BY <2>1, <2>2
<1> QED
  BY <1>2, <1>3 DEF SumsInv

\* settle keeps the sums, along each of its three routes.
LEMMA SumsSettle ==
    ASSUME TypeOK, SumsInv, NEW sender \in Accounts, NEW a \in Auths, NEW b \in Auths,
           NEW shares \in FillArgs, NEW price \in PriceArgs, NEW id \in MatchIds,
           settle(sender, a, b, shares, price, id)
    PROVE  SumsInv'
<1> DEFINE m == a.marketId
           k == markets[m]
<1>1. CanSettle(sender, a, b, shares, price, id)
  BY DEF settle
<1>2. shares \in Nat /\ shares \in Int /\ -shares \in Int
  BY <1>1, SettleNumbers
<1>3. /\ m \in MarketIds /\ b.marketId = m /\ a.signer \in Accounts /\ b.signer \in Accounts
      /\ k \in MarketType /\ k.totalYes \in Nat /\ k.totalNo \in Nat /\ k.reserve \in Nat
      /\ aggregateReserved \in Nat
  BY <1>1, AuthFields DEF CanSettle, Trading, TypeOK, MarketType
<1>4. /\ yesBalance \in [MarketIds -> [Accounts -> Nat]] /\ noBalance \in [MarketIds -> [Accounts -> Nat]]
      /\ SumsTo(yesBalance[m], Accounts, k.totalYes) /\ SumsTo(noBalance[m], Accounts, k.totalNo)
  BY <1>3 DEF TypeOK, SumsInv
<1>5. CASE _mintCompleteSet(a, b, shares, YesCollateral(shares, price), NoCollateral(shares, price))
  <2> DEFINE kk == WithTotals(k, k.totalYes + shares, k.totalNo + shares, k.reserve + shares)
  <2>1. /\ markets' = [markets EXCEPT ![m] = kk] /\ aggregateReserved' = aggregateReserved + shares
        /\ yesBalance' = Add(yesBalance, m, a.signer, shares)
        /\ noBalance' = Add(noBalance, m, b.signer, shares)
    BY <1>5 DEF _mintCompleteSet
  <2>2. k.totalYes + shares \in Nat /\ k.totalNo + shares \in Nat /\ k.reserve + shares \in Nat
    BY <1>2, <1>3
  <2>3. /\ kk \in MarketType /\ kk.reserve = k.reserve + shares
        /\ kk.totalYes = k.totalYes + shares /\ kk.totalNo = k.totalNo + shares
    BY <1>3, <2>2 DEF MarketType, WithTotals
  <2> HIDE DEF kk
  <2>4. /\ SumsTo(yesBalance'[m], Accounts, kk.totalYes)
        /\ SumsTo(noBalance'[m], Accounts, kk.totalNo)
        /\ \A x \in MarketIds \ {m} : yesBalance'[x] = yesBalance[x] /\ noBalance'[x] = noBalance[x]
    <3> HIDE DEF k, m
    <3>1. SumsTo(Add(yesBalance, m, a.signer, shares)[m], Accounts, k.totalYes + shares)
      BY <1>2, <1>3, <1>4, SumOfAdd
    <3>2. SumsTo(Add(noBalance, m, b.signer, shares)[m], Accounts, k.totalNo + shares)
      BY <1>2, <1>3, <1>4, SumOfAdd
    <3> QED
      BY <1>4, <2>1, <2>3, <3>1, <3>2, OtherMarkets
  <2> HIDE DEF k, m
  <2> QED
    BY <1>2, <1>3, <2>1, <2>2, <2>3, <2>4, SumsOneMarket DEF k
<1>6. CASE _mergeCompleteSet(a, b, shares, YesCollateral(shares, price), NoCollateral(shares, price))
  <2> DEFINE kk == WithTotals(k, k.totalYes - shares, k.totalNo - shares, k.reserve - shares)
  <2>1. /\ markets' = [markets EXCEPT ![m] = kk] /\ aggregateReserved' = aggregateReserved - shares
        /\ yesBalance' = Sub(yesBalance, m, a.signer, shares)
        /\ noBalance' = Sub(noBalance, m, b.signer, shares)
        /\ yesBalance[m][a.signer] >= shares /\ noBalance[m][b.signer] >= shares
        /\ k.totalYes >= shares /\ k.totalNo >= shares /\ k.reserve >= shares
    BY <1>6 DEF _mergeCompleteSet
  <2>2. k.totalYes - shares \in Nat /\ k.totalNo - shares \in Nat /\ k.reserve - shares \in Nat
    BY <1>2, <1>3, <2>1
  <2>3. /\ kk \in MarketType /\ kk.reserve = k.reserve - shares
        /\ kk.totalYes = k.totalYes - shares /\ kk.totalNo = k.totalNo - shares
    BY <1>3, <2>2 DEF MarketType, WithTotals
  <2> HIDE DEF kk
  <2>4. /\ SumsTo(yesBalance'[m], Accounts, kk.totalYes)
        /\ SumsTo(noBalance'[m], Accounts, kk.totalNo)
        /\ \A x \in MarketIds \ {m} : yesBalance'[x] = yesBalance[x] /\ noBalance'[x] = noBalance[x]
    <3> HIDE DEF k, m
    <3>1. SumsTo(Sub(yesBalance, m, a.signer, shares)[m], Accounts, k.totalYes - shares)
      BY <1>2, <1>3, <1>4, <2>1, SumOfSub
    <3>2. SumsTo(Sub(noBalance, m, b.signer, shares)[m], Accounts, k.totalNo - shares)
      BY <1>2, <1>3, <1>4, <2>1, SumOfSub
    <3> QED
      BY <1>4, <2>1, <2>3, <3>1, <3>2, OtherMarkets
  <2>5. /\ k.reserve + (-shares) \in Nat /\ kk.reserve = k.reserve + (-shares)
        /\ aggregateReserved' = aggregateReserved + (-shares)
    BY <1>2, <1>3, <2>1, <2>2, <2>3
  <2> HIDE DEF k, m
  <2> QED
    BY <1>2, <1>3, <2>1, <2>3, <2>4, <2>5, SumsOneMarket DEF k
<1>7. CASE _transferPosition(a, b, shares, LegCollateral(a, shares, price))
  <2>1. markets' = markets /\ aggregateReserved' = aggregateReserved
    BY <1>7 DEF _transferPosition
  <2>2. ASSUME NEW bal \in [MarketIds -> [Accounts -> Nat]], NEW bal2, bal[m][b.signer] >= shares,
               bal2 = Add(Sub(bal, m, b.signer, shares), m, a.signer, shares),
               NEW t \in Nat, SumsTo(bal[m], Accounts, t)
        PROVE  SumsTo(bal2[m], Accounts, t) /\ \A x \in MarketIds \ {m} : bal2[x] = bal[x]
    <3> DEFINE mid == Sub(bal, m, b.signer, shares)
    <3> HIDE DEF m
    <3>0. t - shares \in Nat
      <4>1. bal[m] \in [Accounts -> Nat]
        BY <1>3
      <4>2. bal[m][b.signer] <= t /\ bal[m][b.signer] \in Nat
        BY <1>3, <2>2, <4>1, SummandBound, FiniteAssumption DEF SumsTo
      <4> QED
        BY <1>2, <2>2, <4>2
    <3>1. mid \in [MarketIds -> [Accounts -> Nat]]
      BY <1>2, <1>3, <2>2 DEF Sub
    <3>2. SumsTo(mid[m], Accounts, t - shares)
      BY <1>2, <1>3, <2>2, SumOfSub
    <3> HIDE DEF mid
    <3>3. SumsTo(Add(mid, m, a.signer, shares)[m], Accounts, t - shares + shares)
      BY <1>2, <1>3, <3>0, <3>1, <3>2, SumOfAdd
    <3>4. t - shares + shares = t
      BY <1>2, <2>2
    <3>5. \A x \in MarketIds \ {m} : bal2[x] = bal[x]
      BY <2>2, <3>1, OtherMarkets DEF mid
    <3> QED
      BY <2>2, <3>3, <3>4, <3>5 DEF mid
  <2>3. /\ SumsTo(yesBalance'[m], Accounts, k.totalYes)
        /\ SumsTo(noBalance'[m], Accounts, k.totalNo)
        /\ \A x \in MarketIds \ {m} : yesBalance'[x] = yesBalance[x] /\ noBalance'[x] = noBalance[x]
    <3>1. CASE a.side = "YES"
      <4>1. /\ yesBalance[m][b.signer] >= shares /\ noBalance' = noBalance
            /\ yesBalance' = Add(Sub(yesBalance, m, b.signer, shares), m, a.signer, shares)
        BY <1>7, <3>1 DEF _transferPosition
      <4> QED
        BY <1>3, <1>4, <2>2, <4>1
    <3>2. CASE a.side # "YES"
      <4>1. /\ noBalance[m][b.signer] >= shares /\ yesBalance' = yesBalance
            /\ noBalance' = Add(Sub(noBalance, m, b.signer, shares), m, a.signer, shares)
        BY <1>7, <3>2 DEF _transferPosition
      <4> QED
        BY <1>3, <1>4, <2>2, <4>1
    <3> QED
      BY <3>1, <3>2
  <2>4. Reserves' = Reserves
    BY <2>1 DEF Reserves
  <2> QED
    BY <2>1, <2>3, <2>4 DEF SumsInv
<1> QED
  BY <1>5, <1>6, <1>7 DEF settle

\* redeem keeps the sums.
LEMMA SumsRedeem ==
    ASSUME TypeOK, SumsInv, NEW sender \in Accounts, NEW m \in MarketIds, redeem(sender, m)
    PROVE  SumsInv'
<1> DEFINE k == markets[m]
           y == Burned(m, sender).yes
           n == Burned(m, sender).no
           g == Gross(m, sender)
           kk == WithTotals(k, k.totalYes - y, k.totalNo - n, k.reserve - g)
<1>1. /\ y \in Nat /\ y <= yesBalance[m][sender] /\ n \in Nat /\ n <= noBalance[m][sender] /\ g \in Nat
  BY RedeemNumbers
<1>2. /\ y <= k.totalYes /\ n <= k.totalNo /\ g <= k.reserve
      /\ markets' = [markets EXCEPT ![m] = kk] /\ aggregateReserved' = aggregateReserved - g
      /\ yesBalance' = Sub(yesBalance, m, sender, y)
      /\ noBalance' = Sub(noBalance, m, sender, n)
  BY DEF redeem, RedeemGoesThrough
<1>3. /\ k \in MarketType /\ k.totalYes \in Nat /\ k.totalNo \in Nat /\ k.reserve \in Nat
      /\ aggregateReserved \in Nat
  BY DEF TypeOK, MarketType
<1>4. /\ yesBalance \in [MarketIds -> [Accounts -> Nat]] /\ noBalance \in [MarketIds -> [Accounts -> Nat]]
      /\ SumsTo(yesBalance[m], Accounts, k.totalYes) /\ SumsTo(noBalance[m], Accounts, k.totalNo)
  BY DEF TypeOK, SumsInv
<1>5. yesBalance[m][sender] \in Nat /\ noBalance[m][sender] \in Nat
  BY <1>4
<1>6. k.totalYes - y \in Nat /\ k.totalNo - n \in Nat /\ k.reserve - g \in Nat
  <2> HIDE DEF k, y, n, g
  <2> QED
    BY <1>1, <1>2, <1>3
<1>7. /\ kk \in MarketType /\ kk.reserve = k.reserve - g
      /\ kk.totalYes = k.totalYes - y /\ kk.totalNo = k.totalNo - n
  <2> HIDE DEF k, y, n, g
  <2> QED
    BY <1>3, <1>6 DEF MarketType, WithTotals
<1> HIDE DEF kk, k, y, n, g
<1>8. SumsTo(yesBalance'[m], Accounts, kk.totalYes)
  BY <1>1, <1>2, <1>3, <1>4, <1>5, <1>7, SumOfSub
<1>9. SumsTo(noBalance'[m], Accounts, kk.totalNo)
  BY <1>1, <1>2, <1>3, <1>4, <1>5, <1>7, SumOfSub
<1>10. \A x \in MarketIds \ {m} : yesBalance'[x] = yesBalance[x] /\ noBalance'[x] = noBalance[x]
  BY <1>2, <1>4, OtherMarkets
<1>11. /\ -g \in Int /\ k.reserve + (-g) \in Nat /\ kk.reserve = k.reserve + (-g)
       /\ aggregateReserved' = aggregateReserved + (-g)
  BY <1>1, <1>2, <1>3, <1>6, <1>7
<1> QED
  BY <1>2, <1>7, <1>8, <1>9, <1>10, <1>11, SumsOneMarket DEF k

\* A step that keeps positions keeps the sums if it also keeps the numbers
\* of every market.
LEMMA SumsKept ==
    ASSUME SumsInv, UNCHANGED <<yesBalance, noBalance, aggregateReserved>>,
           \A m \in MarketIds : /\ markets'[m].reserve = markets[m].reserve
                                /\ markets'[m].totalYes = markets[m].totalYes
                                /\ markets'[m].totalNo = markets[m].totalNo
    PROVE  SumsInv'
<1>1. Reserves' = Reserves
  BY DEF Reserves
<1> QED
  BY <1>1 DEF SumsInv

\* Creating, halting, closing and deciding a market keep the sums.
LEMMA SumsLifecycle ==
    ASSUME TypeOK, SumsInv, UncreatedEmpty, NEW sender \in Accounts, NEW m \in MarketIds, Lifecycle(sender, m)
    PROVE  SumsInv' /\ UncreatedEmpty'
<1>1. markets \in [MarketIds -> MarketType]
  BY DEF TypeOK
<1>2. UNCHANGED <<yesBalance, noBalance, aggregateReserved>>
  BY QuietCalls DEF moneyVars
<1>3. CASE \E t \in CloseTimes : createMarket(sender, m, t)
  <2>1. PICK t \in CloseTimes : createMarket(sender, m, t)
    BY <1>3
  <2> DEFINE kk == [NoMarket EXCEPT !.state = "OPEN", !.closeTime = t, !.rakeBps = defaultRakeBps]
  <2>2. kk.reserve = 0 /\ kk.totalYes = 0 /\ kk.totalNo = 0 /\ kk.state = "OPEN"
    BY DEF NoMarket
  <2>3. markets' = [markets EXCEPT ![m] = kk] /\ markets[m].state = "UNINITIALIZED"
    BY <2>1 DEF createMarket
  <2> HIDE DEF kk
  <2> QED
    BY <1>1, <1>2, <2>2, <2>3, SumsKept DEF UncreatedEmpty
<1>4. ASSUME NEW state \in States \ {"UNINITIALIZED"}, SetState(m, state)
      PROVE  SumsInv' /\ UncreatedEmpty'
  <2> DEFINE kk == [markets[m] EXCEPT !.state = state]
  <2>1. /\ kk.reserve = markets[m].reserve /\ kk.totalYes = markets[m].totalYes
        /\ kk.totalNo = markets[m].totalNo /\ kk.state = state
    BY <1>1 DEF MarketType
  <2>2. markets' = [markets EXCEPT ![m] = kk]
    BY <1>4 DEF SetState
  <2> HIDE DEF kk
  <2> QED
    BY <1>1, <1>2, <1>4, <2>1, <2>2, SumsKept DEF UncreatedEmpty
<1> QED
  BY <1>3, <1>4 DEF Lifecycle, haltMarket, resumeMarket, closeMarket, resolveMarket, voidMarket, States

\* Trades and redemptions touch no market that was never created.
LEMMA EmptyStep ==
    ASSUME TypeOK, UncreatedEmpty,
           \/ \E sender \in Accounts, a, b \in Auths, shares \in FillArgs, price \in PriceArgs, id \in MatchIds :
                  settle(sender, a, b, shares, price, id)
           \/ \E sender \in Accounts, m \in MarketIds : redeem(sender, m)
    PROVE  UncreatedEmpty'
<1>1. ASSUME NEW mm \in MarketIds, markets[mm].state # "UNINITIALIZED", NEW ty, NEW tn, NEW r,
             markets' = [markets EXCEPT ![mm] = WithTotals(markets[mm], ty, tn, r)]
      PROVE  UncreatedEmpty'
  <2>1. markets \in [MarketIds -> MarketType] /\ markets[mm] \in MarketType
    BY DEF TypeOK
  <2> DEFINE kk == WithTotals(markets[mm], ty, tn, r)
  <2>2. kk.state = markets[mm].state
    BY <2>1 DEF WithTotals, MarketType
  <2> HIDE DEF kk
  <2>3. markets' = [markets EXCEPT ![mm] = kk]
    BY <1>1 DEF kk
  <2> QED
    BY <1>1, <2>1, <2>2, <2>3 DEF UncreatedEmpty
<1>2. CASE \E sender \in Accounts, m \in MarketIds : redeem(sender, m)
  <2>1. PICK sender \in Accounts, m \in MarketIds : redeem(sender, m)
    BY <1>2
  <2>2. markets[m].state # "UNINITIALIZED"
    BY <2>1 DEF redeem, HasClaim, Terminal
  <2> QED
    BY <1>1, <2>1, <2>2 DEF redeem
<1>3. ASSUME NEW sender \in Accounts, NEW a \in Auths, NEW b \in Auths,
             NEW shares \in FillArgs, NEW price \in PriceArgs, NEW id \in MatchIds,
             settle(sender, a, b, shares, price, id)
      PROVE  UncreatedEmpty'
  <2>1. a.marketId \in MarketIds /\ markets[a.marketId].state # "UNINITIALIZED"
    BY <1>3, AuthFields DEF settle, CanSettle, Trading
  <2>2. CASE _mintCompleteSet(a, b, shares, YesCollateral(shares, price), NoCollateral(shares, price))
    BY <1>1, <2>1, <2>2 DEF _mintCompleteSet
  <2>3. CASE _mergeCompleteSet(a, b, shares, YesCollateral(shares, price), NoCollateral(shares, price))
    BY <1>1, <2>1, <2>3 DEF _mergeCompleteSet
  <2>4. CASE _transferPosition(a, b, shares, LegCollateral(a, shares, price))
    BY <2>4 DEF _transferPosition, UncreatedEmpty
  <2> QED
    BY <1>3, <2>2, <2>3, <2>4 DEF settle
<1> QED
  BY <1>2, <1>3

\* The inductive invariant behind the totals.
TotalsInv == SumsInv /\ UncreatedEmpty

\* It holds after any sequence of calls.
LEMMA TotalsInductive == Spec => []TotalsInv
<1>1. Init => TotalsInv
  BY SumsInit DEF TotalsInv
<1>2. TypeOK /\ TotalsInv /\ [Next]_vars => TotalsInv'
  <2> SUFFICES ASSUME TypeOK, SumsInv, UncreatedEmpty, [Next]_vars PROVE SumsInv' /\ UncreatedEmpty'
    BY DEF TotalsInv
  <2>1. CASE \E sender \in Accounts : Admin(sender)
    <3>1. UNCHANGED <<yesBalance, noBalance, aggregateReserved>>
      BY <2>1, QuietCalls DEF moneyVars
    <3>2. UNCHANGED markets
      BY <2>1 DEF Admin, associateCollateralToken, acceptOwnership, transferOwnership, setRole, setDefaultRake
    <3> QED
      BY <3>1, <3>2, SumsKept DEF UncreatedEmpty
  <2>2. CASE \E sender \in Accounts, m \in MarketIds : Lifecycle(sender, m)
    BY <2>2, SumsLifecycle
  <2>3. CASE \E sender \in Accounts, a, b \in Auths, shares \in FillArgs, price \in PriceArgs, id \in MatchIds :
                 settle(sender, a, b, shares, price, id)
    BY <2>3, SumsSettle, EmptyStep
  <2>4. CASE \E sender \in Accounts, m \in MarketIds : redeem(sender, m)
    BY <2>4, SumsRedeem, EmptyStep
  <2>5. ASSUME UNCHANGED <<yesBalance, noBalance, aggregateReserved, markets>> PROVE SumsInv' /\ UncreatedEmpty'
    BY <2>5, SumsKept DEF UncreatedEmpty
  <2>6. CASE UNCHANGED vars
    BY <2>5, <2>6 DEF vars, moneyVars
  <2> QED
    BY <2>1, <2>2, <2>3, <2>4, <2>5, <2>6, TypeWorld DEF Next
<1> QED
  BY <1>1, <1>2, TypeCorrect, PTL DEF Spec

\* The redundant totals the contract keeps (totalYes and totalNo of every
\* market, aggregateReserved) are the sums of what they summarise after any
\* sequence of calls, for any number of accounts and markets.
THEOREM TotalsAgree == Spec => []TotalsAreSums
<1>1. TypeOK /\ TotalsInv => TotalsAreSums
  <2> SUFFICES ASSUME TypeOK, SumsInv PROVE TotalsAreSums
    BY DEF TotalsInv
  <2>1. ASSUME NEW m \in MarketIds
        PROVE  /\ markets[m].totalYes = SumFunction(yesBalance[m])
               /\ markets[m].totalNo = SumFunction(noBalance[m])
    <3>1. DOMAIN yesBalance[m] = Accounts /\ DOMAIN noBalance[m] = Accounts
      BY DEF TypeOK
    <3> QED
      BY <3>1 DEF SumsInv, SumsTo, SumFunction
  <2>2. DOMAIN Reserves = MarketIds
    BY DEF Reserves
  <2>3. aggregateReserved = SumFunction(Reserves)
    BY <2>2 DEF SumsInv, SumsTo, SumFunction
  <2> QED
    BY <2>1, <2>3 DEF TotalsAreSums, Reserves
<1> QED
  BY <1>1, TotalsInductive, TypeCorrect, PTL

\* Every claim on a decided market can be redeemed at any time after, in any
\* order of claimants, for arbitrarily many holders and markets: none of the
\* reverts of redeem (checked subtraction, Insolvent, the transfer, the final
\* solvency check) can be reached by an account that holds a claim.
THEOREM RedeemUnblocked == Spec => []RedeemNeverReverts
<1>1. TypeOK /\ TotalsInv /\ CompleteSetsBacked /\ Solvent => RedeemNeverReverts
  BY SumsUnblock DEF TotalsInv
<1> QED
  BY <1>1, TotalsInductive, TypeCorrect, CompleteSets, AlwaysSolvent, PTL

-----------------------------------------------------------------------------
(* The dust of a void market. *)

Emptied(m) == {acct \in Accounts : yesBalance[m][acct] + noBalance[m][acct] = 0}

DustBounded(m) ==
    markets[m].state = "VOID" =>
        2 * markets[m].reserve - (markets[m].totalYes + markets[m].totalNo) <= Cardinality(Emptied(m))

\* The accounts without a position are finitely many.
LEMMA EmptiedFinite ==
    ASSUME NEW m
    PROVE  IsFiniteSet(Emptied(m)) /\ Cardinality(Emptied(m)) \in Nat
<1>1. Emptied(m) \in SUBSET Accounts
  BY DEF Emptied
<1> QED
  BY <1>1, FiniteAssumption, FS_Subset, FS_CardinalityType

\* A step that leaves a market's numbers and positions alone keeps its dust.
LEMMA DustKept ==
    ASSUME NEW m \in MarketIds, DustBounded(m), markets'[m] = markets[m],
           yesBalance'[m] = yesBalance[m], noBalance'[m] = noBalance[m]
    PROVE  DustBounded(m)'
<1>1. Emptied(m)' = Emptied(m)
  BY DEF Emptied
<1> QED
  BY <1>1 DEF DustBounded

\* The record settle writes is that of an open market, and no other market
\* is touched.
LEMMA DustSettle ==
    ASSUME TypeOK, VoidDustBounded,
           NEW sender \in Accounts, NEW a \in Auths, NEW b \in Auths,
           NEW shares \in FillArgs, NEW price \in PriceArgs, NEW id \in MatchIds,
           settle(sender, a, b, shares, price, id)
    PROVE  \A m \in MarketIds : DustBounded(m)'
<1> DEFINE mm == a.marketId
           k == markets[mm]
<1>1. /\ mm \in MarketIds /\ b.marketId = mm /\ k.state = "OPEN" /\ k \in MarketType
      /\ markets \in [MarketIds -> MarketType]
      /\ yesBalance \in [MarketIds -> [Accounts -> Nat]] /\ noBalance \in [MarketIds -> [Accounts -> Nat]]
  BY AuthFields DEF settle, CanSettle, Trading, TypeOK
<1>2. /\ markets'[mm].state = "OPEN"
      /\ \A x \in MarketIds \ {mm} : markets'[x] = markets[x]
  <2>1. ASSUME NEW ty, NEW tn, NEW r, markets' = [markets EXCEPT ![mm] = WithTotals(k, ty, tn, r)]
        PROVE  /\ markets'[mm].state = "OPEN"
               /\ \A x \in MarketIds \ {mm} : markets'[x] = markets[x]
    <3> DEFINE kk == WithTotals(k, ty, tn, r)
    <3>1. kk.state = "OPEN"
      BY <1>1 DEF WithTotals, MarketType
    <3> HIDE DEF kk
    <3>2. markets' = [markets EXCEPT ![mm] = kk]
      BY <2>1 DEF kk
    <3> QED
      BY <1>1, <3>1, <3>2
  <2>2. CASE _mintCompleteSet(a, b, shares, YesCollateral(shares, price), NoCollateral(shares, price))
    BY <2>1, <2>2 DEF _mintCompleteSet
  <2>3. CASE _mergeCompleteSet(a, b, shares, YesCollateral(shares, price), NoCollateral(shares, price))
    BY <2>1, <2>3 DEF _mergeCompleteSet
  <2>4. CASE _transferPosition(a, b, shares, LegCollateral(a, shares, price))
    BY <1>1, <2>4 DEF _transferPosition
  <2> QED
    BY <2>2, <2>3, <2>4 DEF settle
<1>3. \A x \in MarketIds \ {mm} : yesBalance'[x] = yesBalance[x] /\ noBalance'[x] = noBalance[x]
  BY <1>1 DEF settle, _mintCompleteSet, _mergeCompleteSet, _transferPosition, Add, Sub
<1> SUFFICES ASSUME NEW m \in MarketIds PROVE DustBounded(m)'
  OBVIOUS
<1>4. DustBounded(m)
  BY DEF VoidDustBounded, DustBounded, Emptied
<1>5. CASE m = mm
  BY <1>2, <1>5 DEF DustBounded
<1>6. CASE m # mm
  BY <1>2, <1>3, <1>4, <1>6, DustKept
<1> QED
  BY <1>5, <1>6

\* A redemption rounds half a unit away at most, and whoever redeems has
\* nothing left; the last one takes all there is.
LEMMA DustRedeem ==
    ASSUME TypeOK, VoidDustBounded, NEW sender \in Accounts, NEW mm \in MarketIds, redeem(sender, mm)
    PROVE  \A m \in MarketIds : DustBounded(m)'
<1> SUFFICES ASSUME NEW m \in MarketIds PROVE DustBounded(m)'
  OBVIOUS
<1> DEFINE k == markets[mm]
           y == Burned(mm, sender).yes
           n == Burned(mm, sender).no
           g == Gross(mm, sender)
           kk == WithTotals(k, k.totalYes - y, k.totalNo - n, k.reserve - g)
<1>1. /\ markets \in [MarketIds -> MarketType] /\ k \in MarketType
      /\ yesBalance \in [MarketIds -> [Accounts -> Nat]] /\ noBalance \in [MarketIds -> [Accounts -> Nat]]
  BY DEF TypeOK
<1>2. /\ y \in Nat /\ n \in Nat /\ g \in Nat /\ y + n # 0
      /\ k.totalYes \in Nat /\ k.totalNo \in Nat /\ k.reserve \in Nat
      /\ y <= k.totalYes /\ n <= k.totalNo /\ g <= k.reserve
  BY <1>1, RedeemNumbers DEF redeem, RedeemGoesThrough, HasClaim, MarketType
<1>3. /\ markets' = [markets EXCEPT ![mm] = kk]
      /\ yesBalance' = Sub(yesBalance, mm, sender, y) /\ noBalance' = Sub(noBalance, mm, sender, n)
  BY DEF redeem
<1>4. /\ kk.state = k.state /\ kk.totalYes = k.totalYes - y /\ kk.totalNo = k.totalNo - n
      /\ kk.reserve = k.reserve - g
  BY <1>1 DEF WithTotals, MarketType
<1>5. DustBounded(m)
  BY DEF VoidDustBounded, DustBounded, Emptied
<1>6. CASE m # mm
  <2> HIDE DEF kk, y, n
  <2>1. markets'[m] = markets[m]
    BY <1>1, <1>3, <1>6
  <2>2. yesBalance'[m] = yesBalance[m] /\ noBalance'[m] = noBalance[m]
    BY <1>1, <1>3, <1>6, OtherMarkets
  <2> QED
    BY <1>5, <2>1, <2>2, DustKept
<1>7. CASE m = mm /\ k.state = "VOID"
  <2>1. y = yesBalance[m][sender] /\ n = noBalance[m][sender]
    BY <1>7 DEF Burned
  <2>2. g = IF k.totalYes - y + (k.totalNo - n) = 0 THEN k.reserve ELSE (y + n) \div 2
    BY <1>7 DEF Gross
  <2> HIDE DEF kk, k, y, n, g
  <2>3. markets'[m] = kk /\ markets[m] = k
    BY <1>1, <1>3, <1>7 DEF k
  <2>4. Emptied(m)' = Emptied(m) \cup {sender}
    <3>1. \A x \in Accounts : /\ yesBalance'[m][x] = IF x = sender THEN 0 ELSE yesBalance[m][x]
                              /\ noBalance'[m][x] = IF x = sender THEN 0 ELSE noBalance[m][x]
      BY <1>1, <1>2, <1>3, <1>7, <2>1 DEF Sub
    <3> QED
      BY <3>1 DEF Emptied
  <2>5. sender \notin Emptied(m)
    BY <1>2, <2>1 DEF Emptied
  <2>6. /\ Cardinality(Emptied(m)') = Cardinality(Emptied(m)) + 1
        /\ Cardinality(Emptied(m)) \in Nat
    BY <2>4, <2>5, EmptiedFinite, FS_AddElement
  <2> DEFINE c == Cardinality(Emptied(m))
  <2>7. 2 * k.reserve - (k.totalYes + k.totalNo) <= c
    BY <1>5, <1>7, <2>3 DEF DustBounded
  <2> HIDE DEF c
  <2>8. 2 * (k.reserve - g) - ((k.totalYes - y) + (k.totalNo - n)) <= c + 1
    <3>0. c \in Nat
      BY <2>6 DEF c
    <3>1. CASE k.totalYes - y + (k.totalNo - n) = 0
      <4>1. k.reserve - g = 0
        BY <1>2, <2>2, <3>1
      <4> QED
        BY <3>0, <3>1, <4>1
    <3>2. CASE k.totalYes - y + (k.totalNo - n) # 0
      <4>1. g = (y + n) \div 2
        BY <2>2, <3>2
      <4>2. 2 * g >= y + n - 1
        BY <1>2, <4>1
      <4> QED
        BY <1>2, <2>7, <3>0, <4>2
    <3> QED
      BY <3>1, <3>2
  <2>9. 2 * kk.reserve - (kk.totalYes + kk.totalNo) <= Cardinality(Emptied(m)')
    BY <1>4, <2>6, <2>8 DEF c
  <2> QED
    BY <2>3, <2>9 DEF DustBounded
<1>8. CASE m = mm /\ k.state # "VOID"
  <2> HIDE DEF kk
  <2>1. markets'[m] = kk
    BY <1>1, <1>3, <1>8
  <2> QED
    BY <1>4, <1>8, <2>1 DEF DustBounded
<1> QED
  BY <1>6, <1>7, <1>8

\* Voiding a market leaves no dust, and the other calls on a market do not
\* touch a void one.
LEMMA DustLifecycle ==
    ASSUME TypeOK, CompleteSetsBacked, VoidDustBounded,
           NEW sender \in Accounts, NEW mm \in MarketIds, Lifecycle(sender, mm)
    PROVE  \A m \in MarketIds : DustBounded(m)'
<1> SUFFICES ASSUME NEW m \in MarketIds PROVE DustBounded(m)'
  OBVIOUS
<1>1. markets \in [MarketIds -> MarketType] /\ markets[mm] \in MarketType /\ Backed(markets[mm])
  BY DEF TypeOK, CompleteSetsBacked
<1>2. UNCHANGED <<yesBalance, noBalance>>
  BY QuietCalls DEF moneyVars
<1>3. DustBounded(m)
  BY DEF VoidDustBounded, DustBounded, Emptied
<1>4. \A x \in MarketIds \ {mm} : markets'[x] = markets[x]
  BY <1>1 DEF Lifecycle, createMarket, haltMarket, resumeMarket, closeMarket, resolveMarket, voidMarket, SetState
<1>5. CASE m # mm
  BY <1>2, <1>3, <1>4, <1>5, DustKept
<1>6. CASE m = mm /\ \E t \in CloseTimes : createMarket(sender, mm, t)
  <2>1. markets'[m].state = "OPEN"
    BY <1>1, <1>6 DEF createMarket, NoMarket
  <2> QED
    BY <2>1 DEF DustBounded
<1>7. ASSUME m = mm, NEW state \in States \ {"UNINITIALIZED"}, markets[mm].state \notin Terminal, SetState(mm, state)
      PROVE  DustBounded(m)'
  <2> DEFINE kk == [markets[mm] EXCEPT !.state = state]
  <2>1. /\ kk.reserve = markets[mm].reserve /\ kk.totalYes = markets[mm].reserve
        /\ kk.totalNo = markets[mm].reserve /\ markets[mm].reserve \in Nat
    BY <1>1, <1>7 DEF Backed, MarketType
  <2>2. markets' = [markets EXCEPT ![mm] = kk]
    BY <1>7 DEF SetState
  <2> HIDE DEF kk
  <2>3. markets'[m] = kk
    BY <1>1, <1>7, <2>2
  <2>4. Emptied(m)' = Emptied(m)
    BY <1>2 DEF Emptied
  <2>5. Cardinality(Emptied(m)') \in Nat
    BY <2>4, EmptiedFinite
  <2>6. 2 * kk.reserve - (kk.totalYes + kk.totalNo) = 0
    BY <2>1
  <2> QED
    BY <2>3, <2>5, <2>6 DEF DustBounded
<1> QED
  BY <1>5, <1>6, <1>7
     DEF Lifecycle, haltMarket, resumeMarket, closeMarket, resolveMarket, voidMarket, States, Terminal

\* The rounding dust of a void market stays below half a unit per account
\* that has redeemed, for any number of claimants in any order: the last
\* claimant gains no more than that (PrismV2.sol:338).
THEOREM DustStaysSmall == Spec => []VoidDustBounded
<1>1. Init => VoidDustBounded
  BY DEF Init, VoidDustBounded, NoMarket
<1>2. TypeOK /\ CompleteSetsBacked /\ VoidDustBounded /\ [Next]_vars => VoidDustBounded'
  <2> SUFFICES ASSUME TypeOK, CompleteSetsBacked, VoidDustBounded, [Next]_vars
               PROVE  \A m \in MarketIds : DustBounded(m)'
    BY DEF VoidDustBounded, DustBounded, Emptied
  <2>0. \A m \in MarketIds : DustBounded(m)
    BY DEF VoidDustBounded, DustBounded, Emptied
  <2>1. ASSUME UNCHANGED <<markets, yesBalance, noBalance>> PROVE \A m \in MarketIds : DustBounded(m)'
    BY <2>0, <2>1, DustKept
  <2>2. CASE \E sender \in Accounts : Admin(sender)
    <3>1. UNCHANGED <<markets, yesBalance, noBalance>>
      BY <2>2 DEF Admin, associateCollateralToken, acceptOwnership, transferOwnership,
                  setRole, setDefaultRake, moneyVars
    <3> QED
      BY <2>1, <3>1
  <2>3. CASE \E sender \in Accounts, m \in MarketIds : Lifecycle(sender, m)
    BY <2>3, DustLifecycle
  <2>4. CASE \E sender \in Accounts, a, b \in Auths, shares \in FillArgs, price \in PriceArgs, id \in MatchIds :
                 settle(sender, a, b, shares, price, id)
    BY <2>4, DustSettle
  <2>5. CASE \E sender \in Accounts, m \in MarketIds : redeem(sender, m)
    BY <2>5, DustRedeem
  <2>6. CASE \/ \E c \in CancelArgs : cancelAuthorization(c[1], c[2])
             \/ \E from \in Donors : Donate(from, 1)
             \/ Tick
    BY <2>1, <2>6, TypeWorld
  <2>7. CASE UNCHANGED vars
    BY <2>1, <2>7 DEF vars, moneyVars
  <2> QED
    BY <2>2, <2>3, <2>4, <2>5, <2>6, <2>7 DEF Next
<1> QED
  BY <1>1, <1>2, TypeCorrect, CompleteSets, PTL DEF Spec

-----------------------------------------------------------------------------
(* Limit prices. *)

\* What shares of an authorization cost at its limit price, times PRICE_SCALE.
AtLimit(h, shares) ==
    IF h.side = "YES" THEN shares * h.limitYesPrice ELSE shares * (PRICE_SCALE - h.limitYesPrice)

\* paid collateral for shares is within the limit, up to slack.
LimitKept(h, shares, paid, slack) ==
    /\ h.side = "YES" /\ h.action = "BUY"  => PRICE_SCALE * paid <= AtLimit(h, shares)
    /\ h.side = "NO"  /\ h.action = "SELL" => PRICE_SCALE * paid >= AtLimit(h, shares)
    /\ h.side = "NO"  /\ h.action = "BUY"  => PRICE_SCALE * paid <= AtLimit(h, shares) + PRICE_SCALE * slack
    /\ h.side = "YES" /\ h.action = "SELL" => PRICE_SCALE * paid + PRICE_SCALE * slack >= AtLimit(h, shares)

AllLimitsKept ==
    /\ IsFiniteSet(executedMatches)
    /\ \A h \in Auths : LimitKept(h, fills[h].shares, fills[h].collateral, Cardinality(executedMatches))

\* Floor division loses less than one divisor.
LEMMA FloorBounds ==
    ASSUME NEW n \in Nat, NEW d \in Nat \ {0}
    PROVE  n \div d \in Nat /\ d * (n \div d) <= n /\ n < d * (n \div d) + d
  OBVIOUS

\* One leg of one match is within the limit up to one unit.
LEMMA LegWithinLimit ==
    ASSUME NEW h \in Auths, NEW s \in Nat, NEW p \in Nat, p <= PRICE_SCALE,
           h.limitYesPrice <= PRICE_SCALE, WithinLimit(h, p)
    PROVE  LimitKept(h, s, LegCollateral(h, s, p), 1)
<1> DEFINE q == YesCollateral(s, p)
           L == h.limitYesPrice
<1>1. PRICE_SCALE \in Nat \ {0} /\ L \in Nat /\ L <= PRICE_SCALE
  BY ConstantsAssumption, AuthFields
<1>2. q \in Nat /\ PRICE_SCALE * q <= s * p /\ s * p < PRICE_SCALE * q + PRICE_SCALE
  <2>1. s * p \in Nat
    OBVIOUS
  <2> QED
    BY <1>1, <2>1, FloorBounds DEF YesCollateral
<1>3. NoCollateral(s, p) = s - q
  BY DEF NoCollateral
<1> HIDE DEF q, L
<1>4. /\ p <= L => s * p <= s * L
      /\ p >= L => s * p >= s * L
  BY <1>1
<1>5. /\ PRICE_SCALE * (s - q) = PRICE_SCALE * s - PRICE_SCALE * q
      /\ s * (PRICE_SCALE - L) = PRICE_SCALE * s - s * L
  BY <1>1, <1>2
<1>6. s * p \in Nat /\ s * L \in Nat /\ PRICE_SCALE * q \in Nat /\ PRICE_SCALE * s \in Nat
  BY <1>1, <1>2
<1>7. CASE h.side = "YES"
  <2>1. LegCollateral(h, s, p) = q /\ AtLimit(h, s) = s * L
    BY <1>7 DEF LegCollateral, AtLimit, q, L
  <2>2. IF h.action = "BUY" THEN p <= L ELSE p >= L
    BY <1>7 DEF WithinLimit, L
  <2>3. h.action = "BUY" => PRICE_SCALE * q <= s * L
    BY <1>2, <1>4, <1>6, <2>2
  <2>4. h.action = "SELL" => PRICE_SCALE * q + PRICE_SCALE * 1 >= s * L
    BY <1>1, <1>2, <1>4, <1>6, <2>2
  <2> QED
    BY <1>7, <2>1, <2>3, <2>4 DEF LimitKept
<1>8. CASE h.side = "NO"
  <2>1. LegCollateral(h, s, p) = s - q /\ AtLimit(h, s) = s * (PRICE_SCALE - L)
    BY <1>3, <1>8 DEF LegCollateral, AtLimit, L
  <2>2. h.action \in {"BUY", "SELL"} /\ IF h.action = "SELL" THEN p <= L ELSE p >= L
    BY <1>8, AuthFields DEF WithinLimit, L
  <2>3. h.action = "SELL" => PRICE_SCALE * (s - q) >= s * (PRICE_SCALE - L)
    BY <1>2, <1>4, <1>5, <1>6, <2>2
  <2>4. h.action = "BUY" => PRICE_SCALE * (s - q) <= s * (PRICE_SCALE - L) + PRICE_SCALE * 1
    BY <1>1, <1>2, <1>4, <1>5, <1>6, <2>2
  <2> QED
    BY <1>8, <2>1, <2>3, <2>4 DEF LimitKept
<1> QED
  BY <1>7, <1>8, AuthFields

\* Fills within the limit add up to fills within the limit.
LEMMA LimitAdds ==
    ASSUME NEW h \in Auths, h.limitYesPrice <= PRICE_SCALE,
           NEW s \in Nat, NEW c \in Nat, NEW k \in Nat, LimitKept(h, s, c, k),
           NEW t \in Nat, NEW d \in Nat, NEW j \in Nat, LimitKept(h, t, d, j)
    PROVE  LimitKept(h, s + t, c + d, k + j)
<1> DEFINE L == h.limitYesPrice
           P == PRICE_SCALE
<1>1. P \in Nat /\ L \in Nat /\ P - L \in Nat
  BY ConstantsAssumption, AuthFields
<1>2. AtLimit(h, s + t) = AtLimit(h, s) + AtLimit(h, t) /\ AtLimit(h, s) \in Nat /\ AtLimit(h, t) \in Nat
  <2> HIDE DEF L, P
  <2>1. /\ (s + t) * L = s * L + t * L /\ s * L \in Nat /\ t * L \in Nat
        /\ (s + t) * (P - L) = s * (P - L) + t * (P - L) /\ s * (P - L) \in Nat /\ t * (P - L) \in Nat
    BY <1>1
  <2> QED
    BY <2>1 DEF AtLimit, L, P
<1> HIDE DEF P
<1>3. /\ P * (c + d) = P * c + P * d /\ P * c \in Nat /\ P * d \in Nat
      /\ P * (k + j) = P * k + P * j /\ P * k \in Nat /\ P * j \in Nat
  BY <1>1
<1> DEFINE pc == P * c
           pd == P * d
           pk == P * k
           pj == P * j
           ls == AtLimit(h, s)
           lt == AtLimit(h, t)
           YB == h.side = "YES" /\ h.action = "BUY"
           NS == h.side = "NO"  /\ h.action = "SELL"
           NB == h.side = "NO"  /\ h.action = "BUY"
           YS == h.side = "YES" /\ h.action = "SELL"
<1>4. /\ YB => pc <= ls /\ pd <= lt
      /\ NS => pc >= ls /\ pd >= lt
      /\ NB => pc <= ls + pk /\ pd <= lt + pj
      /\ YS => pc + pk >= ls /\ pd + pj >= lt
  BY DEF LimitKept, P
<1>5. pc \in Nat /\ pd \in Nat /\ pk \in Nat /\ pj \in Nat /\ ls \in Nat /\ lt \in Nat
  BY <1>2, <1>3
<1> HIDE DEF pc, pd, pk, pj, ls, lt, YB, NS, NB, YS
<1>6. /\ YB => pc + pd <= ls + lt
      /\ NS => pc + pd >= ls + lt
      /\ NB => pc + pd <= ls + lt + (pk + pj)
      /\ YS => pc + pd + (pk + pj) >= ls + lt
  BY <1>4, <1>5
<1>7. P * (c + d) = pc + pd /\ P * (k + j) = pk + pj /\ AtLimit(h, s + t) = ls + lt
  BY <1>2, <1>3 DEF pc, pd, pk, pj, ls, lt
<1> QED
  BY <1>6, <1>7 DEF LimitKept, P, YB, NS, NB, YS

\* More slack, or nothing filled at all, keeps the limit.
LEMMA LimitSlack ==
    ASSUME NEW h \in Auths, NEW s \in Nat, NEW c \in Nat, NEW k \in Nat, LimitKept(h, s, c, k)
    PROVE  LimitKept(h, s, c, k + 1)
<1>1. PRICE_SCALE \in Nat /\ PRICE_SCALE * (k + 1) = PRICE_SCALE * k + PRICE_SCALE
      /\ PRICE_SCALE * k \in Nat /\ PRICE_SCALE * c \in Nat
  <2>1. PRICE_SCALE \in Nat
    BY ConstantsAssumption
  <2> QED
    BY <2>1
<1>2. AtLimit(h, s) \in Int
  <2>1. PRICE_SCALE \in Nat /\ h.limitYesPrice \in Nat
    BY ConstantsAssumption, AuthFields
  <2> QED
    BY <2>1 DEF AtLimit
<1> QED
  BY <1>1, <1>2 DEF LimitKept

\* settle keeps every authorization within its limit.
LEMMA LimitSettle ==
    ASSUME TypeOK, AllLimitsKept,
           NEW sender \in Accounts, NEW a \in Auths, NEW b \in Auths,
           NEW shares \in FillArgs, NEW price \in PriceArgs, NEW id \in MatchIds,
           settle(sender, a, b, shares, price, id)
    PROVE  AllLimitsKept'
<1> DEFINE ca == LegCollateral(a, shares, price)
           cb == LegCollateral(b, shares, price)
           n == Cardinality(executedMatches)
<1>1. CanSettle(sender, a, b, shares, price, id)
  BY DEF settle
<1>2. /\ shares \in Nat /\ price \in Nat /\ price <= PRICE_SCALE /\ ca \in Nat /\ cb \in Nat
  BY <1>1, SettleNumbers, ConstantsAssumption
<1>3. /\ a # b /\ id \notin executedMatches
      /\ a.limitYesPrice <= PRICE_SCALE /\ WithinLimit(a, price)
      /\ b.limitYesPrice <= PRICE_SCALE /\ WithinLimit(b, price)
  BY <1>1 DEF CanSettle, Fresh, _validateAuthorization
<1>4. LimitKept(a, shares, ca, 1) /\ LimitKept(b, shares, cb, 1)
  BY <1>2, <1>3, LegWithinLimit
<1>5. /\ fills \in [Auths -> [shares : Nat, collateral : Nat]]
      /\ fills' = Consumed(Consumed(fills, a, shares, ca), b, shares, cb)
      /\ executedMatches' = executedMatches \cup {id}
  BY DEF settle, TypeOK
<1>6. IsFiniteSet(executedMatches') /\ Cardinality(executedMatches') = n + 1 /\ n \in Nat
  BY <1>3, <1>5, FS_AddElement, FS_CardinalityType DEF AllLimitsKept
<1> HIDE DEF ca, cb, n
<1>7. /\ fills'[a] = [shares |-> fills[a].shares + shares, collateral |-> fills[a].collateral + ca]
      /\ fills'[b] = [shares |-> fills[b].shares + shares, collateral |-> fills[b].collateral + cb]
      /\ \A h \in Auths \ {a, b} : fills'[h] = fills[h]
  BY <1>3, <1>5 DEF Consumed
<1>8. ASSUME NEW h \in Auths
      PROVE  LimitKept(h, fills'[h].shares, fills'[h].collateral, n + 1)
  <2>1. /\ LimitKept(h, fills[h].shares, fills[h].collateral, n)
        /\ fills[h].shares \in Nat /\ fills[h].collateral \in Nat
    BY <1>5 DEF AllLimitsKept, n
  <2>2. ASSUME NEW c \in Nat, LimitKept(h, shares, c, 1), h.limitYesPrice <= PRICE_SCALE,
               fills'[h] = [shares |-> fills[h].shares + shares, collateral |-> fills[h].collateral + c]
        PROVE  LimitKept(h, fills'[h].shares, fills'[h].collateral, n + 1)
    <3>1. LimitKept(h, fills[h].shares + shares, fills[h].collateral + c, n + 1)
      BY <1>2, <1>6, <2>1, <2>2, LimitAdds
    <3>2. fills'[h].shares = fills[h].shares + shares /\ fills'[h].collateral = fills[h].collateral + c
      BY <2>2
    <3> QED
      BY <3>1, <3>2
  <2>3. CASE h = a
    BY <1>2, <1>3, <1>4, <1>7, <2>2, <2>3
  <2>4. CASE h = b
    BY <1>2, <1>3, <1>4, <1>7, <2>2, <2>4
  <2>5. CASE h \notin {a, b}
    <3>1. fills'[h] = fills[h]
      BY <1>7, <2>5
    <3>2. LimitKept(h, fills[h].shares, fills[h].collateral, n + 1)
      BY <1>6, <2>1, LimitSlack
    <3> QED
      BY <2>1, <3>1, <3>2
  <2> QED
    BY <2>3, <2>4, <2>5
<1> QED
  BY <1>6, <1>8 DEF AllLimitsKept

\* However an authorization is split into matches, what its signer pays or
\* gets over all of them keeps to the limit price: exactly for a YES buyer
\* and a NO seller, up to one unit per match for the other two, whatever the
\* price scale and the number of matches.
THEOREM LimitsKept == Spec => []LimitPriceKept
<1>1. Init => AllLimitsKept
  <2> SUFFICES ASSUME Init PROVE AllLimitsKept
    OBVIOUS
  <2>1. executedMatches = {} /\ IsFiniteSet(executedMatches) /\ Cardinality(executedMatches) = 0
    BY FS_EmptySet DEF Init
  <2>2. ASSUME NEW h \in Auths
        PROVE  LimitKept(h, fills[h].shares, fills[h].collateral, Cardinality(executedMatches))
    <3>1. fills[h].shares = 0 /\ fills[h].collateral = 0
      BY DEF Init
    <3>2. PRICE_SCALE \in Nat /\ h.limitYesPrice \in Nat
      BY ConstantsAssumption, AuthFields
    <3>3. AtLimit(h, 0) = 0 /\ PRICE_SCALE * 0 = 0
      BY <3>2 DEF AtLimit
    <3> QED
      BY <2>1, <3>1, <3>3 DEF LimitKept
  <2> QED
    BY <2>1, <2>2 DEF AllLimitsKept
<1>2. TypeOK /\ AllLimitsKept /\ [Next]_vars => AllLimitsKept'
  <2> SUFFICES ASSUME TypeOK, AllLimitsKept, [Next]_vars PROVE AllLimitsKept'
    OBVIOUS
  <2>1. CASE \E sender \in Accounts, a, b \in Auths, shares \in FillArgs, price \in PriceArgs, id \in MatchIds :
                 settle(sender, a, b, shares, price, id)
    BY <2>1, LimitSettle
  <2>2. ASSUME UNCHANGED <<fills, executedMatches>> PROVE AllLimitsKept'
    BY <2>2 DEF AllLimitsKept
  <2>3. CASE \E sender \in Accounts, m \in MarketIds : redeem(sender, m)
    BY <2>2, <2>3 DEF redeem, authVars
  <2>4. CASE \/ \E sender \in Accounts : Admin(sender)
             \/ \E sender \in Accounts, m \in MarketIds : Lifecycle(sender, m)
             \/ UNCHANGED vars
    BY <2>2, <2>4, QuietCalls DEF vars, authVars
  <2>5. CASE \/ \E c \in CancelArgs : cancelAuthorization(c[1], c[2])
             \/ \E from \in Donors : Donate(from, 1)
             \/ Tick
    BY <2>2, <2>5 DEF cancelAuthorization, Donate, Tick, authVars
  <2> QED
    BY <2>1, <2>3, <2>4, <2>5 DEF Next
<1>3. AllLimitsKept => LimitPriceKept
  <2> SUFFICES ASSUME AllLimitsKept, NEW h \in Auths
               PROVE  LET paid == PRICE_SCALE * fills[h].collateral
                          atLimit == IF h.side = "YES" THEN fills[h].shares * h.limitYesPrice
                                     ELSE fills[h].shares * (PRICE_SCALE - h.limitYesPrice)
                          rounding == PRICE_SCALE * Cardinality(executedMatches)
                      IN  CASE h.side = "YES" /\ h.action = "BUY"  -> paid <= atLimit
                            [] h.side = "NO"  /\ h.action = "SELL" -> paid >= atLimit
                            [] h.side = "NO"  /\ h.action = "BUY"  -> paid <= atLimit + rounding
                            [] h.side = "YES" /\ h.action = "SELL" -> paid + rounding >= atLimit
    BY DEF LimitPriceKept
  <2>1. LimitKept(h, fills[h].shares, fills[h].collateral, Cardinality(executedMatches))
    BY DEF AllLimitsKept
  <2>2. h.side \in {"YES", "NO"} /\ h.action \in {"BUY", "SELL"}
    BY AuthFields
  <2> QED
    BY <2>1, <2>2 DEF LimitKept, AtLimit
<1> QED
  BY <1>1, <1>2, <1>3, TypeCorrect, PTL DEF Spec

-----------------------------------------------------------------------------
(* The records and the money. *)

\* The authorizations of an account that buy, or that sell, and the
\* collateral fills records for them.
Mine(acct, action) == {g \in Auths : g.signer = acct /\ g.action = action}
CollateralOf(acct, action) == [h \in Mine(acct, action) |-> fills[h].collateral]
Recorded(acct, action) == SumFunctionOnSet(CollateralOf(acct, action), Mine(acct, action))

Undecided == \A m \in MarketIds : markets[m].state \notin Terminal

\* What an account has, given what its authorizations record.
InStep(acct) ==
    LET due == InitialWallet[acct] - Recorded(acct, "BUY") + Recorded(acct, "SELL")
    IN  wallet[acct] >= due /\ (Undecided => wallet[acct] = due)

LedgerInv == \A acct \in Accounts \ Donors : InStep(acct)

\* Records are naturals.
LEMMA RecordedType ==
    ASSUME TypeOK, NEW acct, NEW action
    PROVE  /\ IsFiniteSet(Mine(acct, action)) /\ Recorded(acct, action) \in Nat
           /\ CollateralOf(acct, action) \in [Mine(acct, action) -> Nat]
<1>1. IsFiniteSet(Mine(acct, action))
  BY FiniteAssumption, FS_Subset DEF Mine
<1>2. CollateralOf(acct, action) \in [Mine(acct, action) -> Nat]
  BY DEF TypeOK, Mine, CollateralOf
<1>3. \A x \in Mine(acct, action) : CollateralOf(acct, action)[x] \in Nat
  BY <1>2
<1> QED
  BY <1>1, <1>2, <1>3, SumType DEF Recorded

\* A step that records nothing new, decides nothing back and takes nothing
\* from an account keeps it in step.
LEMMA InStepKept ==
    ASSUME TypeOK, NEW acct \in Accounts, InStep(acct), fills' = fills, Undecided' => Undecided,
           wallet'[acct] = wallet[acct]
    PROVE  InStep(acct)'
<1>1. \A action : CollateralOf(acct, action)' = CollateralOf(acct, action)
  BY DEF CollateralOf
<1>2. Recorded(acct, "BUY")' = Recorded(acct, "BUY") /\ Recorded(acct, "SELL")' = Recorded(acct, "SELL")
  BY <1>1 DEF Recorded
<1> QED
  BY <1>2 DEF InStep

\* What settle adds to the records: the two legs, each to its own signer.
LEMMA RecordedSettle ==
    ASSUME TypeOK, NEW sender \in Accounts, NEW a \in Auths, NEW b \in Auths,
           NEW shares \in FillArgs, NEW price \in PriceArgs, NEW id \in MatchIds,
           settle(sender, a, b, shares, price, id),
           NEW acct \in Accounts, NEW action \in {"BUY", "SELL"}
    PROVE  Recorded(acct, action)' = Recorded(acct, action) +
               (IF a \in Mine(acct, action) THEN LegCollateral(a, shares, price)
                ELSE IF b \in Mine(acct, action) THEN LegCollateral(b, shares, price) ELSE 0)
<1> DEFINE ca == LegCollateral(a, shares, price)
           cb == LegCollateral(b, shares, price)
           M == Mine(acct, action)
           F == CollateralOf(acct, action)
<1>1. CanSettle(sender, a, b, shares, price, id)
  BY DEF settle
<1>2. a.signer # b.signer /\ a # b /\ ca \in Nat /\ cb \in Nat
  BY <1>1, SettleNumbers DEF CanSettle
<1>3. /\ fills \in [Auths -> [shares : Nat, collateral : Nat]]
      /\ fills' = Consumed(Consumed(fills, a, shares, ca), b, shares, cb)
  BY DEF settle, TypeOK
<1> HIDE DEF ca, cb
<1>4. /\ fills'[a].collateral = fills[a].collateral + ca
      /\ fills'[b].collateral = fills[b].collateral + cb
      /\ \A h \in Auths \ {a, b} : fills'[h] = fills[h]
  BY <1>2, <1>3 DEF Consumed
<1>5. /\ IsFiniteSet(M) /\ F \in [M -> Nat] /\ Recorded(acct, action) \in Nat
      /\ M \subseteq Auths
  <2>1. IsFiniteSet(M) /\ F \in [M -> Nat] /\ Recorded(acct, action) \in Nat
    BY RecordedType
  <2>2. M \subseteq Auths
    BY DEF Mine
  <2> QED
    BY <2>1, <2>2
<1>6. F' = [h \in M |-> fills'[h].collateral] /\ F = [h \in M |-> fills[h].collateral]
  BY DEF CollateralOf
<1>7. ~(a \in M /\ b \in M)
  BY <1>2 DEF Mine
<1> HIDE DEF M, F
<1>8. ASSUME NEW h \in M, NEW d \in Nat, fills'[h].collateral = fills[h].collateral + d,
             \A x \in M \ {h} : fills'[x] = fills[x]
      PROVE  SumFunctionOnSet(F', M) = SumFunctionOnSet(F, M) + d
  <2>1. F' = [F EXCEPT ![h] = @ + d]
    BY <1>6, <1>8
  <2>2. F[h] + d \in Nat /\ d \in Int
    BY <1>5, <1>8
  <2> QED
    BY <1>5, <2>1, <2>2, SumOfUpdate
<1>9. SumFunctionOnSet(F', M) = SumFunctionOnSet(F, M) + (IF a \in M THEN ca ELSE IF b \in M THEN cb ELSE 0)
  <2>1. CASE a \in M
    BY <1>2, <1>4, <1>5, <1>7, <1>8, <2>1
  <2>2. CASE a \notin M /\ b \in M
    BY <1>2, <1>4, <1>5, <1>7, <1>8, <2>2
  <2>3. CASE a \notin M /\ b \notin M
    <3>1. F' = F
      BY <1>4, <1>5, <1>6, <2>3
    <3>2. SumFunctionOnSet(F, M) \in Nat
      BY <1>5 DEF Recorded, F, M
    <3> QED
      BY <2>3, <3>1, <3>2
  <2> QED
    BY <2>1, <2>2, <2>3
<1> QED
  BY <1>9 DEF Recorded, F, M, ca, cb

\* What settle moves: each signer pays or gets exactly its own leg.
LEMMA WalletSettle ==
    ASSUME TypeOK, NEW sender \in Accounts, NEW a \in Auths, NEW b \in Auths,
           NEW shares \in FillArgs, NEW price \in PriceArgs, NEW id \in MatchIds,
           settle(sender, a, b, shares, price, id)
    PROVE  /\ wallet'[a.signer] = IF a.action = "BUY" THEN wallet[a.signer] - LegCollateral(a, shares, price)
                                  ELSE wallet[a.signer] + LegCollateral(a, shares, price)
           /\ wallet'[b.signer] = IF b.action = "BUY" THEN wallet[b.signer] - LegCollateral(b, shares, price)
                                  ELSE wallet[b.signer] + LegCollateral(b, shares, price)
           /\ \A x \in Accounts \ {a.signer, b.signer} : wallet'[x] = wallet[x]
<1> DEFINE yc == YesCollateral(shares, price)
           nc == NoCollateral(shares, price)
           ca == LegCollateral(a, shares, price)
           cb == LegCollateral(b, shares, price)
<1>1. CanSettle(sender, a, b, shares, price, id)
  BY DEF settle
<1>2. /\ yc \in Nat /\ nc \in Nat /\ ca \in Nat /\ cb \in Nat /\ a.signer # b.signer
  BY <1>1, SettleNumbers DEF CanSettle
<1>3. /\ wallet \in [Addresses -> Nat] /\ This \in Addresses
      /\ a.signer \in Addresses /\ a.signer # This /\ b.signer \in Addresses /\ b.signer # This
      /\ \A x \in Accounts : x \in Addresses /\ x # This
  BY AuthFields, ConstantsAssumption DEF TypeOK, Addresses
<1>4. CASE /\ a.action = "BUY" /\ b.action = "BUY" /\ a.side = "YES" /\ b.side = "NO"
           /\ _mintCompleteSet(a, b, shares, yc, nc)
  <2> DEFINE paid == Moved(wallet, a.signer, This, yc)
  <2>1. wallet[a.signer] >= yc /\ paid[b.signer] >= nc /\ wallet' = Moved(paid, b.signer, This, nc)
    BY <1>4 DEF _mintCompleteSet, CanMove
  <2>2. ca = yc /\ cb = nc
    BY <1>4 DEF LegCollateral
  <2> HIDE DEF yc, nc, ca, cb
  <2>3. /\ paid \in [Addresses -> Nat] /\ paid[a.signer] = wallet[a.signer] - yc
        /\ \A x \in Addresses \ {a.signer, This} : paid[x] = wallet[x]
    BY <1>2, <1>3, <2>1, MovedType
  <2> HIDE DEF paid
  <2>4. /\ wallet'[b.signer] = paid[b.signer] - nc
        /\ \A x \in Addresses \ {b.signer, This} : wallet'[x] = paid[x]
    BY <1>2, <1>3, <2>1, <2>3, MovedType
  <2> QED
    BY <1>2, <1>3, <1>4, <2>2, <2>3, <2>4 DEF ca, cb
<1>5. CASE /\ a.action = "SELL" /\ b.action = "SELL" /\ a.side = "YES" /\ b.side = "NO"
           /\ _mergeCompleteSet(a, b, shares, yc, nc)
  <2> DEFINE paid == Moved(wallet, This, a.signer, yc)
  <2>1. wallet[This] >= yc /\ paid[This] >= nc /\ wallet' = Moved(paid, This, b.signer, nc)
    BY <1>5 DEF _mergeCompleteSet, CanMove
  <2>2. ca = yc /\ cb = nc
    BY <1>5 DEF LegCollateral
  <2> HIDE DEF yc, nc, ca, cb
  <2>3. /\ paid \in [Addresses -> Nat] /\ paid[a.signer] = wallet[a.signer] + yc
        /\ \A x \in Addresses \ {a.signer, This} : paid[x] = wallet[x]
    BY <1>2, <1>3, <2>1, MovedType
  <2> HIDE DEF paid
  <2>4. /\ wallet'[b.signer] = paid[b.signer] + nc
        /\ \A x \in Addresses \ {b.signer, This} : wallet'[x] = paid[x]
    BY <1>2, <1>3, <2>1, <2>3, MovedType
  <2> QED
    BY <1>2, <1>3, <1>5, <2>2, <2>3, <2>4 DEF ca, cb
<1>6. CASE /\ a.side = b.side /\ a.action = "BUY" /\ b.action = "SELL"
           /\ _transferPosition(a, b, shares, ca)
  <2>1. wallet[a.signer] >= ca /\ wallet' = Moved(wallet, a.signer, b.signer, ca)
    BY <1>6 DEF _transferPosition, CanMove
  <2>2. cb = ca
    BY <1>6 DEF LegCollateral
  <2> HIDE DEF yc, nc, ca, cb
  <2>3. /\ wallet'[a.signer] = wallet[a.signer] - ca /\ wallet'[b.signer] = wallet[b.signer] + ca
        /\ \A x \in Addresses \ {a.signer, b.signer} : wallet'[x] = wallet[x]
    BY <1>2, <1>3, <2>1, MovedType
  <2> QED
    BY <1>3, <1>6, <2>2, <2>3 DEF ca, cb
<1> QED
  BY <1>4, <1>5, <1>6 DEF settle

\* settle keeps every account in step with its records.
LEMMA LedgerSettle ==
    ASSUME TypeOK, LedgerInv, Undecided' => Undecided,
           NEW sender \in Accounts, NEW a \in Auths, NEW b \in Auths,
           NEW shares \in FillArgs, NEW price \in PriceArgs, NEW id \in MatchIds,
           settle(sender, a, b, shares, price, id)
    PROVE  LedgerInv'
<1> SUFFICES ASSUME NEW acct \in Accounts \ Donors PROVE InStep(acct)'
  BY DEF LedgerInv
<1> DEFINE ca == LegCollateral(a, shares, price)
           cb == LegCollateral(b, shares, price)
           B == Recorded(acct, "BUY")
           S == Recorded(acct, "SELL")
           leg(action) == IF a \in Mine(acct, action) THEN ca ELSE IF b \in Mine(acct, action) THEN cb ELSE 0
<1>1. CanSettle(sender, a, b, shares, price, id)
  BY DEF settle
<1>2. /\ ca \in Nat /\ cb \in Nat /\ a.signer # b.signer
      /\ a.action \in {"BUY", "SELL"} /\ b.action \in {"BUY", "SELL"}
  BY <1>1, SettleNumbers, AuthFields DEF CanSettle
<1>3. B \in Nat /\ S \in Nat
  BY RecordedType
<1>4. InStep(acct) /\ wallet[acct] \in Nat /\ InitialWallet[acct] \in Nat
  BY ConstantsAssumption DEF LedgerInv, TypeOK, Addresses
<1>5. B' = B + leg("BUY") /\ S' = S + leg("SELL")
  BY RecordedSettle
<1>6. wallet'[acct] = wallet[acct] - leg("BUY") + leg("SELL")
  <2>1. CASE acct = a.signer
    <3>1. wallet'[acct] = IF a.action = "BUY" THEN wallet[acct] - ca ELSE wallet[acct] + ca
      BY <2>1, WalletSettle
    <3>2. /\ a.action = "BUY" => leg("BUY") = ca /\ leg("SELL") = 0
          /\ a.action = "SELL" => leg("BUY") = 0 /\ leg("SELL") = ca
      BY <1>2, <2>1 DEF Mine
    <3> QED
      BY <1>2, <1>4, <3>1, <3>2
  <2>2. CASE acct = b.signer
    <3>1. wallet'[acct] = IF b.action = "BUY" THEN wallet[acct] - cb ELSE wallet[acct] + cb
      BY <2>2, WalletSettle
    <3>2. /\ b.action = "BUY" => leg("BUY") = cb /\ leg("SELL") = 0
          /\ b.action = "SELL" => leg("BUY") = 0 /\ leg("SELL") = cb
      BY <1>2, <2>2 DEF Mine
    <3> QED
      BY <1>2, <1>4, <3>1, <3>2
  <2>3. CASE acct \notin {a.signer, b.signer}
    <3>1. wallet'[acct] = wallet[acct]
      BY <2>3, WalletSettle
    <3>2. leg("BUY") = 0 /\ leg("SELL") = 0
      BY <2>3 DEF Mine
    <3> QED
      BY <1>4, <3>1, <3>2
  <2> QED
    BY <2>1, <2>2, <2>3
<1>7. leg("BUY") \in Nat /\ leg("SELL") \in Nat
  BY <1>2
<1>8. /\ wallet[acct] >= InitialWallet[acct] - B + S
      /\ Undecided => wallet[acct] = InitialWallet[acct] - B + S
  BY <1>4 DEF InStep
<1> HIDE DEF leg, B, S
<1>9. /\ wallet'[acct] >= InitialWallet[acct] - B' + S'
      /\ Undecided' => wallet'[acct] = InitialWallet[acct] - B' + S'
  BY <1>3, <1>4, <1>5, <1>6, <1>7, <1>8
<1> QED
  BY <1>9 DEF InStep, B, S

\* redeem only adds to what an account has, and only once a market is decided.
LEMMA LedgerRedeem ==
    ASSUME TypeOK, LedgerInv, NEW sender \in Accounts, NEW m \in MarketIds, redeem(sender, m)
    PROVE  LedgerInv'
<1> SUFFICES ASSUME NEW acct \in Accounts \ Donors PROVE InStep(acct)'
  BY DEF LedgerInv
<1> DEFINE g == Gross(m, sender)
           f == Fee(m, sender)
           w1 == Moved(wallet, This, roles.dao, f)
<1>1. /\ g \in Nat /\ f \in Nat /\ f <= g /\ g <= wallet[This]
      /\ wallet' = Moved(w1, This, sender, g - f) /\ fills' = fills
  BY RedeemNumbers DEF redeem, RedeemGoesThrough, authVars
<1>2. /\ wallet \in [Addresses -> Nat] /\ This \in Addresses /\ acct \in Addresses /\ acct # This
      /\ roles.dao \in Addresses /\ roles.dao # This /\ sender \in Addresses /\ sender # This
      /\ wallet[This] \in Nat /\ wallet[acct] \in Nat
  BY ConstantsAssumption DEF TypeOK, Addresses
<1> HIDE DEF g, f
<1>3. /\ w1 \in [Addresses -> Nat] /\ w1[This] = wallet[This] - f
      /\ w1[acct] = wallet[acct] \/ w1[acct] = wallet[acct] + f
  BY <1>1, <1>2, MovedType
<1> HIDE DEF w1
<1>4. wallet'[acct] >= wallet[acct] /\ wallet'[acct] \in Nat
  <2> DEFINE net == g - f
  <2>1. net \in Nat /\ w1[This] >= net
    BY <1>1, <1>2, <1>3
  <2>2. wallet' = Moved(w1, This, sender, net)
    BY <1>1
  <2> HIDE DEF net
  <2>3. wallet'[acct] = w1[acct] \/ wallet'[acct] = w1[acct] + net
    <3>1. CASE acct = sender
      BY <1>2, <1>3, <2>1, <2>2, <3>1 DEF Moved
    <3>2. CASE acct # sender
      BY <1>2, <1>3, <2>1, <2>2, <3>2 DEF Moved
    <3> QED
      BY <3>1, <3>2
  <2> QED
    BY <1>1, <1>2, <1>3, <2>1, <2>3
<1>5. ~Undecided'
  <2>1. markets[m].state \in Terminal /\ markets \in [MarketIds -> MarketType] /\ markets[m] \in MarketType
    BY DEF redeem, HasClaim, TypeOK
  <2>2. markets'[m].state = markets[m].state
    BY <2>1 DEF redeem, WithTotals, MarketType
  <2> QED
    BY <2>1, <2>2 DEF Undecided
<1>6. Recorded(acct, "BUY")' = Recorded(acct, "BUY") /\ Recorded(acct, "SELL")' = Recorded(acct, "SELL")
  BY <1>1 DEF Recorded, CollateralOf
<1>7. Recorded(acct, "BUY") \in Nat /\ Recorded(acct, "SELL") \in Nat /\ InitialWallet[acct] \in Nat
  BY <1>2, RecordedType, ConstantsAssumption
<1>8. wallet[acct] >= InitialWallet[acct] - Recorded(acct, "BUY") + Recorded(acct, "SELL")
  BY DEF LedgerInv, InStep
<1> QED
  BY <1>2, <1>4, <1>5, <1>6, <1>7, <1>8 DEF InStep

\* What the contract's records say an account has paid and received is what
\* left and reached its wallet, along all three routes of settle and for any
\* number of accounts and authorizations; redemption only adds to it.
THEOREM LedgerInStep == Spec => []LedgerMatchesFills
<1>1. Init => LedgerInv
  <2> SUFFICES ASSUME Init, NEW acct \in Accounts \ Donors PROVE InStep(acct)
    BY DEF LedgerInv
  <2>1. TypeOK
    BY TypeInit
  <2>2. ASSUME NEW action PROVE Recorded(acct, action) = 0
    <3>1. \A x \in Mine(acct, action) : CollateralOf(acct, action)[x] = 0
      BY DEF Init, Mine, CollateralOf
    <3> QED
      BY <2>1, <3>1, RecordedType, SumOfZeros DEF Recorded
  <2>3. wallet[acct] = InitialWallet[acct] /\ InitialWallet[acct] \in Nat
    BY ConstantsAssumption DEF Init, Addresses
  <2> QED
    BY <2>2, <2>3 DEF InStep
<1>2. TypeOK /\ LedgerInv /\ [Next]_vars => LedgerInv'
  <2> SUFFICES ASSUME TypeOK, LedgerInv, [Next]_vars PROVE LedgerInv'
    OBVIOUS
  <2>1. Undecided' => Undecided
    <3>1. CASE UNCHANGED vars
      BY <3>1 DEF vars, Undecided
    <3>2. CASE \A m \in MarketIds : StepForward(m)
      BY <3>2 DEF Undecided, StepForward
    <3> QED
      BY <3>1, <3>2, NextForward
  <2>2. ASSUME fills' = fills, \A acct \in Accounts \ Donors : wallet'[acct] = wallet[acct]
        PROVE  LedgerInv'
    BY <2>1, <2>2, InStepKept DEF LedgerInv
  <2>3. CASE \/ \E sender \in Accounts : Admin(sender)
             \/ \E sender \in Accounts, m \in MarketIds : Lifecycle(sender, m)
             \/ UNCHANGED vars
    BY <2>2, <2>3, QuietCalls DEF vars, authVars, moneyVars
  <2>4. CASE \E sender \in Accounts, a, b \in Auths, shares \in FillArgs, price \in PriceArgs, id \in MatchIds :
                 settle(sender, a, b, shares, price, id)
    BY <2>1, <2>4, LedgerSettle
  <2>5. CASE \E sender \in Accounts, m \in MarketIds : redeem(sender, m)
    BY <2>5, LedgerRedeem
  <2>6. CASE \E from \in Donors : Donate(from, 1)
    <3>1. PICK from \in Donors : Donate(from, 1)
      BY <2>6
    <3>2. /\ wallet \in [Addresses -> Nat] /\ from \in Addresses /\ This \in Addresses /\ wallet[from] >= 1
          /\ \A acct \in Accounts : acct \in Addresses /\ acct # This
          /\ wallet' = Moved(wallet, from, This, 1) /\ fills' = fills
      BY <3>1, ConstantsAssumption DEF TypeOK, Addresses, Donate, CanMove, authVars
    <3>3. \A acct \in Accounts \ Donors : wallet'[acct] = wallet[acct]
      BY <3>2, MovedType
    <3> QED
      BY <2>2, <3>2, <3>3
  <2>7. CASE (\E c \in CancelArgs : cancelAuthorization(c[1], c[2])) \/ Tick
    BY <2>2, <2>7 DEF cancelAuthorization, Tick, authVars, moneyVars
  <2> QED
    BY <2>3, <2>4, <2>5, <2>6, <2>7 DEF Next
<1>3. TypeOK /\ LedgerInv => LedgerMatchesFills
  <2> SUFFICES ASSUME TypeOK, LedgerInv PROVE LedgerMatchesFills
    OBVIOUS
  <2>1. ASSUME NEW acct, NEW action
        PROVE  SumFunction([h \in {g \in Auths : g.signer = acct /\ g.action = action} |-> fills[h].collateral])
                   = Recorded(acct, action)
    <3>1. DOMAIN CollateralOf(acct, action) = Mine(acct, action)
      BY DEF CollateralOf
    <3>2. SumFunction(CollateralOf(acct, action)) = Recorded(acct, action)
      BY <3>1 DEF SumFunction, Recorded
    <3> QED
      BY <3>2 DEF CollateralOf, Mine
  <2> QED
    BY <2>1 DEF LedgerInv, InStep, Undecided, LedgerMatchesFills
<1> QED
  BY <1>1, <1>2, <1>3, TypeCorrect, PTL DEF Spec
=============================================================================
