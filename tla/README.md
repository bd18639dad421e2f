# A TLA+ model of Prism

Prism is a prediction market on Hedera. Traders sign orders in their wallet, a
central order book matches them off chain, and the contract `PrismV2` holds the
collateral, checks the signatures and settles every match. This directory
models the parts that carry the money, the order flow and what the web client
does with both, checks them with TLC on small instances, and proves the most
important facts with TLAPS for every value of the constants.

`tlc -config X.cfg M` runs a configuration, `tlapm M.tla` checks a module of
proofs. `PROJECT.json` ties every definition to the lines of source it models,
every run to its properties, and every property to a deliberately wrong variant
of the code that it must reject.

## 1. The system

### Components and their state

| Component | Source | State | Operations |
|---|---|---|---|
| Contract | `scs/contracts/PrismV2.sol` | roles, rake, markets (state, close time, reserve, totals), YES and NO balances, fills per authorization, nonces, executed matches, collateral | settle (mint, merge, transfer), redeem, create / halt / resume / close / resolve / void a market, cancel, administration |
| Matching rules | `clob/src/matching.rs` | the two sides of a book | add, remove, max_fill |
| Order book service | `clob/src/orderbook.rs`, `nats.rs`, `main.rs`, `grpc_service.rs` | books by market, the txIds seen | take an order message, publish a match, create and close a market, cancel an order |
| Settlement worker | `api/server/services/settlementV2.go`, `nats.go`, `repositories/matches.go` | table `matches`, fill columns of `prediction_intents` | settle one match message, finalize, bookkeeping |
| Order intake and funding | `predictionIntent.go`, `cronKickOutUnfunded.go` | `prediction_intents`, `order_outbox` | admit an order, insert, publish; evict what is no longer funded |
| Book rebuild | `api/server/services/prism.go`, `clob/src/recreate_orderbook.rs` | none of its own | re-create markets and publish the open orders again after a restart of the CLOB |
| Cancellation | `predictionIntent.go`, `web/lib/cancelOrder.ts`, `Portfolio.tsx` | order row, book, the dialog | sign, check, mark, remove |
| Market administration | `markets.go`, `hedera.go`, `lib/utils.go` | table `markets` | create and resolve across contract, CLOB and database; pause, delete |
| Event relay | `blocknode/src`, `handlePrismV2Event` in `nats.go` | a bounded stack of events, event rows | poll the mirror node, publish, store, mirror |
| Rewards | `prismRewards.go`, `web/lib/claimPrism.ts`, `useLomRewards.ts`, `RewardsPage.tsx` | reward rows, the claim dialog, the board | claim, read and fold the rows |
| Wallet calls | `web/lib/walletMutex.ts`, `signWithWallet.ts`, `hedera.ts` | one lock for all wallet prompts of a browser | run a call under the lock, time out, abort, reset |
| Order ticket | `TradePanel.tsx`, `lib/trading/*` | form, polled book and price, the order being signed | edit, sign, submit, cancel |
| Open sells of a market | `pendingSells.ts`, `TradePanel.tsx`, `GraphOrderbook.tsx` | pending sells, books and intents fetched at different times | what of a position is still for sale |
| Chart | `GraphPriceV2.tsx` | range, chunks under way, points | fetch a window in chunks, draw a line |
| Session | `useWallet.ts`, `appkit.ts`, `connectWallet.ts`, `useActivityTimeout.ts`, `useIdleDisconnect24h.ts` | connector, signer, account info, timers | pair, switch network, disconnect, end an unattended session |
| Allowance | `AllowanceManager.tsx`, `hedera.ts` | allowance on chain, on the mirror node and shown | grant, revoke, read, pick a contract |
| Redemption | `useRedeem.ts`, `redeemSuppression.ts` | winnings, pending redemptions, hidden markets | redeem, hide, read back |
| Portfolio | `usePortfolio.ts`, `costBasis.ts`, `Portfolio.tsx`, `positions.go` | positions, open orders, filters | derive costs, add up, sort and filter |
| API client | `web/gen/*.ts` | none | encode and decode messages, call an rpc |
| Pages and layout, content, authentication, comments, scoring jobs, the contract of version 1, deployment | the rest | | not modelled (section 6) |

### How they interact

    wallet --signed authorization--> API --row + outbox (one transaction)--> dispatcher
      --clob.orders (JetStream, id = txId)--> CLOB book --one message per fill,
      clob.matches.settle (JetStream, work queue)--> settlement worker
      --settle--> PrismV2 --receipt / mirror node--> worker --> database

The API creates and closes books and cancels orders over gRPC. The CLOB keeps
everything in memory and calls `TriggerRecreateClob` on every start. The
contract's events come back through the block node and NATS. The web client
polls book, portfolio and prices over gRPC-web, reads allowances from the mirror
node, and sends every signature through one wallet lock.

### What is hard

The chain serialises calls, so the contract's difficulty is arithmetic and long
sequences of legal calls: rounding, redundant totals, caps over many fills. The
book's difficulty is that orders are matched once, on arrival, with nothing but
vector order as a record of time. The worker's difficulty is failure: every
call can fail after it took effect, the mirror node lags, messages are
redelivered to another instance while the first is still busy, and the process
can die between any two steps. The same goes for rebuild, administration and
relay. The client's difficulty is time: a wallet that may never answer, effects
that run after a render with the values of an older one, answers out of order,
accounts and networks that change under a request. `PROJECT.json` lists the
hazards at their lines.

### What makes each component correct

* Contract: solvent, every complete set backed, totals equal to what they sum,
  redemption never blocked, signed limits kept, markets move forward only.
* Matching: the largest admissible fill; never beyond quantity, cap or price;
  price-time priority; nothing matchable left crossed.
* Book and contract: what the book matches, the contract accepts.
* Settlement: a fill is recorded only after it executed, exactly once, and
  eventually; bookkeeping at most once.
* Rebuild: an order rests once, a fill counts once, open orders come back.
* Funding, cancellation, claims: what a request relied on held, what the user is
  told is true, buttons come back.
* Administration: database and contract agree on a decision, in that order.
* Relay: no event falls between two polls, each becomes one row per name the
  relay has had.
* Client: a cancelled order is never sent, prompts do not pile up, the form and
  the order book show one side, sells exceed the shares by no more than the
  intake's races allow, a chart shows history, the signer is the session's
  account, what the page says of a transaction is true, nothing waits for ever.
* Codec: client and server of two schema versions agree on what they share.

## 2. The modules

| Module | What it is |
|---|---|
| `PrismV2` | The contract. One action per external function; a reverting call is no step, so guards are negated revert conditions. |
| `Matching` | `matching.rs` as pure operators with the source's names. `Visit` is one round of the loop of `Book::add`, folded over the sorted opposite side. |
| `MaxFill` | The binary search of `max_fill` as a loop with its own state, so that its invariant and its end can be stated. |
| `OrderBookService` | The books, the duplicate filter and the tape of all matches. `add_market` is two steps because it takes two locks; the other calls hold theirs throughout. The tape and its times are history for the properties. |
| `BookToChain` | `OrderBookService` and `PrismV2` composed: the tape is settled in order, entries can be lost, refused or executed late. |
| `MatchLedger` | The abstract specification of settlement: execute once, record after that, count once. |
| `Settlement` | The worker call by call, JetStream, the two tables, the chain and the mirror node. `orphans` are transactions nobody waits for. |
| `BookRebuild` | Restart of the CLOB: intake, outbox, both streams with their ids, `TriggerRecreateClob`, settlement rows. Uses `Matching`. |
| `MarketAdmin` | Creation, resolution, deletion and pausing of markets over contract, mirror node, CLOB and table. |
| `OrderFunding` | Admission of a SELL and eviction of unfunded BUYs against an account whose funds move and whose mirror lags. |
| `CancelOrder` | A cancellation from the dialog to the book, with two accounts and switches between them. |
| `RewardsClaim` | A claim from the dialog through the hot wallet's transfer to the marking of the rows and the refresh of the balances, which may fail. |
| `Requests` | `CancelOrder` and `RewardsClaim` side by side: what an account asks of the API about its own. |
| `EventRelay` | Polling passes, the stack of events, publication, the API's tables; a restart may change the host name. |
| `WalletMutex` | The wallet lock: queue, ceiling, grace, abort, tabs that close. |
| `OrderLifecycle` | The panel's steps from signature to submission, over `WalletMutex`. |
| `Quotes`, `OrderTicket`, `TradeForm` | Prices and rounding; the ticket's numbers; the form and its effects. |
| `SellGuard` | The shares still for sale, from sources of different age, before an intake that reads the position, reads the open sells and inserts in three steps. |
| `PriceChart` | The windows of a chart's ranges and the fetches that fill them. |
| `WalletSession`, `IdleSession` | The connector's session; the timers that end it. |
| `TxConfirm`, `Allowance`, `RedeemFlow` | The polls that confirm a transaction, and the two flows that use it. |
| `RewardsBoard`, `PortfolioView` | The rewards page and the portfolio page as folds over what was fetched. |
| `ApiMessages`, `Wire` | The generated messages as tables of fields, the interfaces the client is compiled against, and the codec that works on them. |
| `FiniteSums`, `PrismV2Proofs`, `MatchingProofs`, `BookProofs`, `ClobProofs`, `SettlementProofs`, `ComponentProofs`, `ClientProofs` | Lemmas and theorems (section 5). |
| `MC*` | Instances for TLC. |

Abstractions that matter:

* An authorization stands for its own hash; signature verification is the
  constant set `Signed`; `here` says that version, chain and contract address
  are ours. Allowances suffice and the token conserves amounts (`_pullCollateral`
  and `_pushCollateral` revert otherwise). A recipient that cannot receive the
  token is outside the model.
* Numbers are unbounded naturals: Solidity's checked arithmetic reverts, which
  is a guard where it can matter, and the matching code multiplies in 128 bits.
  The scale (1 000 000) and the basis points (10 000) are constants that the
  runs set to 4 or 5 and 10, so that rounding happens in every few fills. The
  client's scale is 4000 to the dollar in the ticket and 2000 in the form, so
  that prices between two tenths of a cent are numbers.
* A trader is one value for both the account id and the address; `same_trader`
  keeps its disjunction.
* In `Settlement` the contract is reduced to: a submitted match executes once
  and within the orders, or reverts. The structural checks at the start of
  `settleMatchV2` depend on the message only and are taken to pass.
* `MarketAdmin`, `OrderFunding`, `CancelOrder` and `BookRebuild` each keep of the
  other services only the call they make: it takes effect or not, and answers or
  not, independently.
* What a wallet does with a prompt is two or three steps: the user approves or
  rejects, the network takes the transaction unless it has expired, and the
  answer reaches the page or is lost. Approving is possible after the page has
  given up and while another call is shown. In `Allowance` a transaction that is
  taken executes at once, in `RedeemFlow` later. Time enters these flows only
  through two durations: a frozen transaction is valid for 120 s (`Validity`),
  the page waits 300 s for the wallet (`Patience`).
* React effects are modelled as the set of effects that run after a render
  (`TradeForm!fx`); a user event waits for them. Wallet, mirror node, relay and
  server are the environment: they answer late, twice, out of order or never.
* A message on the wire is a sequence of records (number, wire type, value); the
  bytes of a varint are left out. A message type is a table of fields, and the
  generated reading and writing code of the eighty types is one operator that
  follows the table.
* Fields that only format or log are left out of every module. Definitions
  marked "Mutant" are deliberately wrong variants of the definition that
  follows; no specification uses them.

## 3. The runs

A run asks one question of a group of components. The four groups with several
parts (`computations`, `trade_page`, `account_pages`, `back_office`) put parts
that share no variable into one instance: a variable `part`, chosen at the
start, says which one moves. Each part's module has all it needs of the others
as its own environment, so a behaviour of the group is a behaviour of each part
projected on its variables; interleaving independent parts would add states and
no behaviour of any part. Two instances of one module with different bounds
("granting" and "choosing", say) are two parts.

| Run | Instance | Shows |
|---|---|---|
| `contract` | one market, three traders and the administrator, seven authorizations (two share a nonce), fills of 2 and 3 at prices 1 to 3 of 4, three match ids, close at 2, deadlines at the close | backing, redemption, dust, limits, ledger and forward-only markets through mint, merge, transfer, void, resolution, redemption, cancellation and a donation |
| `book_to_chain` | five orders, margin 2, time to 4, the tape settled with losses and refusals; or the contract alone with two markets, changing roles and rake, an unsigned and a foreign authorization | the next fill of the book is valid for the contract, the contract never runs ahead of the book, and the markets' totals do not mix |
| `order_book` | six orders: ties, binding caps, a market order on each side, one trader on both sides, an early deadline, a partly filled order, in every order of arrival | fills stay within the orders, in price-time priority, and what stays crossed cannot be matched |
| `order_book_race` | two concurrent `add_market` | expected violation, see below |
| `settlement_two_instances` | two instances, two fills of one bid that covers only one of them, two deliveries each, one order that may be cancelled or expire | refinement of `MatchLedger`, nothing ahead of the chain, nothing booked twice |
| `settlement_live` | one instance, two crashes, unlimited delivery | an executed fill is recorded in the end |
| `settlement_refused` | one instance, a crash, a cancellation, an expiry | expected violation, see below |
| `computations` | `max_fill` over caps to 4, earlier fills to 2, all prices of scale 5; the ticket over books with the user's own orders and prices off the grid; every rpc with a field missing on one side; portfolios of two markets with up to three orders | the search is right and ends, the ticket charges what it shows and crosses what it was priced from, both sides of the wire agree, the portfolio adds up |
| `trade_page` | two orders and a third wallet call, one tab or two; four books and five typed prices; two sells of one share, from this page or another device, taken in by three steps each; a chart of three windows; markets of twenty ages | signing is safe, the form in step, sells covered but for the intake's races, the line true; the page recovers |
| `account_pages` | two accounts and networks switched twice; two concurrent allowance requests and another tab at the wallet; one market redeemed from two views; four markets on the board | signer, idle timers, allowance, redemption and board are right; no button waits for ever |
| `back_office` | one market created, resolved twice and deleted; two or three orders over a crash; three orders on funds for two; two accounts cancelling; one tab with three claims, one failure and one departure; relay passes that overlap, look back, or restart under another host name | the safety of each job |
| `back_office_live` | five of those parts under fairness | decisions, orders and buttons come back (two tabs claiming) |

Why the bounds are enough to be interesting. Three match ids allow a mint, a
transfer and a merge, or three fills of one authorization; fills of 3 are odd,
so a void leaves dust; wallets of 5 run dry; the caps of the authorizations
bind before their quantities. Six orders allow two resting orders of one price,
a better one that cannot trade, and an arriving order that meets all of them.
In settlement, two fills that together exceed the bid make the second one
refusable, and two crashes hit the recovery of a recovery. Two wallet calls and
a third make a queue with a holder, a waiter and a newcomer. One crash and two
orders let a redelivered order overtake the rebuilt one. Three claims of one tab that stays and meets no
failure let a claim find the amount of the one before still on offer; it must be
paid once. `Validity = 1` and `Patience = 2` are the least numbers in the order of
120 s and 300 s. Relay times around
`Lookback` and `StackSize = 1` let every event be forgotten and seen again.
Counters such as `MaxFaults`, `MaxSteps`, `MaxReads`, `MaxClaimLeaves` bound how often
the environment acts; every one is a constant of its module, set in the `MC*`
module or the `.cfg`. Match ids and instances are interchangeable in the runs
that use symmetry; runs with temporal properties other than action properties
use none.

Deadlock is checked in the contract and order book runs, where time or calls
always go on or a cancelled call can be repeated. In the others the system may
really stop: a search ends, a tape or queue is empty, the bounded environment has
nothing left to do.

Each property of a passing run is rejected by a run with one definition replaced
by a wrong variant, such as a dropped guard, a missing reset or a swapped order
(`PROJECT.json`, "mutants").

### Fairness

* `computations`: a called function runs (`WF` of the search's `Next`).
* `settlement_live`: an instance that is not dead keeps going (`WF(Step)`, the Go
  scheduler), JetStream delivers and redelivers (`WF(Deliver)`,
  `WF(AckWaitExpires)`), the mirror node catches up, and a database or mirror
  call that is retried again and again succeeds at some time (`SF` on the four
  calls `CallFails` can pre-empt). Nothing is assumed of the receipt. The run
  sets no delivery limit and no cancellation or expiry: with them an executed
  fill can stay unrecorded, as section 4 says.
* `trade_page`, `account_pages`: continuations of promises, timers, effects and
  polls run (the browser's event loop), requests are answered or fail, and another
  tab lets go of the wallet lock, at the lock's ceiling at the latest. Nothing is
  assumed of the user or of the wallet, which may never answer.
* `back_office_live`: the cron, outbox and rebuild loops run, calls return or fail,
  the mirror node catches up, faults are bounded. `[]<>` of "no order in hand or
  it was placed" is the weak fairness of `place_order`, which is enabled until it
  is taken or the CLOB stops.

## 4. What the expected violations show

* `BooksNotOverwritten`: `add_market` (`orderbook.rs:34-41`) checks and inserts
  under two locks. Two rebuilds that overlap, as after a CLOB crash during the
  first one, replace a book that has taken orders already.
* `ExecutedNotRefused`: `settlementV2.go:145-147` wants an executed fill to be
  finalized even if an order was cancelled or expired since. The code knows of an
  earlier submission only through `attempts`, written after `Execute` returns.
  If that write did not happen and the mirror node lags, the message is
  terminated. The delivery limit (`nats.go:149`) has the same effect after
  twenty failures.

## 5. The proofs

All theorems hold for every value of the constants that satisfies the named
assumptions of the modules (`ConstantsAssumption`, `FiniteAssumption`,
`MatchingAssumption`, `OrdersAssumption`, `TradersAssumption`,
`MaxFillAssumption`, `SettlementAssumption`, `LockAssumption`, `TimeAssumption`,
`OrderAssumption`, `AdminAssumption`, `SessionAssumption`, `LimitsAssumption`,
`AllowanceAssumption`, `RedeemAssumption`, `SellAssumption`, `FormAssumption`,
`FundingAssumption`, `ClaimAssumption`): any number of accounts, markets, authorizations, orders, instances, matches, crashes,
wallet calls, tabs, administrators' jobs, deposits and withdrawals, network switches,
allowance requests, redemptions, cancellations, claims and polls. The assumptions say what the code's types say (prices within
the scale, quantities natural, one authorization per hash, one order per transaction
id, traders that are accounts, every wallet call made in one tab, timeouts in the
order the code gives them (a frozen transaction expires before the page stops
waiting for the wallet), jobs that create, resolve or delete a market, a scale of
whole tenths of a cent, an order of more than nothing), that an order does not arrive with more filled than its
quantity and cap allow, that a polled book holds orders this client signs, and that
accounts, markets, authorizations, sell orders and tabs are finitely many.

`PrismV2Proofs`:

* `TypeCorrect`: the types are inductive because every subtraction is guarded.
* `CustodySurplus`, `AlwaysSolvent`: each of mint, merge, transfer and redeem
  changes custody by exactly what it changes `aggregateReserved` by; the split of
  a fill into two legs that add up to it (`CollateralSplit`) is what makes the
  mint exact.
* `CompleteSets`: `CompleteSetsBacked` is inductive together with the types. The
  void case needs the dust rule: half of an even total, rounded down per claim,
  never takes more than the rest is owed.
* `AuthorizationsRespected`: two authorizations with one nonce are told apart by
  the strengthening that a filled authorization owns its nonce.
* `MarketsMoveForward`: an action property; each step is shown to move every
  market forward, and to leave its reserve and shares alone while it is halted,
  closed, or open past its close time, with the types as the only invariant.

and, over sums of accounts, markets and authorizations:

* `TotalsAgree`: totals are sums of balances and `aggregateReserved` the sum of
  the reserves. The strengthening is `UncreatedEmpty`: a market that does not
  exist has no balances, or its creation would reset totals that are not zero.
* `RedeemUnblocked` follows: a claim is one summand of a total, and the totals
  are backed.
* `DustStaysSmall`: one redemption of a void market adds at most half a unit of
  dust and one more account without a claim. A claim of an odd number of shares
  is where both happen at once.
* `LimitsKept`: `LegWithinLimit` bounds what rounding does to one leg,
  `LimitAdds` adds legs up, and the rounding of every fill is paid for by its own
  match id.
* `LedgerInStep`: what an account has paid is a sum over its authorizations; a
  fill changes one summand and one wallet (`RecordedSettle`, `WalletSettle`) by
  the same amount.

`FiniteSums` makes these possible. The sum of the community modules folds in an
unspecified order through a recursive function, of which not even the existence
is given, and the induction theorems of the library take a predicate as a
parameter, which the provers cannot instantiate. The module does the induction
over a *set* of naturals instead (`NatSetInduction`, from the well-foundedness of
`<`), shows that the recursive function exists on the subsets of a finite set,
and that its value does not depend on which element is taken out first
(`SumRemove`). What an update does to a sum (`SumOfUpdate`) is then a fact to
cite.

`MatchingProofs` is about one call of `Book::add` or `Book::remove`, for any
book. The order in which the opposite side is visited is given by the number of
orders better than each (`BestFirst`); counting gives every order its own rank,
so that the sort is a permutation, best price first and earliest first among
equals. The loop is described by what `k` visits have come to (`WalkTraced`): which of the visited orders
were kept and with what filled, which matches were made, and, for every order
that was passed over, why. After the largest fill nothing more fits between the
same two orders, so an order kept behind a fill is passed over for a reason too.
`AddOutcome` and `RemoveOutcome` say what a call makes of the book.

`BookProofs`, of the books alone:

* `BooksInvariant`: the inductive invariant `IInv`. None of the run's properties
  is inductive. What has to be added: every resting order is one of `Orders` with
  some of it filled, on its own side and market, once, and its id is in the
  duplicate filter; on a book that every arrival sorts again, orders of *equal
  price* rest in the order of their arrival (those of different prices do not);
  and two orders that cross are *barred*: a reason against their fill that
  the clock and further fills of either can not take away.
* `FillStateIsTape`: the books keep each order's fill state, the tape keeps the
  matches, and `add` changes both in a loop. `AccountInv` says that they agree:
  what an order counts as filled is what it arrived with plus what all matches of
  the tape took from it, and an order in no book has counted all of it already.
  `WalkBooked` carries this through the visits of one arrival.
* `FillsGood` follows: the caps are guarded per order and fill, and by the
  agreement they bound the sum over the whole tape.
* `BooksTyped`, `NothingLeftBehind`, `PriceTimeOrder` follow from `IInv`. The
  last is an action property: for each new match and each better placed order of
  the opposite side, that order was visited before (`ArrivalInTurn`) and either
  is used up or was passed over because no fill with it was possible.

and of the engine in front of the contract. The engine
judges a fill by the fill state the orders carry, the contract by what it has
executed itself, and between the two fills are lost, refused, or executed after
later ones:

* `BookUnaware`: what becomes of a fill never changes the books, so every
  behaviour of the two is one of `OrderBookService`, and its invariants hold here.
* `ChainIsTape`: the inductive `ChainInv` relates the two accounts through the
  tape: the contract has executed only fills that were dealt with, and has consumed
  of an authorization the sum of what the *executed* ones took from its order.
  For one fill more to change these sums by exactly its own share, no two
  fills may have one match id: the id contains both orders' filled shares from
  before the fill, which the tape makes strictly larger from fill to fill
  (`MatchIDsDiffer`).
* `NeverAheadOfBook`: the executed fills are some of those dealt with, and a sum
  over some is no more than the sum over all.
* `BookFillsSettle`: the next fill together with the executed ones is still a part
  of the tape, so by `FillStateIsTape` it stays within quantity and cap; limits,
  split, traders and deadline are those the engine has checked. The contract's
  `cancelAuthorization` is not called in this composition: it takes back what the
  engine still believes in, and a fill after it is refused as `SkipNext` has it.

`ClobProofs` is about the loop of `max_fill` and about the restart of the CLOB:

* `MaxFillCorrect`: the legs grow with the fill
  (`YesLegMonotone`, `NoLegMonotone`), so the caps admit a prefix and positivity a
  suffix; the loop invariant is the one in the code's comment. `LoopReturnsMaxFill`
  ties the loop to `Matching!max_fill`, which is a definition and not a loop: what
  is proved of the books holds of the code that searches.
* `RebuildSafe`: a rebuild reads each order's row, asks for its unsettled fills with
  another query, and publishes what is left, while fills go on settling. The
  inductive invariant `RebuildInv` adds to the three checked parts what they rest
  on: an order that rests was seen and the one in hand was not (`SeenInv`); a
  message id stands in the settlement stream at most once, and the id of a
  finalized fill no more (`StreamInv`); and what a rebuild has read of an order is
  at most what is finalized *now* (`ReadInv`). The finalized and the unsettled
  fills share no fill, so the two counts together never exceed all fills of the
  order (`SumSplit`), however many settle between the two queries. The calls of
  `Book::add` come from `MatchingProofs`. The hypothesis `OrdersAsSigned` says of
  the orders what the intake checks, and TLC evaluates it for every instance.

`SettlementProofs`:

* `SettlementTypes`, `BookkeepingOnce`, `SettlementImplements`: the invariant
  `SettleInv` says that what the mirror shows, what a worker knows to have
  succeeded, and what is recorded, has executed, and that a match waiting for
  its bookkeeping is recorded, not booked, and in the hands of one worker only.
  Under it every step is an `Execute`, a `Record` or a stutter of `MatchLedger`.
* `LedgerBehindChain`: `FillsInv` says that the fill columns of an order are the
  sum over its recorded matches; those are among the executed ones, over which
  the contract's fills are the same sum (`SumMonotone`).

`ComponentProofs` is about three components whose parties wait, give up and try
again. There, what a later step relies on was established several steps of
other actors before:

* `SigningTypeOK`, `SigningSafe`: the inductive invariant has two halves.
  `LockInv` is the lock's: the call that holds it is the one whose prompt is
  live and that has not left, a waiting call stands once in the queue of its own
  lock and has not reached the wallet, and only a call whose promise has settled
  can leave the lock a time of grace. None of the checked properties says who holds the
  lock, but `OnePromptPerLock` follows from that and from nothing less. `PanelInv`
  is the ticket's: which signing phases belong to the one call in progress, and
  that what was sent, or waits to be sent, ended with a signature and was not cancelled. The link is
  that the lock never changes a promise that has settled (`PromisesKept`), so a
  timeout, an abort addressed to another call or a late answer cannot turn a
  signed order into an unsigned one.
* `SentWasSigned`: every order that ever went to the server was signed in the
  wallet and not cancelled while it was.
* `PlacesTypes`, `PlacesAlwaysAgree`: contract, mirror node, CLOB, table and topic are
  written one after the other by jobs that fail with and without effect. The
  invariant `PlacesInv` adds to the agreement where each job stands
  (past the submission of a resolution the contract has this job's outcome,
  not only some outcome) and that the mirror shows only what the contract
  once said, and shows its decision for good. The rebuild after a restart works only on markets the
  database has.
* `DecisionsStay`: an action property: a decision of the contract stays, and a
  recorded outcome is never overwritten, by any repetition of any job.
* `FundingTyped`, `FundingSafe`: what backs an order. An intake and a pass of the
  eviction each read mirror node and table one after the other, while the rest of the
  system goes on. `AdmitInv` says what a request still knows of the account: as long as
  no fill, transfer or other insertion came in between, what it read is held now and
  covers its order with all that the open SELLs reserve. An eviction that is under way does come in between:
  its mark is harmless because the row it marks was not open any more (`ListInv`), neither when
  it was cancelled nor when it turned out to be filled. The rows lag behind the
  fills, so what is reserved is at least what the orders can still take
  (`FillsInv`, and `SumPointwise` for the two sums). Of a pass, that the kept orders fit alone is
  not inductive: the kept orders are part of all that was counted, evicted ones included
  (`KeptInv`), and the balances that replace those of the collateral between BUYs
  and SELLs change nothing for the BUYs kept so far.

`ClientProofs` is about what the web client keeps of an account and of an order, and
about the requests it makes for them:

* `SignerBound`: neither half of `SignerIsSession` is inductive, since in the
  middle of a switch or a teardown signer and session differ. `SessionIInv` says
  what differs and who will repair it: a signer without its session is replaced by
  a connector that is starting (`SignerInv`), a session without its signer is being
  torn down or was left by a failed teardown (`SessionInv`). That a late teardown or
  pairing hits no newer connector rests on `GenerationInv`: the generation a switch
  will give its connector is one no connector has had. `WaitingInv`, the waiting
  switches are consecutive and no two neighbours go to one network, shows that
  `setActiveNetwork` never returns early (`AlwaysReplaced`).
* `UnattendedEnded`: the two timers are not related to the last activity but to each
  other and to time stamps. `PunctualInv` bounds the one that is running now by the
  last activity; the countdown must end before the timer of the warning comes round
  again, which needs the countdown to be the shorter one (`LimitsAssumption`).
* `GrantsSafe`: a transaction that was submitted and whose answer was lost may have
  changed the allowance before the page reports a time-out; the theorem is that
  nothing changes it afterwards, though the prompt may still be open and other calls
  and tabs have the lock by then. `CallInv` relates the two clocks of a call: the
  wallet has had it no longer than the transaction has been frozen, so a call
  that timed out is not shown any more or has expired, because the page waits longer than
  a transaction is valid (`AllowanceAssumption`). For the other verdicts it says
  what the answer of the wallet has settled, and `LockInv` that the calls of this tab
  reach the wallet one at a time and only through the lock. The invariant says nothing
  of contracts and amounts, on which none of this depends.
* `RedemptionHonest`: `TellInv` says not only that what a view was told is true but
  that it is final: the call is over and either has expired or was neither submitted nor
  is shown (`Final`), and no step changes such a call (`Evolves`). `QueueInv` keeps
  the wallet to the head of the queue. `HiddenInv` is the first part of the property: a time-out hides
  nothing, although the contract may have paid.
* `SellsCovered`: the position is read, the open sells are read, and the row is inserted,
  with fills, recordings and other requests in between. `ReadInv` says what a request
  that was not crossed still knows: before it reads the rows, that only fills not yet recorded have
  taken shares since it read the position; before it inserts, that its share is
  promised to nobody else. Every admission then adds at most one crossed request
  or one covered sell (`CoverInv`), and the property's bound is reached: two requests that read
  first are both admitted. The second half does rest on the client: an order that is open
  is in the book, in the store, asked for, or let go of (`ListedInv`), which needs that
  an open order the panel has seen in the book is still there (`PolledInv`).
* `FormKeepsStep`: at rest panel and order book show one side, the one chosen last.
  In between they differ, and `EffectInv` and `ChosenInv` say which effect is on its way
  and that none is on the way back: the two are never pending together after the
  first render. The prices need arithmetic for an unknown scale: a price is a number
  of ticks (`TicksFacts`, `OnTheGrid`), rounding stays between multiples of the tick
  (`RoundingBetween`), and the two roundings of `roundToTick`, the second with the tick
  of the price the first has found, end on a price that can be ordered
  (`RoundedIsOrderable`), also where the tick size changes. The entries of
  `VALID_CENTS` are the fixed points that the complement maps to each other
  (`ValidFacts`), so a turn there and back restores them. `FormAssumption` says that
  the orders of a polled book are on the grid of 0.1 cents, on which this client
  signs (`generatePredictionIntent`).
* `RequestsSafe`: none of the parts of `RequestsAreHonest` is inductive, since they
  speak of the end of a cancellation or claim that passed several guards long before.
  `CallSound` says what a cancellation has behind it at each of its steps: what was
  sent carries the signature of the account it was started for, whoever is bound by
  now; what passed the guards is that account's own order; what was marked is no
  longer open, and stays so while fills, redeliveries and other cancellations go on
  (`ServiceKeeps`). A page left behind has a smaller `mount` than the present one,
  so an answer for it can neither enable nor disable a button. `ClaimSound` and
  `DialogSound` do the same for a claim: a reward it covers is never "none" again, is
  paid by the transfer and claimed by the mark, and a claimed one is never open
  again, so a dialog whose balances were read cannot offer it; one whose refresh
  failed may, until the next read. How often a reward is paid is a count of
  claims (`PaidInv`): every payment belongs to a claim that covers the reward
  (`Paying`), as long as the reward is open those claims are under way or have failed half
  way, and of the ones under way a tab awaits one and has walked away from the rest
  (`Awaited`, `Abandoned`). Once it is marked, no claim covers it anew, not even one
  of an amount that stayed on offer. That a tab has one claim
  under way holds until it first leaves the page; `WaitsForItsClaim` names it. It is
  the claim the dialog waits for.

The tabs of `WalletMutex` that close are not part of the specification of
`OrderLifecycle`; they stay with TLC.

Only model-checked. Liveness (`CallEnds`, `ExecutedGetsRecorded`,
`PageRecovers`, `AccountRecovers`, `OfficeRecovers`) is out of the prover's reach,
as is `ENABLED`. `Wire` encodes nested messages with recursive operators and
stays with TLC, and so do the sums and lists of the portfolio and the rewards board, which are folds
over data. The properties of the other modules (the relay, and of the web client the chart and
the order ticket's numbers) are checked on their instances and not proved.

## 6. What is not modelled

* The layout of the pages, styles, translations, and the content of markets,
  comments and categories; authentication and sessions of the API: request
  plumbing over single rows.
* The contract of version 1 and the proxy: superseded, and a wrapper around
  OpenZeppelin code.
* Scoring jobs, campaigns, cost basis on the server and the volume figures:
  floating point over database aggregates.
* The depth chart and the drawing of charts; the last-trade poll
  (`useLastTradePrice.ts`), one number; the market position hook
  (`useMarketPosition.ts`), one request and one flag, whose overlap is that of the
  chart's fetches; the request cache (`grpcCache.ts`); the paged fetch
  (`fetchAllPaged.ts`), which has nothing exact to promise while rows move.
* The gRPC `create_order` of the CLOB, which skips the duplicate check and has no
  caller in the repository.
* Deployment, infrastructure, one-off scripts.

## 7. Where code and words differ

Two disagreements are shown by runs (section 4). The ones below were met while
modelling. Where the code is modelled, the model has the behaviour of the code,
and the checked properties are stated so that they say what the code does
promise; where that is a bound or an exception, the property is named in
brackets. No run states the quoted sentences as properties.

**Wallet and session**

* `signWithWallet.ts:31-32`, `hedera.ts:276-279`: "the mutex releases when the
  underlying wallet promise actually settles". The timeout is inside
  `withWalletLock`, so the lock is released while the prompt is live.
  `walletMutex.ts:157` also releases it ten seconds after an abort, against
  `AllowanceManager.tsx:291-292`.
* `useOrderLifecycle.ts:624` "Reject this UI awaiter": `cancelSigning` rejects the
  call that *holds* the lock, which may be another one.
* `useMarketPosition.ts:75`: the account lookup is "non-fatal"; when it fails after
  a change of account, the next order is built from the previous account
  (`useOrderLifecycle.ts:260`, `:332`).
* `appkit.ts:207`: of two quick switches of the ledger, the slower one wins.
* `useIdleDisconnect24h.ts:7-9`: a restored session is judged against the stored
  time. The first effect runs before the session is bound, so it counts as fresh.

**Trade panel**

* `useOrderLifecycle.ts:171` "Reset when form changes": the signature and the
  pending intent stay, and the signed order is submitted beside a changed form.
* `useTradingForm.ts:11` "when initial price loads": every later change of that
  price overwrites the typed limit.
* `TradePanel.tsx:260`, `Market.tsx:30`: the URL parameters are cleared before the
  panel that reads them is mounted.
* `TradePanel.tsx:938`: from a price between two cents an arrow skips one.
* `TradePanel.tsx:981` "Executes immediately": the price may come from the user's
  own resting order (`utils.ts:87`), which the book does not match with him; a price
  off the grid of 0.1 cents is rounded to it, away from the order it was taken from or
  past it (`MarketOrderExecutes`).
* `PRISM_V2_ORDER_PROTOCOL.md:133`: the validation compares the typed amount with
  the allowance; the signed cap is rounded up and a NO gets a slack (`useTradingValidation.ts:26`;
  `CostsWhatIsShown` bounds both).
* `TradePanel.tsx:240`, `GraphOrderbook.tsx:104-106`: open intents "can lag
  several seconds". They are fetched once per connection, so a filled sell stays
  in the merged book, a cancelled one returns when its entry expires, and a
  pending sell is dropped before the book shows it (`pendingSells.ts:16`;
  `OpenSellsCovered` excepts it as `slipped`).
* `useMarketPosition.ts:96`: the unfiltered fallback is refused by the API
  (`positions.go:53-56`), and the previous position stays.

**Allowance, portfolio, redemption**

* `AllowanceManager.tsx:205` "current + new": the addend is a variable shared with
  the menu and the panel, which may hold another contract's value (`:478`,
  `WalletMenu.tsx:37-39`). The read after the receipt (`:235`) is the mirror node's.
* `Portfolio.tsx:711` "Oldest first" ranks groups by their *newest* order (`:657`;
  `OrdersComplete` says so).
  `usePortfolio.ts:83-86` computes a flag the card does not ask. `:952-953` rows for
  sells without a position are missing in two cases. `:1378` takes the rake off the
  refund of a void market, which the contract pays in full (`HistoryAddsUp` states the
  difference).
* `RedeemWinningsDialog.tsx:20` "net of the protocol fee": it is given the gross.
* `useRedeem.ts:129`, `AllowanceManager.tsx`: when the wallet's answer is lost
  (`walletMutex.ts:18-20`) a time-out is reported as a failure of what the contract has
  executed (`RedeemIsHonest` and `GrantIsSafe` claim only that it is not executed
  *afterwards*). `AllowanceManager.tsx:187` looks for a call of this tab before the
  transaction is frozen; the lock may be taken by then, and another tab's is not seen.
* `redeemSuppression.ts:2`: keyed by market only, so it also hides the winnings of
  the next account.
* `RedeemableWinningsNotice.tsx:11-12` "polls every 60s": there is no timer.

**Relay and rewards**

* `000061_prism_v2_orders.up.sql:47` "makes redelivery idempotent": the hash covers
  the relay's host name, so that a relay that is recreated stores an event twice
  (`StoredOnce`: one row per name). `nats.go:326-327`: a crash between storing an event and
  mirroring it leaves it unmirrored.
* `blocknode/src/index.ts:101`, `:222`, `:239`: an event whose publish failed counts as
  published, also for the manual back-fill; the initial look-back is not awaited
  and its failed requests are dropped.
* `claimPrism.ts:6-7`: read, transfer and mark are three steps
  (`prismRewards.go:118`, `:188`): rewards may be paid twice (`PaidPerRace` bounds how
  often) or marked unpaid. `useClaimPrism.ts:53`: when the refetch fails, the claimed
  amount stays on offer (`ClaimedNotOffered` excepts it).
  `RewardsPage.tsx:115-117` "matured": the claim pays all that is unredeemed.
* `rewardsMath.ts:10`: account and market rows come from two requests.
  `RewardsPage.tsx:479` counts markets of which the query asks for sixty.

**Charts and feeds**

* `GraphPriceV2.tsx:488`, `useLastTradePrice.ts:5`: an answer for the market left
  behind is shown. `GraphPriceV2.tsx:385-386`: the seed request of an old market is
  refused (`markets.go:340-344`). `useLastTradePrice.ts:6-8`: the query returns the
  oldest rows first.
* `fetchAllPaged.ts:23`, `:28`: exactly `maxPages` full pages count as truncated, and a
  row that leaves the feed between two pages makes another be skipped.

**Orders and the book**

* `predictionIntent.go:361-363`: an order not yet in the book is cancelled in the
  database and enters the book afterwards. `:341`: when the call to the CLOB fails,
  every retry is refused as already cancelled.
* `predictionIntent.go:198`: balance, open SELLs and insertion are three steps; two
  requests that read first are both admitted (`OpenSellsCovered` bounds the excess).
* `prism.go:233-235`: the rebuild counts fills that have a row, not those still in
  the stream; it also counts the ones rejected for good (`:246`).
* `clob/src/nats.rs:107-108`: after a restart a fill with the same counts and another
  price has the same message id. `predictionIntents.go:60-61`: a failed
  acknowledgement ends the CLOB's order task.
* `cronKickOutUnfunded.go:125-126`: rows come in the database's order, the balance
  is read before the rows, and the sum starts at zero on every market.

**Administration**

* `OPERATIONS_RUNBOOK.md:23`: the check before create and resolve asks a mirror node
  that lags; a retry after a database error fails at the CLOB, which has the
  market already (`utils.go:307`), and a resolution fails for a market the CLOB
  has not (`markets.go:421`).
* `api/server/lib/utils.go:338`: `SoftDeleteMarket` closes the book of a market the
  contract has open.
* `clob/README.md:36`, `OPERATIONS_RUNBOOK.md:19`: paused markets are not rebuilt, and
  resuming one writes only its row.
