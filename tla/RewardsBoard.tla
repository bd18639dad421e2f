---------------------------- MODULE RewardsBoard ----------------------------
(***************************************************************************)
(* The limit-order-mining board: the rewards page reads the scored rows of *)
(* the markets that pass its filters through a pool of a few requests,     *)
(* folds them into per-market statistics and a leaderboard, and sets the   *)
(* connected account's own rows, read by another request, beside them.     *)
(* The hourly cron goes on writing rows.  An average is a numerator and a  *)
(* denominator.                                                            *)
(***************************************************************************)
EXTENDS Integers, Sequences, FiniteSets, SequencesExt, FiniteSetsExt

CONSTANTS
    Markets,        \* sequence of [id, active, lom, category, matches]
    Accounts, Me,
    Scores, Distances,
    Columns, Searches, Categories,  \* the columns and filters tried
    Cap,            \* LOM_MARKET_FETCH_CAP
    Concurrency,    \* LOM_FETCH_CONCURRENCY
    MaxRows, MaxFailures, MaxReads,
    NoData

Ids == {Markets[i].id : i \in DOMAIN Markets}

VARIABLES
    rows,       \* prism_lom: sequence of scored rows
    filter,     \* the page's search and category
    sort,       \* column and direction
    cache,      \* per query key: the pool under way and the last result
    mine,       \* result of GetRewardsByAccountId
    failures, reads

vars == <<rows, filter, sort, cache, mine, failures, reads>>

Row == [account : Accounts, market : Ids, score : Scores, distance : Distances,
        at : 1..MaxRows]

SumOf(s, F(_)) == FoldLeft(LAMBDA a, r : a + F(r), 0, s)

-----------------------------------------------------------------------------
\* Score-weighted average, or the plain mean when every score is zero.
aggregate(s) ==
    LET total == SumOf(s, LAMBDA r : r.score)
    IN  [total |-> total,
         miners |-> Cardinality({r.account : r \in Range(s)}),
         distance |-> IF total > 0
                      THEN [num |-> SumOf(s, LAMBDA r : r.distance * r.score), den |-> total]
                      ELSE [num |-> SumOf(s, LAMBDA r : r.distance), den |-> Len(s)],
         last |-> Max({r.at : r \in Range(s)} \cup {0})]

\* Mutant: the rows of the last market replace those before.
leaderboardOfLast(lists) ==
    LET all == IF lists = <<>> THEN <<>> ELSE Last(lists)
        entry(a) == [account |-> a, score |-> SumOf(all, LAMBDA r : IF r.account = a THEN r.score ELSE 0),
                     rowCount |-> Len(SelectSeq(all, LAMBDA r : r.account = a))]
    IN  SetToSortSeq({entry(a) : a \in {r.account : r \in Range(all)}},
                     LAMBDA x, y : x.score >= y.score)

\* One entry per account over all lists, best score first.
buildLeaderboard(lists) ==
    LET all == FlattenSeq(lists)
        entry(a) == [account |-> a, score |-> SumOf(all, LAMBDA r : IF r.account = a THEN r.score ELSE 0),
                     rowCount |-> Len(SelectSeq(all, LAMBDA r : r.account = a))]
    IN  SetToSortSeq({entry(a) : a \in {r.account : r \in Range(all)}},
                     LAMBDA x, y : x.score >= y.score)

groupRowsByMarket(s) == [m \in {r.market : r \in Range(s)} |->
                            SelectSeq(s, LAMBDA r : r.market = m)]

scoreByMarketFrom(s) == [m \in {r.market : r \in Range(s)} |->
                            SumOf(SelectSeq(s, LAMBDA r : r.market = m), LAMBDA r : r.score)]

lastScoredAtByMarketFrom(byMarket) ==
    [m \in DOMAIN byMarket |-> Max({r.at : r \in Range(byMarket[m])})]

latestScoredAt(stats) == Max({s.last : s \in Range(stats)} \cup {0})

-----------------------------------------------------------------------------
(* The page's filters, query keys and orders.                              *)

\* Active, not excluded from mining (absent counts as enabled), and matching.
filteredMarkets(f) ==
    SelectSeq(Markets, LAMBDA m : /\ m.active /\ m.lom # "off"
                                  /\ f.search => m.matches
                                  /\ f.category = 0 \/ m.category = f.category)

\* The first Cap ids: the query key of useLomMarketRewards.
FirstIds(listed) == [i \in 1 .. Min({Len(listed), Cap}) |-> listed[i].id]
Key(f) == FirstIds(filteredMarkets(f))

DataOf(key) == IF key \in DOMAIN cache THEN cache[key].data ELSE NoData
Shown == DataOf(Key(filter))

\* The statistics of the markets, and the leaderboard, of a result.
StatsOf(data) == IF data = NoData THEN <<>> ELSE [i \in DOMAIN data |-> aggregate(data[i])]
BoardOf(data) == IF data = NoData THEN <<>> ELSE buildLeaderboard(data)

scoreByMarket == scoreByMarketFrom(mine)

TotalOf(m, key, stats) ==
    IF \E i \in DOMAIN stats : key[i] = m
    THEN stats[CHOOSE i \in DOMAIN stats : key[i] = m].total ELSE 0

MineOf(m, scores) == IF m \in DOMAIN scores THEN scores[m] ELSE 0

ColumnOf(m, key) ==
    CASE key = "score" -> TotalOf(m.id, Key(filter), StatsOf(Shown))
      [] key = "yours" -> MineOf(m.id, scoreByMarket)
      [] key = "market" -> CHOOSE i \in DOMAIN Markets : Markets[i] = m

\* Markets by a column, in a direction.
SortedBy(listed, column, dir) ==
    SortSeq(listed, LAMBDA a, b : IF dir = "asc" THEN column[a] < column[b] ELSE column[a] > column[b])

Column(listed) == [m \in Range(listed) |-> ColumnOf(m, sort.key)]
sortedMarkets == SortedBy(filteredMarkets(filter), Column(filteredMarkets(filter)), sort.dir)

\* RewardsList of the portfolio: the account's markets by score.
rewardsList(scores, desc) ==
    SetToSortSeq(DOMAIN scores, LAMBDA a, b : IF desc THEN scores[a] > scores[b] ELSE scores[a] < scores[b])

-----------------------------------------------------------------------------
(* Actions.                                                                *)

\* The cron scores an order.
ScoreRow(r) ==
    /\ Len(rows) < MaxRows
    /\ rows' = Append(rows, r)
    /\ UNCHANGED <<filter, sort, cache, mine, failures, reads>>

\* Another search or category.
SetFilter(f) ==
    /\ f # filter
    /\ filter' = f
    /\ UNCHANGED <<rows, sort, cache, mine, failures, reads>>

toggleSort(key) ==
    /\ sort' = IF sort.key = key
               THEN [sort EXCEPT !.dir = IF @ = "asc" THEN "desc" ELSE "asc"]
               ELSE [key |-> key, dir |-> IF key = "market" THEN "asc" ELSE "desc"]
    /\ UNCHANGED <<rows, filter, cache, mine, failures, reads>>

NoPool == [cursor |-> 0, inflight |-> {}, out |-> <<>>]

Busy(key) == key \in DOMAIN cache /\ cache[key].pool # NoPool

\* The query of the key shown starts, or starts again once stale: as many
\* requests as the pool takes at once.
StartPool ==
    LET key == Key(filter)
        n == Min({Len(key), Concurrency})
        entry == [pool |-> [cursor |-> n + 1, inflight |-> 1..n,
                            out |-> [i \in DOMAIN key |-> NoData]],
                  data |-> Shown]
    IN  /\ key # <<>> /\ ~Busy(key) /\ reads < MaxReads
        /\ reads' = reads + 1
        /\ cache' = [k \in DOMAIN cache \cup {key} |-> IF k = key THEN entry ELSE cache[k]]
        /\ UNCHANGED <<rows, filter, sort, mine, failures>>

Stored(key, i, answer) == [cache[key].pool.out EXCEPT ![i] = answer]

\* Mutant: a runner stops after its first id.
runnerStops(key, i, answer) ==
    LET pool == cache[key].pool
        left == pool.inflight \ {i}
        out == Stored(key, i, answer)
    IN  cache' = [cache EXCEPT ![key] =
            IF left = {} /\ pool.cursor > Len(key) THEN [pool |-> NoPool, data |-> out]
            ELSE [@ EXCEPT !.pool = [pool EXCEPT !.inflight = left, !.out = out]]]

\* A request ends; its runner takes the next id, the last one ends the query.
Answer(key, i, answer) ==
    LET pool == cache[key].pool
        out == Stored(key, i, answer)
        left == pool.inflight \ {i}
    IN  cache' = [cache EXCEPT ![key] =
            IF pool.cursor <= Len(key)
            THEN [@ EXCEPT !.pool = [cursor |-> pool.cursor + 1,
                                     inflight |-> left \cup {pool.cursor}, out |-> out]]
            ELSE IF left = {} THEN [pool |-> NoPool, data |-> out]
            ELSE [@ EXCEPT !.pool = [pool EXCEPT !.inflight = left, !.out = out]]]

GetRewardsByMarketId(key, i) ==
    /\ i \in cache[key].pool.inflight
    /\ Answer(key, i, SelectSeq(rows, LAMBDA r : r.market = key[i]))
    /\ UNCHANGED <<rows, filter, sort, mine, failures, reads>>

\* One failing market must not blank the whole table.
MarketFails(key, i) ==
    /\ i \in cache[key].pool.inflight
    /\ failures < MaxFailures
    /\ failures' = failures + 1
    /\ Answer(key, i, <<>>)
    /\ UNCHANGED <<rows, filter, sort, mine, reads>>

GetRewardsByAccountId ==
    /\ reads < MaxReads
    /\ reads' = reads + 1
    /\ mine' = SelectSeq(rows, LAMBDA r : r.account = Me)
    /\ UNCHANGED <<rows, filter, sort, cache, failures>>

\* Category 0 stands for all.
Filters == [search : Searches, category : Categories]

Init ==
    /\ rows = <<>> /\ filter = [search |-> FALSE, category |-> 0]
    /\ sort = [key |-> "score", dir |-> "desc"]
    /\ cache = <<>> /\ mine = <<>> /\ failures = 0 /\ reads = 0

Next ==
    \/ \E r \in Row : r.at = Len(rows) + 1 /\ ScoreRow(r)
    \/ \E f \in Filters : SetFilter(f)
    \/ \E k \in Columns : toggleSort(k)
    \/ StartPool
    \/ \E key \in DOMAIN cache : \E i \in DOMAIN key :
           GetRewardsByMarketId(key, i) \/ MarketFails(key, i)
    \/ GetRewardsByAccountId

Spec == Init /\ [][Next]_vars /\ WF_vars(\E key \in DOMAIN cache : \E i \in DOMAIN key :
                                              GetRewardsByMarketId(key, i))

-----------------------------------------------------------------------------
(* Properties.                                                             *)

\* Whatever the order of the answers and whichever requests fail, each place of
\* a result holds rows of its own market only, the rows are a prefix of what
\* that market has, and the pool never has more requests under way than its
\* limit (useLomRewards.ts:40-57, 71-90).
PoolIsOrderly ==
    \A key \in DOMAIN cache :
        /\ Cardinality(cache[key].pool.inflight) <= Concurrency
        /\ cache[key].data # NoData => \A i \in DOMAIN key :
               IsPrefix(cache[key].data[i], SelectSeq(rows, LAMBDA r : r.market = key[i]))

\* The leaderboard agrees with the statistics of the markets it is built from.
BoardAgrees(data, board, stats) ==
    /\ SumOf(board, LAMBDA e : e.score) = SumOf(stats, LAMBDA s : s.total)
    /\ \A i, j \in DOMAIN board : i < j =>
           board[i].score >= board[j].score /\ board[i].account # board[j].account
    /\ latestScoredAt(stats) <= Len(rows)
    /\ \A i \in DOMAIN stats : data[i] # <<>> =>
           LET d == stats[i].distance
               ds == {r.distance : r \in Range(data[i])}
           IN  d.den > 0 /\ Min(ds) * d.den <= d.num /\ d.num <= Max(ds) * d.den

\* The list of the account's markets agrees with its rows.
ListAgrees(list, scores, byMarket, scoredAt) ==
    /\ Range(list) = DOMAIN byMarket
    /\ \A i, j \in DOMAIN list : i < j => scores[list[i]] >= scores[list[j]]
    /\ SumOf(list, LAMBDA m : scores[m]) = SumOf(mine, LAMBDA r : r.score)
    /\ \A m \in DOMAIN byMarket : scoredAt[m] = Last(byMarket[m]).at

\* The board adds up: the scores of the leaderboard are those of the markets'
\* statistics, its accounts are distinct and best first, an average lies
\* between the factors it averages, and the portfolio's list of the account's
\* markets adds up to its rows (rewardsMath.ts:44-138).
BoardAddsUp ==
    /\ BoardAgrees(Shown, BoardOf(Shown), StatsOf(Shown))
    /\ ListAgrees(rewardsList(scoreByMarket, TRUE), scoreByMarket, groupRowsByMarket(mine),
                  lastScoredAtByMarketFrom(groupRowsByMarket(mine)))

\* A table is the listed markets, each once, in the order of a column.
InOrder(table, listed, column) ==
    /\ Range(table) = Range(listed) /\ Len(table) = Len(listed)
    /\ \A i, j \in DOMAIN table : i < j =>
           IF sort.dir = "asc" THEN column[table[i]] <= column[table[j]]
           ELSE column[table[i]] >= column[table[j]]

\* The table lists each market that passes the filters once, in the order of
\* the column and direction chosen, also while the statistics are loading
\* (RewardsPage.tsx:126-200).
TableIsSorted ==
    InOrder(sortedMarkets, filteredMarkets(filter), Column(filteredMarkets(filter)))

=============================================================================
