------------------------------- MODULE Market -------------------------------
(***************************************************************************)
(* What the read endpoints promise together.  Their answers come from       *)
(* statements of their own, so every property here relates two of them, or  *)
(* one of them at two times, over the tables the indexer fills.  A replica  *)
(* shows whole blocks, so the answers are judged between two blocks.        *)
(***************************************************************************)
EXTENDS CachedReads, Analytics, TerminalFeed

\* A block was committed, and none is in the making.
Committed == tx = 0 /\ block > 1

\* The pages of a list show each of n rows once, and no other.
EachOnce(Answer(_, _), n, limit) ==
    LET all == FlattenSeq([p \in 1..(n + 1) |-> Answer(p, limit)])
    IN  Len(all) = n /\ IsInjective(all)

Ids(rows, id(_)) == [i \in DOMAIN rows |-> id(rows[i])]

\* Keys by which no two rows of S are tied.
Distinct(S, key(_)) == \A x, y \in S : key(x) = key(y) => x = y

HolderPages(limit) ==
    \A t \in Listed :
        LET rows(p, n) == Ids(Holders(t, p, n).rows, LAMBDA r : r.account_id)
        IN  EachOnce(rows, Holders(t, 1, limit).total_count, limit)

HoldingPages(limit) ==
    \A a \in Account :
        LET rows(p, n) == Ids(Holdings(a, p, n).rows, LAMBDA r : r.token.token_info.token_id)
        IN  EachOnce(rows, Holdings(a, 1, limit).total_count, limit)

CreatedPages(limit) ==
    \A a \in Account :
        LET rows(p, n) == Ids(CreatedTokens(a, p, n).rows, LAMBDA r : r.token.token_info.token_id)
        IN  EachOnce(rows, CreatedTokens(a, 1, limit).total_count, limit)

SwapPages(limit) ==
    \A t \in Listed, q \in SwapQueries :
        q.limit = limit /\ q.page = 1 =>
            LET rows(p, n) == TokenSwaps(t, [q EXCEPT !.page = p]).rows
            IN  EachOnce(rows, TokenSwaps(t, q).total_count, limit)

AccountSwapsPaged(limit) ==
    \A a \in Account :
        LET rows(p, n) == PageOf(AccountSwapRows(a), p, n)
        IN  EachOnce(rows, SwapHistory(a, 1, limit).total_count, limit)

\* Without ties; the count has the tokens that are in no list as well.
OrderPaged(limit) ==
    \A type \in OrderType, is_nsfw \in BOOLEAN :
        LET orders == OrderLists(type, "DESC", is_nsfw)
            n == Len(CHOOSE s \in orders : TRUE)
            rows(p, l) ==
                Ids(CHOOSE s \in Order(type, "DESC", is_nsfw, p, l).tokens : TRUE,
                    LAMBDA r : r.metadata.token_info.token_id)
        IN  /\ Cardinality(orders) = 1 => EachOnce(rows, n, limit)
            /\ n <= OrderCount(is_nsfw)
            /\ OrderLists(type, "ASC", is_nsfw) = {Reverse(s) : s \in orders}

BoardPaged(limit) ==
    LET pnl(a) == Pnl[a]
        board(p, n) == CHOOSE b \in Leaderboard(p, n) : TRUE
        rows(p, n) == Ids(board(p, n).ranks, LAMBDA r : r.account_id)
    IN  Distinct(DOMAIN Pnl, pnl) => EachOnce(rows, board(1, limit).total_count, limit)

\* A kept search answer is cut into pages that make it up again; a search by
\* address finds what a search by name finds of that address.
SearchPaged(limit) ==
    \A bySymbol, byName \in SUBSET Listed :
        \A found \in SearchTokens(bySymbol, byName) :
            LET kept == SearchResults(found, CHOOSE s \in SearchAccounts(Account) : TRUE)
                pages == [p \in 1..(Len(found) + 1) |-> SearchHit(kept, p, limit)]
                shown(hits) == FlattenSeq([p \in DOMAIN hits |-> (CHOOSE hit \in hits[p] : TRUE).tokens])
            IN  /\ found # <<>> => shown(pages) = kept.tokens /\ Len(shown(pages)) = kept.token_count
                /\ found = <<>> => \A p \in DOMAIN pages : pages[p] = {}
                /\ Cardinality(bySymbol \cap byName) >= MaxFound => Len(found) >= MaxFound
                /\ \A t \in ToSet(found) : SearchAddress(t).tokens = <<TokenMetadata(t)>>

\* The trend list shows its tokens in the order they were inserted, once they have a market.
TrendOrdered ==
    \A s \in SetToSeqs(DOMAIN token) :
        LET place == [t \in DOMAIN token |-> CHOOSE n \in DOMAIN s : s[n] = t]
        IN  \E shown \in SetToSeqs(Listed) :
                /\ TrendTokens(place) = {Ids(shown, OrderToken)}
                /\ \A i, j \in DOMAIN shown : i < j => place[shown[i]] < place[shown[j]]

\* Whatever the page length, the pages of a list hold every row once and as many as
\* the total says, though page and total come from different statements, counters or
\* caches (controllers/trading, controllers/token, controllers/search).
PagesAddUp ==
    Committed =>
        /\ \A limit \in Limit :
            /\ HolderPages(limit)
            /\ HoldingPages(limit)
            /\ CreatedPages(limit)
            /\ SwapPages(limit)
            /\ AccountSwapsPaged(limit)
            /\ OrderPaged(limit)
            /\ BoardPaged(limit)
            /\ SearchPaged(limit)
        /\ TrendOrdered

----------------------------------------------------------------------------

AnyTrade == [direction |-> "ASC", trade_type |-> "ALL", volume_ranges |-> {}, account_id |-> Absent,
             page |-> 1, limit |-> MaxRows + 1]

\* A token's holders are the accounts that hold it, with the same amounts, and the
\* pool shares do not exceed what the pool has.
PositionsAgree ==
    /\ \A t \in Listed, a \in Account :
        LET held == {r \in ToSet(Holdings(a, 1, HoldingCount(a)).rows) : r.token.token_info.token_id = t}
            holders == {r \in ToSet(Holders(t, 1, HolderCount(t)).rows) : r.account_id = a}
        IN  {r.balance_info : r \in held} = {r.balance_info : r \in holders}
    /\ \A t \in DOMAIN pool :
        SumFunction([a \in Account |-> LpBalance(t, a)]) <= TokenReserve(pool[t], t)

\* An account's trades of a token are the token's trades by that account; volume
\* ranges and trade types split them.
HistoriesAgree ==
    \A t \in Listed :
        LET trades(q) == ToSet(TokenSwapRows(t, q)) IN
        /\ \A a \in Account :
            {i \in ToSet(AccountSwapRows(a)) : swap[i].token = t} = trades([AnyTrade EXCEPT !.account_id = a])
        /\ \A i \in trades(AnyTrade) :
            /\ Cardinality({range \in VolumeRange : i \in trades([AnyTrade EXCEPT !.volume_ranges = {range}])}) = 1
            /\ Cardinality({type \in {"BUY", "SELL"} : i \in trades([AnyTrade EXCEPT !.trade_type = type])}) = 1

\* Metrics over everything count the trades of the history.
MetricsAgree ==
    \A t \in Listed :
        LET m == Metric(t, MaxBlock + 1)
            trades(type) == TokenSwapCount(t, [AnyTrade EXCEPT !.trade_type = type])
        IN  /\ m.transactions.total = trades("ALL")
            /\ m.transactions.buy = trades("BUY")
            /\ m.volume.total = SumQuote({i \in DOMAIN swap : swap[i].token = t})
            /\ CurrentPrice(t) = market[t].price
            /\ m.makers.total <= m.transactions.total
            /\ \A p \in 1..MaxBlock : Metric(t, p).volume.total <= Metric(t, p + 1).volume.total
            /\ \A c \in ToSet(Chart(t, [resolution |-> "1", to |-> Clock + 1, countback |-> 1,
                                        chart_type |-> "price"]).bars) : c.close = {CurrentPrice(t)}

\* No second has prices of t from two blocks.
OneBlockASecond(t) ==
    \A i, j \in PriceRows(t) : Second(price[i].block) = Second(price[j].block) => price[i].block = price[j].block

\* The change of a day in the order lists is that of the metrics of a day.
DayPricesAgree ==
    \A t \in Listed : OneBlockASecond(t) => OrderToken(t).percent = {Metric(t, Day).percent}

\* What two endpoints say of the same thing is the same (position.rs, swap_history.rs,
\* metrics.rs, chart.rs, order.rs, analytics.rs): balances, trades, volumes, the price
\* of a day ago, the users.
ListsAgree ==
    Committed =>
        /\ PositionsAgree
        /\ HistoriesAgree
        /\ MetricsAgree
        /\ DayPricesAgree
        /\ \A inactive \in 1..MaxBlock : ActivitySplits(inactive)
        /\ RoiSplits

----------------------------------------------------------------------------

\* The block up to which the feed is complete.
Sealed == block - 1

\* Asking block by block, or for all blocks at once, gives the same feed, and a
\* range is answered exactly if each of its blocks is (get_events).
FeedPaged ==
    Committed =>
        \A b \in 1..MaxBlock :
            ValidRange(1, b) =>
                /\ GetEvents(1, b) # {} <=> \A c \in 1..b : GetEvents(c, c) # {}
                /\ \A feed \in GetEvents(1, b) :
                    feed = FlattenSeq([c \in 1..b |-> CHOOSE s \in GetEvents(c, c) : TRUE])

\* What the feed answers for a sealed block never changes, nor that it has no answer,
\* and the latest block never falls, so a block need not be asked for again: not after
\* the market moved to a pool, not after a burn (get_events, get_latest_indexed_block).
FeedFrozen ==
    [][/\ \A b \in 1..Sealed : GetEvents(b, b)' = GetEvents(b, b)
       /\ LatestBlock' >= LatestBlock
       /\ \A b \in 1..Sealed : EventSet(b, b) # {} => b <= LatestBlock]_db

\* The pair of an event as the feed gives it.
PairOf(e) == CHOOSE p \in GetPair(e.pair_id) : TRUE

\* The amounts of a swap by asset.
Leg0(e) == IF e.asset0_in # Absent THEN e.asset0_in ELSE e.asset0_out
Leg1(e) == IF e.asset1_in # Absent THEN e.asset1_in ELSE e.asset1_out

\* The events a client gets, block by block.
Delivered == UNION {ToSet(feed) : feed \in UNION {GetEvents(b, b) : b \in 1..MaxBlock}}

\* Every event delivered names one pair that can be resolved, with assets that can be resolved;
\* a swap takes one asset in and the other out and has a price, in the pair's order, and
\* the last event of a pair leaves the reserves its pool has (convert_swap_event,
\* convert_mint_event, convert_burn_event, get_pair, get_asset).
PairsResolve ==
    Committed =>
        \A e \in Delivered :
            /\ Cardinality(GetPair(e.pair_id)) = 1
            /\ \A id \in {PairOf(e).asset0, PairOf(e).asset1}, onchain \in BOOLEAN : Asset(id, onchain) # {}
            /\ PairOf(e).asset0 < PairOf(e).asset1
            /\ e.kind = "swap" =>
                /\ (e.asset0_in = Absent) # (e.asset0_out = Absent)
                /\ (e.asset1_in = Absent) # (e.asset1_out = Absent)
                /\ (e.asset0_in = Absent) # (e.asset1_in = Absent)
                /\ e.price_native = <<Leg1(e), Leg0(e)>> /\ Leg0(e) # 0
            /\ (\A f \in EventSet(1, MaxBlock) : f.pair_id = e.pair_id => ~Before(e, f)) =>
                \E t \in DOMAIN pool :
                    /\ {pool[t].token0, pool[t].token1} = {PairOf(e).asset0, PairOf(e).asset1}
                    /\ e.reserve0 = pool[t].reserve0
                    /\ e.reserve1 = pool[t].reserve1

\* A copy under a key is an answer to every request with that key, in Redis and in the
\* process, two kinds of request excepted: charts in Redis (see ChartOfRequestedType)
\* and searches with blanks around the query in the process (see SearchFinds).
KeysSeparate ==
    Committed =>
        \A S \in SharedRequests : Cardinality({AnswersOf(r) : r \in S}) = 1
=============================================================================
