----------------------------- MODULE TokenReads -----------------------------
(***************************************************************************)
(* The token and position queries as operators over the tables of MarketDb: *)
(* order lists, the tokens of a creator, the holders of a token, the        *)
(* holdings of an account, search.  A row is reduced to the columns the     *)
(* answers are ordered and counted by.  Where ORDER BY leaves rows tied the *)
(* answer is any of several, so the operator gives the set of them.         *)
(***************************************************************************)
EXTENDS MarketDb, SequencesExt

CONSTANTS
    Day,       \* 86400 seconds
    MinTrade,  \* LATEST_TRADE_MIN_QUOTE_AMOUNT
    MaxFound   \* rows a statement of the search returns

\* The bounds of the statements are constants of the code.
ASSUME BoundAssumption == Day \in Nat /\ MaxFound \in Nat \ {0}

\* An address that is no token's and no pool's.
BondingCurve == 0

\* LIMIT limit OFFSET (page - 1) * limit
PageOf(s, page, limit) ==
    LET end == page * limit
    IN  SubSeq(s, (page - 1) * limit + 1, IF end < Len(s) THEN end ELSE Len(s))

\* The orders in which rows S may come when they are sorted by column key only.
Orders(S, key, direction) ==
    {s \in SetToSeqs(S) : \A i, j \in DOMAIN s :
        i < j => IF direction = "ASC" THEN key[s[i]] <= key[s[j]] ELSE key[s[i]] >= key[s[j]]}

\* ORDER BY key DESC, id ASC
Ranked(S, key) ==
    CHOOSE s \in Orders(S, key, "DESC") :
        \A i, j \in DOMAIN s : i < j /\ key[s[i]] = key[s[j]] => s[i] < s[j]

\* JOIN market, JOIN token; the account and quote rows always exist.
Listed == DOMAIN token \cap DOMAIN market

\* An empty pool_id of a curve market is replaced by BONDING_CURVE.
MarketId(t) == IF market[t].market_type = "CURVE" THEN BondingCurve ELSE PoolId(t)

TokenInfo(t) ==
    [token_id |-> t, creator |-> token[t].creator, created_at |-> token[t].created_at,
     is_nsfw |-> token[t].is_nsfw]

MarketInfo(t) ==
    [token_id |-> t, market_id |-> MarketId(t), market_type |-> market[t].market_type,
     price |-> market[t].price]

TokenMetadata(t) == [token_info |-> TokenInfo(t), market_info |-> MarketInfo(t)]

----------------------------------------------------------------------------
(* Order lists *)

PriceRows(t) == {i \in DOMAIN price : price[i].token = t}

\* Rows of the newest (oldest) created_at, tx_index among rows R of price_history.
NewestPrice(R) == {i \in R : \A j \in R :
    <<Second(price[j].block), price[j].tx>> # <<Second(price[i].block), price[i].tx>> =>
        \/ Second(price[j].block) < Second(price[i].block)
        \/ Second(price[j].block) = Second(price[i].block) /\ price[j].tx < price[i].tx}
OldestPrice(R) == {i \in R : \A j \in R :
    \/ Second(price[j].block) > Second(price[i].block)
    \/ Second(price[j].block) = Second(price[i].block) /\ price[j].tx >= price[i].tx}

\* Mutant: the cutoff is a day after the price.
Price24hAgo_late(t) == {price[i].price : i \in NewestPrice(PriceRows(t))}

\* price_24h_ago: the last price before the day, else the first price.
Price24hAgo(t) ==
    LET old == {i \in PriceRows(t) : Second(price[i].block) <= Clock - Day}
    IN  {price[i].price : i \in IF old # {} THEN NewestPrice(old) ELSE OldestPrice(PriceRows(t))}

\* Trades that count for latest_trade.
QualifyingTrades(t) == {i \in DOMAIN swap : swap[i].token = t /\ swap[i].quote >= MinTrade}

LastTradeAt(t) ==
    CHOOSE at \in {Second(swap[i].block) : i \in QualifyingTrades(t)} :
        \A i \in QualifyingTrades(t) : Second(swap[i].block) <= at

\* WHERE t.is_nsfw = false, unless is_nsfw was sent.
Shown(is_nsfw) == {t \in Listed : is_nsfw \/ ~token[t].is_nsfw}

\* Column created_at of table token.
CreatedAt == [t \in DOMAIN token |-> token[t].created_at]

\* fetch_order_tokens, CreationTime
CreationTimeOrders(direction, is_nsfw) == Orders(Shown(is_nsfw), CreatedAt, direction)

\* fetch_order_tokens, LatestTrade: tokens with a qualifying trade
LatestTradeOrders(direction, is_nsfw) ==
    LET traded == {t \in Shown(is_nsfw) : QualifyingTrades(t) # {}}
    IN  Orders(traded, [t \in traded |-> LastTradeAt(t)], direction)

\* market_cap, which is the price times the fixed supply.
MarketCap == [t \in DOMAIN market |-> market[t].price]

\* fetch_order_tokens, MarketCap
MarketCapOrders(direction, is_nsfw) == Orders(Shown(is_nsfw), MarketCap, direction)

OrderType == {"market_cap", "creation_time", "latest_trade"}

\* fetch_order_tokens without LIMIT and OFFSET
OrderLists(type, direction, is_nsfw) ==
    CASE type = "market_cap" -> MarketCapOrders(direction, is_nsfw)
      [] type = "creation_time" -> CreationTimeOrders(direction, is_nsfw)
      [] type = "latest_trade" -> LatestTradeOrders(direction, is_nsfw)

\* calculate_price_change_percent, as a fraction; 0 if there was no price.
PriceChange(start, current) == IF start = 0 THEN <<0, 1>> ELSE <<current - start, start>>

\* OrderToken: the price change of a day goes with the row.
OrderToken(t) ==
    [metadata |-> TokenMetadata(t),
     percent |-> {PriceChange(start, market[t].price) : start \in Price24hAgo(t)}]

\* Triggers of the database keep table token_count.
TokenCount == [total_count |-> Cardinality(DOMAIN token),
               sfw_count |-> Cardinality({t \in DOMAIN token : ~token[t].is_nsfw})]

\* get_total_count_by_type: the same for every type.
OrderCount(is_nsfw) == IF is_nsfw THEN TokenCount.total_count ELSE TokenCount.sfw_count

\* get_order: the page and the count are two statements.
Order(type, direction, is_nsfw, page, limit) ==
    [tokens |-> {LET rows == PageOf(s, page, limit) IN [i \in DOMAIN rows |-> OrderToken(rows[i])] :
                    s \in OrderLists(type, direction, is_nsfw)},
     total_count |-> OrderCount(is_nsfw)]

\* fetch_trend_tokens: rows of table trend that have a market, by display_order;
\* rows may share one, see TrendList.
TrendTokens(display_order) ==
    {[i \in DOMAIN s |-> OrderToken(s[i])] :
        s \in Orders(DOMAIN display_order \cap Listed, display_order, "ASC")}

----------------------------------------------------------------------------
(* Positions *)

\* Tokens the account has a share of through a pool.
Pooled(a) == {t \in DOMAIN pool \cap DOMAIN market : lp[t][a] > 0}

\* The token share of a pool position: by token0 or token1, rounded down.
LpBalance(t, a) ==
    IF t \notin DOMAIN pool \/ pool[t].total_supply = 0 THEN 0
    ELSE IF pool[t].token0 = t THEN (lp[t][a] * pool[t].reserve0) \div pool[t].total_supply
    ELSE IF pool[t].token1 = t THEN (lp[t][a] * pool[t].reserve1) \div pool[t].total_supply
    ELSE 0

BalanceInfo(t, a) ==
    [balance |-> balance[t][a], lp_balance |-> LpBalance(t, a),
     total_balance |-> balance[t][a] + LpBalance(t, a)]

\* holders: accounts with a balance or a pool position.
HolderSet(t) == {a \in Account : balance[t][a] > 0} \cup {a \in Account : t \in Pooled(a)}

\* fetch_holders_by_token: ORDER BY total_balance DESC, account_id ASC.
HolderRows(t) ==
    IF t \notin DOMAIN market THEN <<>>
    ELSE Ranked(HolderSet(t), [a \in Account |-> BalanceInfo(t, a).total_balance])

\* fetch_token_holder_count
HolderCount(t) == Cardinality(HolderSet(t))

\* The count is asked only when the page has rows.
Counted(rows, count) == [rows |-> rows, total_count |-> IF rows = <<>> THEN 0 ELSE count]

Holders(t, page, limit) ==
    Counted([i \in DOMAIN PageOf(HolderRows(t), page, limit) |->
                LET a == PageOf(HolderRows(t), page, limit)[i]
                IN  [account_id |-> a, balance_info |-> BalanceInfo(t, a)]],
            HolderCount(t))

\* held: tokens with a market the account has a balance or a pool position of.
HeldSet(a) == {t \in Listed : balance[t][a] > 0} \cup (Pooled(a) \cap Listed)

\* get_hold_token_by_account: ORDER BY total_balance * price_usd DESC, token_id ASC.
HoldingRows(a) ==
    Ranked(HeldSet(a), [t \in Listed |-> BalanceInfo(t, a).total_balance * market[t].price])

\* get_total_count_by_hold_token
HoldingCount(a) == Cardinality(HeldSet(a))

Holdings(a, page, limit) ==
    Counted([i \in DOMAIN PageOf(HoldingRows(a), page, limit) |->
                LET t == PageOf(HoldingRows(a), page, limit)[i]
                IN  [token |-> TokenMetadata(t), balance_info |-> BalanceInfo(t, a)]],
            HoldingCount(a))

----------------------------------------------------------------------------
(* Created tokens, search *)

\* member_ids: created by the account, or in its pool positions.
MemberSet(a) == {t \in DOMAIN token : token[t].creator = a} \cup Pooled(a)

\* paged_tokens: ORDER BY created_at DESC, token_id ASC, where a market exists.
CreatedRows(a) == Ranked(MemberSet(a) \cap DOMAIN market, CreatedAt)

\* fetch_total_count
CreatedCount(a) == Cardinality(MemberSet(a) \cap Listed)

\* fetch_tokens_created: the count is asked for every page.
CreatedTokens(a, page, limit) ==
    [rows |-> [i \in DOMAIN PageOf(CreatedRows(a), page, limit) |->
                LET t == PageOf(CreatedRows(a), page, limit)[i]
                IN  [token |-> TokenMetadata(t), balance_info |-> BalanceInfo(t, a)]],
     total_count |-> CreatedCount(a)]

\* Tokens whose symbol or name holds the query.  Each statement returns its most
\* valuable matches; a token both return is kept once, and the union is sorted again.
SearchTokens(bySymbol, byName) ==
    LET rows(S) == {ToSet(PageOf(s, 1, MaxFound)) : s \in Orders(S \cap Listed, MarketCap, "DESC")}
    IN  UNION {Orders(S \cup N, MarketCap, "DESC") : S \in rows(bySymbol), N \in rows(byName)}

\* Accounts whose nickname holds the query, some that fit best.
SearchAccounts(byNickname) ==
    {s \in UNION {SetToSeqs(S) : S \in SUBSET byNickname} :
        Len(s) = IF Cardinality(byNickname) < MaxFound THEN Cardinality(byNickname) ELSE MaxFound}

\* fetch_search_results: both searches run side by side, the counts are of what they found.
SearchResults(tokens, accounts) ==
    [tokens |-> [i \in DOMAIN tokens |-> TokenMetadata(tokens[i])], token_count |-> Len(tokens),
     accounts |-> accounts, account_count |-> Len(accounts)]

\* A full address finds one token at most and one account at most.
SearchAddress(id) ==
    LET tokens == {t \in Listed : t = id}
        accounts == {a \in Account : a = id}
    IN  SearchResults(SetToSeq(tokens), SetToSeq(accounts))
=============================================================================
