----------------------------- MODULE TradeReads -----------------------------
(***************************************************************************)
(* The trading queries as operators over the tables of MarketDb: swap       *)
(* histories with their filters and counts, trading metrics, charts, the    *)
(* new-event ticker and the leaderboard.  A swap is named by its position   *)
(* in table swap, which is the order of block_number, tx_index, log_index.  *)
(***************************************************************************)
EXTENDS TokenReads

CONSTANTS
    MediumValue,   \* VolumeRange::Medium.min_value
    LargeValue,    \* VolumeRange::Large.min_value
    MinShown,      \* MIN_NEW_EVENT_QUOTE_AMOUNT in units of the quote
    NewCreates,    \* creations in the ticker
    NewTrades      \* buys, and sells, in the ticker

\* VolumeRange::min_value grows from range to range.
ASSUME VolumeAssumption == MediumValue \in Nat /\ LargeValue \in Nat /\ MediumValue <= LargeValue

SwapIds == [i \in 1..Len(swap) |-> i]

SwapAt(i) == Second(swap[i].block)

\* Column created_at of table swap.
SwapTimes == [i \in DOMAIN swap |-> SwapAt(i)]

----------------------------------------------------------------------------
(* Swap histories *)

\* ORDER BY block_number, tx_index, log_index, which no two swaps share.
InSwapOrder(S, direction) == CHOOSE s \in Orders(S, SwapIds, direction) : TRUE

\* recent_swaps: the account's swaps, newest first.
AccountSwapRows(a) == InSwapOrder({i \in DOMAIN swap : swap[i].account = a}, "DESC")

\* fetch_swaps_by_account: the page is cut in block order and sorted by created_at.
AccountSwapPages(a, page, limit) ==
    Orders(ToSet(PageOf(AccountSwapRows(a), page, limit)), SwapTimes, "DESC")

\* Table account_swap_count, kept by triggers of the database.
AccountSwapCount(a) == Cardinality({i \in DOMAIN swap : swap[i].account = a})

SwapHistory(a, page, limit) ==
    [swaps |-> AccountSwapPages(a, page, limit),
     total_count |-> IF <<>> \in AccountSwapPages(a, page, limit) THEN 0 ELSE AccountSwapCount(a)]

VolumeRange == {"small", "medium", "large"}

\* min_value, max_value: a range holds its lower end, not its upper end.
InRange(v, range) ==
    CASE range = "small" -> v < MediumValue
      [] range = "medium" -> v >= MediumValue /\ v < LargeValue
      [] range = "large" -> v >= LargeValue

TradeType == {"ALL", "BUY", "SELL"}

OfType(i, trade_type) ==
    /\ trade_type = "BUY" => swap[i].is_buy
    /\ trade_type = "SELL" => ~swap[i].is_buy

\* WHERE of get_swaps_by_token: no ranges and no account filter nothing.
SwapMatches(i, t, q) ==
    /\ swap[i].token = t
    /\ q.account_id \in Account => swap[i].account = q.account_id
    /\ OfType(i, q.trade_type)
    /\ q.volume_ranges # {} => \E range \in q.volume_ranges : InRange(swap[i].quote, range)

\* get_swaps_by_token
TokenSwapRows(t, q) == InSwapOrder({i \in DOMAIN swap : SwapMatches(i, t, q)}, q.direction)

\* Table swap_count, kept by triggers of the database.
SwapCountTable(t) ==
    [trade_type \in TradeType |-> Cardinality({i \in DOMAIN swap : swap[i].token = t /\ OfType(i, trade_type)})]

\* Mutant: the stored count is taken when only the account is missing.
TokenSwapCount_unranged(t, q) ==
    IF q.account_id \notin Account THEN SwapCountTable(t)[q.trade_type]
    ELSE Cardinality({i \in DOMAIN swap : SwapMatches(i, t, q)})

\* get_total_count_by_token_with_filters: a stored count, or COUNT with the filters.
TokenSwapCount(t, q) ==
    IF q.volume_ranges = {} /\ q.account_id \notin Account THEN SwapCountTable(t)[q.trade_type]
    ELSE Cardinality({i \in DOMAIN swap : SwapMatches(i, t, q)})

TokenSwaps(t, q) == Counted(PageOf(TokenSwapRows(t, q), q.page, q.limit), TokenSwapCount(t, q))

----------------------------------------------------------------------------
(* Metrics and charts *)

\* created_at > now - period AND created_at <= now
InPeriod(i, t, period) ==
    swap[i].token = t /\ SwapAt(i) > Clock - period /\ SwapAt(i) <= Clock

SumQuote(S) == SumFunctionOnSet([i \in DOMAIN swap |-> swap[i].quote], S)

Makers(S) == Cardinality({swap[i].account : i \in S})

\* get_price_from_chart: the last price before the period, else the first.  block_number is
\* part of the order here, so it is the order of the table.
StartPrice(t, period) ==
    LET old == {i \in PriceRows(t) : Second(price[i].block) <= Clock - period}
        start == IF old # {} THEN Max(old) ELSE Min(PriceRows(t))
    IN  price[start].price

CurrentPrice(t) == price[Max(PriceRows(t))].price

\* fetch_metric_for_timeframe_internal
Metric(t, period) ==
    LET side(is_buy) == {i \in DOMAIN swap : InPeriod(i, t, period) /\ swap[i].is_buy = is_buy}
    IN  [percent |-> PriceChange(StartPrice(t, period), CurrentPrice(t)),
         transactions |-> [buy |-> Cardinality(side(TRUE)), sell |-> Cardinality(side(FALSE)),
                           total |-> Cardinality(side(TRUE)) + Cardinality(side(FALSE))],
         volume |-> [buy |-> SumQuote(side(TRUE)), sell |-> SumQuote(side(FALSE)),
                     total |-> SumQuote(side(TRUE)) + SumQuote(side(FALSE))],
         makers |-> [buy |-> Makers(side(TRUE)), sell |-> Makers(side(FALSE)),
                     total |-> Makers(side(TRUE)) + Makers(side(FALSE))]]

\* trading_metrics_batch: one item per requested period.  Its sort knows none of the
\* names the items have, so they keep the order of the request.
Metrics(t, periods) == [i \in DOMAIN periods |-> Metric(t, periods[i])]

\* "60" and "1H" name the same interval, here two seconds.
Interval(resolution) == IF resolution = "1" THEN 1 ELSE 2

ChartType == {"price", "price_usd", "market_cap", "market_cap_usd"}

\* Rows of table chart: the time and last price of each interval with a price.
Candles(t, interval) ==
    LET start(i) == (Second(price[i].block) \div interval) * interval
        last(at) == {price[i].price : i \in {i \in PriceRows(t) : start(i) = at
                        /\ \A j \in PriceRows(t) : start(j) = at => j <= i}}
    IN  {[time_stamp |-> at, close |-> last(at)] : at \in {start(i) : i \in PriceRows(t)}}

\* fetch_chart_data: the last countback candles before "to", oldest first; "from" is unused.
Chart(t, r) ==
    LET before == {c \in Candles(t, Interval(r.resolution)) : c.time_stamp < r.to}
        all == CHOOSE s \in SetToSeqs(before) :
                    \A i, j \in DOMAIN s : i < j => s[i].time_stamp > s[j].time_stamp
    IN  [k |-> r.chart_type, bars |-> Reverse(PageOf(all, 1, r.countback))]

----------------------------------------------------------------------------
(* Ticker and leaderboard *)

\* A stable sort by time, newest first.
NewestFirst(s) ==
    LET ids == SetToSortSeq(DOMAIN s, LAMBDA i, j :
                    s[i].at > s[j].at \/ (s[i].at = s[j].at /\ i < j))
    IN  [n \in DOMAIN ids |-> s[ids[n]]]

CreateEvents ==
    {[n \in DOMAIN s |-> [event_type |-> "CREATE", token |-> s[n], at |-> token[s[n]].created_at]] :
        s \in {PageOf(o, 1, NewCreates) : o \in Orders(DOMAIN token, CreatedAt, "DESC")}}

TradeEvents(is_buy) ==
    LET shown == {i \in DOMAIN swap : swap[i].is_buy = is_buy /\ swap[i].quote >= MinShown}
    IN  {[n \in DOMAIN s |-> [event_type |-> IF is_buy THEN "BUY" ELSE "SELL", token |-> swap[s[n]].token,
                              at |-> SwapAt(s[n])]] :
            s \in {PageOf(o, 1, NewTrades) : o \in Orders(shown, SwapTimes, "DESC")}}

\* fetch_new_events: creations, buys and sells, newest first.
NewEvents ==
    {NewestFirst(c \o b \o s) : c \in CreateEvents, b \in TradeEvents(TRUE), s \in TradeEvents(FALSE)}

\* Table pnl_aggregator, kept by another program: what an account took out of its trades.
Pnl == [a \in {swap[i].account : i \in DOMAIN swap} |->
            SumQuote({i \in DOMAIN swap : swap[i].account = a /\ ~swap[i].is_buy})
            - SumQuote({i \in DOMAIN swap : swap[i].account = a /\ swap[i].is_buy})]

\* get_pnl_leaderboard: ROW_NUMBER counts over the whole table, and the offset is
\* added to it once more.
Leaderboard(page, limit) ==
    LET ranked(o) == [i \in DOMAIN PageOf(o, page, limit) |->
                        [rank |-> (page - 1) * limit + i + (page - 1) * limit,
                         account_id |-> PageOf(o, page, limit)[i]]]
    IN  {[ranks |-> ranked(o),
          total_count |-> IF ranked(o) = <<>> THEN 0 ELSE Cardinality(DOMAIN Pnl)] :
            o \in Orders(DOMAIN Pnl, Pnl, "DESC")}
=============================================================================
