---------------------------- MODULE TerminalFeed ----------------------------
(***************************************************************************)
(* The /terminal endpoints, from which GeckoTerminal copies the markets:    *)
(* it asks for the latest block, for the events of the blocks it has not    *)
(* seen, and resolves the pair and asset ids of those events.  Amounts are  *)
(* in units of the asset; a price is the pair <<numerator, denominator>>.   *)
(***************************************************************************)
EXTENDS MarketDb, SequencesExt

CONSTANT MaxRange   \* EventsQuery::MAX_BLOCK_RANGE

ASSUME RangeAssumption == MaxRange \in Nat

\* A leg, pair, block or account that is absent.
Absent == -1

\* order_assets: the smaller address is asset0.
QuoteIsAsset0(t) == Quote < t

Asset0(t) == IF QuoteIsAsset0(t) THEN Quote ELSE t
Asset1(t) == IF QuoteIsAsset0(t) THEN t ELSE Quote

\* Blocks of table balance_history, which has a row for every moved balance.
BalanceBlocks ==
    {swap[i].block : i \in DOMAIN swap} \cup {liquidity[i].block : i \in DOMAIN liquidity}

\* get_latest_indexed_block: MAX over no rows is NULL, an error.
LatestBlock ==
    IF BalanceBlocks = {} THEN Absent ELSE CHOOSE b \in BalanceBlocks : \A c \in BalanceBlocks : c <= b

\* TerminalController::get_asset: rows of token, else of quote_token, which has no supply.
AssetRow(id) ==
    IF id \in DOMAIN token THEN {[id |-> id, total_supply |-> TRUE]}
    ELSE {[id |-> q, total_supply |-> FALSE] : q \in {id} \cap {Quote}}

\* get_asset: the metadata is the chain's or, if the node does not answer, the row's;
\* a missing total supply is the row's, a missing circulating supply the total.
Asset(id, onchain) ==
    LET row == AssetRow(id)
        total == onchain \/ \E r \in row : r.total_supply
    IN  IF ~onchain /\ row = {} THEN {}
        ELSE {[id |-> id, total_supply |-> total,
               circulating_supply |-> total \/ \E r \in row : r.total_supply]}

\* Mutant: the pair is looked up by its token.
PairOfPool_token(id) == {t \in DOMAIN market : t = id /\ market[t].market_type = "DEX"}

\* get_pair_by_pool_id: markets in the pool.
PairOfPool(id) == {t \in DOMAIN pool \cap DOMAIN market : PoolId(t) = id /\ market[t].market_type = "DEX"}

\* get_pair: no block is known for a token created without a trade.
GetPair(id) ==
    {[id |-> PoolId(t), asset0 |-> Asset0(t), asset1 |-> Asset1(t),
      created_at |-> token[t].created_at, creator |-> token[t].creator] : t \in PairOfPool(id)}

----------------------------------------------------------------------------
(* Events *)

\* convert_swap_event, price_native: BigDecimal panics when it divides by zero.
PriceFails(s) == IF QuoteIsAsset0(s.token) THEN s.quote = 0 ELSE s.tok = 0

\* convert_swap_event, of a trade whose price does not fail.
SwapEvent(s) ==
    LET first == QuoteIsAsset0(s.token)
        none == Absent
    IN  [kind |-> "swap", block |-> s.block, txn_index |-> s.tx, maker |-> s.account,
         pair_id |-> IF s.token \in DOMAIN pool THEN PoolId(s.token) ELSE s.token,
         asset0_in |-> CASE first /\ s.is_buy -> s.quote [] ~first /\ ~s.is_buy -> s.tok [] OTHER -> none,
         asset1_in |-> CASE first /\ ~s.is_buy -> s.tok [] ~first /\ s.is_buy -> s.quote [] OTHER -> none,
         asset0_out |-> CASE first /\ ~s.is_buy -> s.quote [] ~first /\ s.is_buy -> s.tok [] OTHER -> none,
         asset1_out |-> CASE first /\ s.is_buy -> s.tok [] ~first /\ ~s.is_buy -> s.quote [] OTHER -> none,
         price_native |-> IF first THEN <<s.tok, s.quote>> ELSE <<s.quote, s.tok>>,
         reserve0 |-> IF first THEN s.rq ELSE s.rt,
         reserve1 |-> IF first THEN s.rt ELSE s.rq]

\* convert_mint_event makes a "join", convert_burn_event an "exit".
LiquidityEvent(kind, l) ==
    LET first == QuoteIsAsset0(l.token)
    IN  [kind |-> kind, block |-> l.block, txn_index |-> l.tx, maker |-> l.account,
         pair_id |-> PoolId(l.token),
         amount0 |-> IF first THEN l.quote ELSE l.tok,
         amount1 |-> IF first THEN l.tok ELSE l.quote,
         reserve0 |-> IF first THEN l.rq ELSE l.rt,
         reserve1 |-> IF first THEN l.rt ELSE l.rq]

\* Mutant: the last block of the range is left out.
InBlocks_open(row, from, to) == from <= row.block /\ row.block < to

InBlocks(row, from, to) == from <= row.block /\ row.block <= to

\* Mutant: the market of today decides, as it does for mint and burn.
FeedSwaps_current(from, to) ==
    {i \in DOMAIN swap : InBlocks(swap[i], from, to) /\ market[swap[i].token].market_type = "DEX"}

\* TerminalController::get_events: trades that were made in a pool.
FeedSwaps(from, to) ==
    {i \in DOMAIN swap : InBlocks(swap[i], from, to) /\ swap[i].market_type = "DEX"}

\* Rows of table mint or burn whose market is in a pool today.
FeedLiquidity(kind, from, to) ==
    {i \in DOMAIN liquidity :
        /\ liquidity[i].kind = kind
        /\ InBlocks(liquidity[i], from, to)
        /\ market[liquidity[i].token].market_type = "DEX"}

\* get_mint_events, get_burn_events
FeedMints(from, to) == FeedLiquidity("mint", from, to)
FeedBurns(from, to) == FeedLiquidity("burn", from, to)

\* A trade of the range has no price: its conversion panics, and no event of the
\* range is delivered.
Unpriced(from, to) == \E i \in FeedSwaps(from, to) : PriceFails(swap[i])

\* The events of the three lists, none of which is unpriced.
EventSet(from, to) ==
    {SwapEvent(swap[i]) : i \in FeedSwaps(from, to)}
    \cup {LiquidityEvent("join", liquidity[i]) : i \in FeedMints(from, to)}
    \cup {LiquidityEvent("exit", liquidity[i]) : i \in FeedBurns(from, to)}

\* By block, then by transaction; no transaction of the model has a second event.
Before(e, f) == e.block < f.block \/ (e.block = f.block /\ e.txn_index < f.txn_index)

InOrder(S) == CHOOSE s \in SetToSeqs(S) : \A i, j \in DOMAIN s : i < j => ~Before(s[j], s[i])

\* get_events: the three lists, sorted together.
Events(from, to) == InOrder(EventSet(from, to))

\* EventsQuery::validate
ValidRange(from, to) == from <= to /\ to - from <= MaxRange

\* Mutant: a trade without a price is delivered like the others.
GetEvents_unpriced(from, to) == IF ValidRange(from, to) THEN {Events(from, to)} ELSE {}

\* The answers to GET /events: none for a range that is reversed or too long (400),
\* none for one with a trade that has no price (the connection is closed).
GetEvents(from, to) ==
    IF ValidRange(from, to) /\ ~Unpriced(from, to) THEN {Events(from, to)} ELSE {}
=============================================================================
