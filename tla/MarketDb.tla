------------------------------ MODULE MarketDb ------------------------------
(***************************************************************************)
(* The market tables the read endpoints query.  The API server never writes *)
(* them: an indexer, which is not part of the repository, copies the chain  *)
(* into them.  Its actions are taken from what the queries, their comments  *)
(* and the seeded rows of their tests rely on: a block's rows are committed *)
(* together, rows of swap, mint, burn and price_history are only added, a   *)
(* row's account and quote rows exist, and a market goes from CURVE to DEX  *)
(* once.  Addresses are integers, so their order is the one the code uses.  *)
(***************************************************************************)
EXTENDS Integers, Sequences, FiniteSets

CONSTANTS
    Token,       \* addresses of tokens
    Quote,       \* address of the quote token, the same for every market
    Account,     \* addresses of accounts
    Amount,      \* token amounts that are traded
    MaxBlock,    \* bound: blocks indexed
    MaxRows      \* bound: rows the indexer adds

\* Addresses have twenty bytes, so there are finitely many.
ASSUME AddressAssumption ==
    /\ Token \subseteq Nat /\ Account \subseteq Nat /\ Quote \in Nat \ Token
    /\ IsFiniteSet(Token) /\ IsFiniteSet(Account)
    /\ Amount \subseteq Nat \ {0}
    /\ MaxBlock \in Nat /\ MaxRows \in Nat

VARIABLES
    block,      \* number of the block being indexed
    tx,         \* transactions of that block that are indexed, not yet committed
    token,      \* table token: token_id -> row
    market,     \* table market: token_id -> row
    pool,       \* table pool, by the token it trades
    swap,       \* table swap, in the order of block, tx_index, log_index
    liquidity,  \* tables mint and burn, in that order
    price,      \* table price_history, in that order
    balance,    \* table balance
    lp          \* table lp_position

db == <<block, tx, token, market, pool, swap, liquidity, price, balance, lp>>

\* A block's timestamp: two blocks share a second.
Second(b) == (b + 1) \div 2

\* current_unix_timestamp, which is not behind the newest committed block.
Clock == Second(block)

\* The pool of token t.
PoolId(t) == t + 100

MarketType == {"CURVE", "DEX"}

\* A pool holds its assets in address order.
NewPool(t) ==
    [token0 |-> IF t < Quote THEN t ELSE Quote,
     token1 |-> IF t < Quote THEN Quote ELSE t,
     reserve0 |-> IF t < Quote THEN 12 ELSE 9,
     reserve1 |-> IF t < Quote THEN 9 ELSE 12,
     total_supply |-> 2]

\* The pool with its token and quote reserves changed by the given amounts.
Shift(p, t, tok, quo, supply) ==
    [p EXCEPT !.reserve0 = @ + (IF p.token0 = t THEN tok ELSE quo),
              !.reserve1 = @ + (IF p.token1 = t THEN tok ELSE quo),
              !.total_supply = @ + supply]

TokenReserve(p, t) == IF p.token0 = t THEN p.reserve0 ELSE p.reserve1
QuoteReserve(p, t) == IF p.token0 = t THEN p.reserve1 ELSE p.reserve0

\* Rows the indexer has added; a market graduates once, which is not counted.
Rows == Cardinality(DOMAIN token) + Cardinality(DOMAIN market) - 2 + Len(swap) + Len(liquidity)

DbTypeOK ==
    /\ block \in 1..MaxBlock + 1
    /\ tx \in Nat
    /\ DOMAIN pool \subseteq DOMAIN market
    /\ DOMAIN market \subseteq DOMAIN token
    /\ DOMAIN token \subseteq Token
    /\ \A t \in DOMAIN token :
        token[t] \in [creator : Account, created_at : 0..Clock, is_nsfw : BOOLEAN]
    /\ \A t \in DOMAIN market : market[t] \in [market_type : MarketType, price : Nat]
    /\ \A t \in DOMAIN pool : {pool[t].reserve0, pool[t].reserve1, pool[t].total_supply} \subseteq Nat
    /\ \A i \in 1..Len(swap) :
        swap[i] \in [token : DOMAIN market, account : Account, is_buy : BOOLEAN, quote : Nat,
                     tok : Amount, market_type : MarketType, block : 1..block, tx : Nat,
                     rq : Nat, rt : Nat]
    /\ \A i \in 1..Len(liquidity) :
        liquidity[i] \in [kind : {"mint", "burn"}, token : DOMAIN pool, account : Account, quote : Nat,
                          tok : Nat, block : 1..block, tx : Nat, rq : Nat, rt : Nat]
    /\ \A i \in 1..Len(price) :
        price[i] \in [token : DOMAIN market, price : Nat, block : 0..block, tx : Nat]
    /\ balance \in [Token -> [Account -> Nat]]
    /\ lp \in [Token -> [Account -> Nat]]

\* One token is listed and trades on its curve or in its pool.
DbInit ==
    \E first \in Token, a \in Account, m \in MarketType :
        /\ block = 1
        /\ tx = 0
        /\ token = [t \in {first} |-> [creator |-> a, created_at |-> 0, is_nsfw |-> FALSE]]
        /\ market = [t \in {first} |-> [market_type |-> m, price |-> 2]]
        /\ pool = [t \in IF m = "DEX" THEN {first} ELSE {} |-> NewPool(t)]
        /\ swap = <<>>
        /\ liquidity = <<>>
        /\ price = <<[token |-> first, price |-> 2, block |-> 0, tx |-> 0]>>
        /\ balance = [t \in Token |-> [b \in Account |-> 0]]
        /\ lp = [t \in Token |-> [b \in Account |-> 0]]

----------------------------------------------------------------------------
(* The indexer *)

\* A transaction of the block being indexed enters the tables.
Index ==
    /\ block <= MaxBlock
    /\ Rows < MaxRows
    /\ tx' = tx + 1
    /\ UNCHANGED block

\* A token is created; its market row may follow in a later block.
CreateToken(t, a, nsfw) ==
    /\ Index
    /\ t \notin DOMAIN token
    /\ token' = [u \in DOMAIN token \cup {t} |->
                    IF u = t THEN [creator |-> a, created_at |-> Clock, is_nsfw |-> nsfw] ELSE token[u]]
    /\ UNCHANGED <<market, pool, swap, liquidity, price, balance, lp>>

\* price_history gets a row whenever market.price is written.
Priced(t, p) ==
    price' = Append(price, [token |-> t, price |-> p, block |-> block, tx |-> tx])

OpenMarket(t) ==
    /\ Index
    /\ t \in DOMAIN token \ DOMAIN market
    /\ market' = [u \in DOMAIN market \cup {t} |->
                    IF u = t THEN [market_type |-> "CURVE", price |-> 1] ELSE market[u]]
    /\ Priced(t, 1)
    /\ UNCHANGED <<token, pool, swap, liquidity, balance, lp>>

\* A trade of tok tokens for quo of the quote, on the curve or in the pool.
Trade(t, a, is_buy, tok, quo) ==
    LET moved == IF t \in DOMAIN pool
                 THEN IF is_buy THEN Shift(pool[t], t, -tok, quo, 0) ELSE Shift(pool[t], t, tok, -quo, 0)
                 ELSE NewPool(t)
    IN  /\ Index
        /\ t \in DOMAIN market
        /\ {moved.reserve0, moved.reserve1} \subseteq Nat
        /\ pool' = [u \in DOMAIN pool |-> IF u = t THEN moved ELSE pool[u]]
        /\ balance' = [balance EXCEPT ![t][a] = IF is_buy THEN @ + tok ELSE @ - tok]
        /\ market' = [market EXCEPT ![t].price = IF is_buy THEN @ + 1 ELSE @ - 1]
        /\ market'[t].price > 0
        /\ Priced(t, market'[t].price)
        /\ swap' = Append(swap,
                [token |-> t, account |-> a, is_buy |-> is_buy, quote |-> quo, tok |-> tok,
                 market_type |-> market[t].market_type, block |-> block, tx |-> tx,
                 rq |-> QuoteReserve(moved, t), rt |-> TokenReserve(moved, t)])
        /\ UNCHANGED <<token, liquidity, lp>>

Buy(t, a, tok) == Trade(t, a, TRUE, tok, tok)

\* The last token of a sale is worth less than one unit of the quote.
Sell(t, a, tok) ==
    /\ balance[t][a] >= tok
    /\ Trade(t, a, FALSE, tok, tok \div 2)

\* The curve is sold out: the market moves to a pool.
Graduate(t) ==
    /\ Index
    /\ t \in DOMAIN market
    /\ market[t].market_type = "CURVE"
    /\ market' = [market EXCEPT ![t].market_type = "DEX"]
    /\ pool' = [u \in DOMAIN pool \cup {t} |-> IF u = t THEN NewPool(t) ELSE pool[u]]
    /\ UNCHANGED <<token, swap, liquidity, price, balance, lp>>

\* Liquidity enters (mint) or leaves (burn) a pool on behalf of a.
Provide(t, a, kind) ==
    LET n == IF kind = "mint" THEN 1 ELSE -1
        moved == Shift(pool[t], t, 3 * n, 2 * n, n)
    IN  /\ Index
        /\ t \in DOMAIN pool
        /\ lp[t][a] + n >= 0
        /\ {moved.reserve0, moved.reserve1} \subseteq Nat
        /\ pool' = [pool EXCEPT ![t] = moved]
        /\ lp' = [lp EXCEPT ![t][a] = @ + n]
        /\ liquidity' = Append(liquidity,
                [kind |-> kind, token |-> t, account |-> a, quote |-> 2, tok |-> 3,
                 block |-> block, tx |-> tx, rq |-> QuoteReserve(moved, t), rt |-> TokenReserve(moved, t)])
        /\ UNCHANGED <<token, market, swap, price, balance>>

\* The block's rows are committed together, and the next block begins.
Commit ==
    /\ block <= MaxBlock
    /\ tx' = 0
    /\ block' = block + 1
    /\ UNCHANGED <<token, market, pool, swap, liquidity, price, balance, lp>>

DbNext ==
    \/ Commit
    \/ \E t \in Token :
        \/ OpenMarket(t)
        \/ Graduate(t)
        \/ \E a \in Account :
            \/ \E nsfw \in BOOLEAN : CreateToken(t, a, nsfw)
            \/ \E tok \in Amount : Buy(t, a, tok) \/ Sell(t, a, tok)
            \/ \E kind \in {"mint", "burn"} : Provide(t, a, kind)

DbSpec == DbInit /\ [][DbNext]_db
=============================================================================
