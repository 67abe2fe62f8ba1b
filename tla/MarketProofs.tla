---------------------------- MODULE MarketProofs ----------------------------
(***************************************************************************)
(* Theorems about the four parts of MCMarket: the tables the indexer fills  *)
(* with the queries over them, the chart cache, the account profiles and    *)
(* the trend list.  The queries hold in every state the tables can reach,   *)
(* so most theorems rest on the invariant of the tables, DbInv.             *)
(***************************************************************************)
EXTENDS MCMarket, FiniteSetTheorems, WellFoundedInduction, TLAPS

-----------------------------------------------------------------------------
(* Numbers and sets *)

\* A set of natural numbers has a minimum in a well-founded relation.
LEMMA WellFoundedMinimum ==
  ASSUME NEW R, IsWellFoundedOn(R, Nat), NEW S, S \subseteq Nat, S # {}
  PROVE  \E x \in S : \A y \in S : ~(<<y, x>> \in R)
BY WFMin, Zenon

\* A set of natural numbers has a least element.
LEMMA LeastElement ==
  ASSUME NEW S, S \subseteq Nat, S # {}
  PROVE  \E m \in S : \A n \in S : m <= n
<1> DEFINE R == OpToRel(<, Nat)
<1>1. IsWellFoundedOn(R, Nat)
  BY NatLessThanWellFounded, Zenon
<1>2. \A x, y \in Nat : x < y => <<x, y>> \in R
  BY DEF OpToRel
<1> HIDE DEF R
<1>3. PICK m \in S : \A n \in S : ~(<<n, m>> \in R)
  BY <1>1, WellFoundedMinimum
<1>4. ASSUME NEW n \in S
      PROVE  m <= n
  <2>1. m \in Nat /\ n \in Nat
    OBVIOUS
  <2>2. ~(n < m)
    BY <1>2, <1>3, <2>1
  <2>3. QED
    BY <2>1, <2>2
<1>5. QED
  BY <1>4

\* A bounded set of natural numbers has a greatest element.
LEMMA GreatestElement ==
  ASSUME NEW N \in Nat, NEW S, S \subseteq 0..N, S # {}
  PROVE  \E m \in S : \A n \in S : n <= m
<1> DEFINE T == {k \in Nat : N - k \in S}
<1>1. PICK b \in S : TRUE
  OBVIOUS
<1>2. b \in 0..N /\ N - b \in Nat /\ N - (N - b) = b
  BY <1>1
<1>3. T \subseteq Nat /\ N - b \in T
  BY <1>2
<1> HIDE DEF T
<1>4. PICK k \in T : \A j \in T : k <= j
  BY <1>3, LeastElement
<1>5. k \in Nat /\ N - k \in S
  BY DEF T
<1>6. ASSUME NEW n \in S
      PROVE  n <= N - k
  <2>1. n \in 0..N /\ N - n \in Nat /\ N - (N - n) = n
    OBVIOUS
  <2>2. N - n \in T
    BY <2>1 DEF T
  <2>3. k <= N - n
    BY <1>4, <2>2
  <2>4. QED
    BY <1>5, <2>1, <2>3
<1>7. QED
  BY <1>5, <1>6

\* Two sets without a common element are counted one after the other.
LEMMA SplitSize ==
  ASSUME NEW S, NEW T, IsFiniteSet(S), IsFiniteSet(T), S \cap T = {}
  PROVE  IsFiniteSet(S \cup T) /\ Cardinality(S \cup T) = Cardinality(S) + Cardinality(T)
<1>1. Cardinality(S \cap T) = 0
  BY FS_EmptySet
<1>2. Cardinality(S) \in Nat /\ Cardinality(T) \in Nat
  BY FS_CardinalityType
<1>3. IsFiniteSet(S \cup T) /\ Cardinality(S \cup T) = Cardinality(S) + Cardinality(T) - Cardinality(S \cap T)
  BY FS_Union
<1>4. QED
  BY <1>1, <1>2, <1>3

-----------------------------------------------------------------------------
(* The tables *)

\* Rows of the tables, as the trades and changes of liquidity write them.
PoolRow == [token0 : Nat, token1 : Nat, reserve0 : Nat, reserve1 : Nat, total_supply : Nat]

SwapRow ==
    [token : Token, account : Account, is_buy : BOOLEAN, quote : Nat, tok : Amount,
     market_type : MarketType, block : Nat \ {0}, tx : Nat, rq : Nat, rt : Nat]

LiquidityRow ==
    [kind : {"mint", "burn"}, token : Token, account : Account, quote : Nat, tok : Nat,
     block : Nat \ {0}, tx : Nat, rq : Nat, rt : Nat]

PriceRow == [token : Token, price : Nat, block : Nat, tx : Nat]

\* The rows of a table, without their order.
RowsOf(table) == {table[i] : i \in DOMAIN table}

\* Row r was indexed before row q.
RowBefore(r, q) == r.block < q.block \/ (r.block = q.block /\ r.tx < q.tx)

\* Where the next row will be.
Now == [block |-> block, tx |-> tx]

\* The pool shares of token t, one by one.
Shares(t) == {u \in Account \X (Nat \ {0}) : u[2] <= lp[t][u[1]]}

\* Rows that moved the reserves of the pool of t.
PoolRows(t) ==
    {r \in RowsOf(swap) : r.token = t /\ r.market_type = "DEX"} \cup {r \in RowsOf(liquidity) : r.token = t}

\* Every token of the market has a row in table token, a market in a pool has the pool,
\* and no balance, share or reserve is below zero.
TablesOK ==
    /\ block \in 1..MaxBlock + 1
    /\ tx \in Nat
    /\ DOMAIN token \subseteq Token
    /\ DOMAIN market \subseteq DOMAIN token
    /\ DOMAIN pool = {t \in DOMAIN market : market[t].market_type = "DEX"}
    /\ \A t \in DOMAIN token :
        token[t] \in [creator : Account, created_at : 0..Clock, is_nsfw : BOOLEAN]
    /\ \A t \in DOMAIN market : market[t] \in [market_type : MarketType, price : Nat]
    /\ \A t \in DOMAIN pool :
        /\ pool[t] \in PoolRow
        /\ pool[t].token0 = NewPool(t).token0
        /\ pool[t].token1 = NewPool(t).token1
    /\ balance \in [Token -> [Account -> Nat]]
    /\ lp \in [Token -> [Account -> Nat]]

\* The supply of a pool is its creator's two shares and one share for each share an
\* account has, so a burn always finds a share to give back.
SharesCounted ==
    \A t \in Token :
        /\ IsFiniteSet(Shares(t))
        /\ t \in DOMAIN pool => pool[t].total_supply = 2 + Cardinality(Shares(t))
        /\ t \notin DOMAIN pool => Shares(t) = {}

\* Every row names a token that has a market, a row of a pool names a token with a pool,
\* and all were indexed before now.
RowsOK ==
    /\ swap \in Seq(SwapRow) /\ liquidity \in Seq(LiquidityRow) /\ price \in Seq(PriceRow)
    /\ \A r \in RowsOf(swap) :
        /\ r.token \in DOMAIN market
        /\ r.market_type = "DEX" => r.token \in DOMAIN pool
        /\ RowBefore(r, Now)
    /\ \A r \in RowsOf(liquidity) : r.token \in DOMAIN pool /\ RowBefore(r, Now)
    /\ \A r \in RowsOf(price) : r.token \in DOMAIN market /\ r.block <= block

\* The newest row of a pool carries the reserves the pool has.
LastReserves ==
    \A t \in DOMAIN pool :
        \A r \in PoolRows(t) :
            (\A q \in PoolRows(t) : ~RowBefore(r, q)) =>
                r.rq = QuoteReserve(pool[t], t) /\ r.rt = TokenReserve(pool[t], t)

\* The inductive invariant of the tables.
DbInv == TablesOK /\ SharesCounted /\ RowsOK /\ LastReserves

\* A row is added to a table.
LEMMA AppendedRows ==
  ASSUME NEW S, NEW s \in Seq(S), NEW e \in S
  PROVE  Append(s, e) \in Seq(S) /\ RowsOf(Append(s, e)) = RowsOf(s) \cup {e}
<1>1. Append(s, e) \in Seq(S) /\ Len(Append(s, e)) = Len(s) + 1
  OBVIOUS
<1>2. DOMAIN s = 1..Len(s) /\ DOMAIN Append(s, e) = 1..Len(s) + 1 /\ Len(s) \in Nat
  OBVIOUS
<1>3. \A i \in 1..Len(s) : Append(s, e)[i] = s[i]
  OBVIOUS
<1>4. Append(s, e)[Len(s) + 1] = e
  OBVIOUS
<1>5. \A i \in 1..Len(s) + 1 : i \in 1..Len(s) \/ i = Len(s) + 1
  BY <1>2
<1>6. 1..Len(s) \subseteq 1..Len(s) + 1 /\ Len(s) + 1 \in 1..Len(s) + 1
  BY <1>2
<1>7. QED
  BY <1>1, <1>2, <1>3, <1>4, <1>5, <1>6 DEF RowsOf

\* The rows of a table are of its type.
LEMMA RowsTyped ==
  ASSUME NEW S, NEW s \in Seq(S)
  PROVE  RowsOf(s) \subseteq S
BY DEF RowsOf

\* A pool that has just been created.
LEMMA NewPoolShape ==
  ASSUME NEW t \in Token
  PROVE  NewPool(t) \in PoolRow /\ NewPool(t).total_supply = 2
BY AddressAssumption DEF NewPool, PoolRow

\* What Shift changes.
LEMMA ShiftShape ==
  ASSUME NEW t, NEW p \in PoolRow, NEW tok \in Int, NEW quo \in Int, NEW n \in Int
  PROVE  LET q == Shift(p, t, tok, quo, n) IN
         /\ q.token0 = p.token0 /\ q.token1 = p.token1
         /\ q.reserve0 \in Int /\ q.reserve1 \in Int
         /\ q.total_supply = p.total_supply + n
         /\ {q.reserve0, q.reserve1, q.total_supply} \subseteq Nat => q \in PoolRow
<1> DEFINE d0 == IF p.token0 = t THEN tok ELSE quo
           d1 == IF p.token1 = t THEN tok ELSE quo
           q == Shift(p, t, tok, quo, n)
<1>1. d0 \in Int /\ d1 \in Int
  OBVIOUS
<1>2. p = [token0 |-> p.token0, token1 |-> p.token1, reserve0 |-> p.reserve0, reserve1 |-> p.reserve1,
           total_supply |-> p.total_supply]
  BY DEF PoolRow
<1>3. q = [p EXCEPT !.reserve0 = p.reserve0 + d0, !.reserve1 = p.reserve1 + d1,
                    !.total_supply = p.total_supply + n]
  BY DEF Shift
<1>4. q = [token0 |-> p.token0, token1 |-> p.token1, reserve0 |-> p.reserve0 + d0,
           reserve1 |-> p.reserve1 + d1, total_supply |-> p.total_supply + n]
  <2> HIDE DEF q, d0, d1
  <2> QED BY <1>2, <1>3
<1>5. p.reserve0 \in Nat /\ p.reserve1 \in Nat /\ p.token0 \in Nat /\ p.token1 \in Nat
  BY DEF PoolRow
<1>6. QED
  <2> HIDE DEF q, d0, d1
  <2>1. q.reserve0 = p.reserve0 + d0 /\ q.reserve1 = p.reserve1 + d1
        /\ q.total_supply = p.total_supply + n /\ q.token0 = p.token0 /\ q.token1 = p.token1
    BY <1>4
  <2>2. q.reserve0 \in Int /\ q.reserve1 \in Int
    BY <1>1, <1>5, <2>1
  <2>3. {q.reserve0, q.reserve1, q.total_supply} \subseteq Nat => q \in PoolRow
    BY <1>4, <1>5, <2>1 DEF PoolRow
  <2>4. QED
    BY <2>1, <2>2, <2>3 DEF q

\* Time goes on.
LEMMA SecondGrows ==
  ASSUME NEW b \in Nat
  PROVE  Second(b) \in Nat /\ Second(b) <= Second(b + 1)
BY DEF Second

\* A row stays before the place of the next row.
LEMMA RowBeforeLater ==
  ASSUME NEW r, r.block \in Nat, r.tx \in Nat, block \in Nat, tx \in Nat, RowBefore(r, Now),
         \/ block' = block /\ tx' = tx + 1
         \/ block' = block + 1 /\ tx' = 0
  PROVE  RowBefore(r, Now')
BY DEF RowBefore, Now

\* A row of table swap as a trade writes it.
TradeRow(t, a, is_buy, tok, quo, moved) ==
    [token |-> t, account |-> a, is_buy |-> is_buy, quote |-> quo, tok |-> tok,
     market_type |-> market[t].market_type, block |-> block, tx |-> tx,
     rq |-> QuoteReserve(moved, t), rt |-> TokenReserve(moved, t)]

\* What a trade does to the pool and to table swap.
LEMMA TradeShape ==
  ASSUME TablesOK, NEW t \in Token, NEW a \in Account, NEW is_buy \in BOOLEAN,
         NEW tok \in Amount, NEW quo \in Nat, Trade(t, a, is_buy, tok, quo)
  PROVE  \E moved \in PoolRow :
            /\ moved.token0 = NewPool(t).token0 /\ moved.token1 = NewPool(t).token1
            /\ t \in DOMAIN pool => moved.total_supply = pool[t].total_supply
            /\ pool' = [u \in DOMAIN pool |-> IF u = t THEN moved ELSE pool[u]]
            /\ swap' = Append(swap, TradeRow(t, a, is_buy, tok, quo, moved))
            /\ TradeRow(t, a, is_buy, tok, quo, moved) \in SwapRow
<1> DEFINE moved == IF t \in DOMAIN pool
                    THEN IF is_buy THEN Shift(pool[t], t, -tok, quo, 0) ELSE Shift(pool[t], t, tok, -quo, 0)
                    ELSE NewPool(t)
<1>1. /\ {moved.reserve0, moved.reserve1} \subseteq Nat
      /\ pool' = [u \in DOMAIN pool |-> IF u = t THEN moved ELSE pool[u]]
      /\ swap' = Append(swap, TradeRow(t, a, is_buy, tok, quo, moved))
      /\ t \in DOMAIN market
  BY DEF Trade, TradeRow
<1>2. tok \in Nat /\ -tok \in Int /\ -quo \in Int /\ 0 \in Int /\ tok \in Int /\ quo \in Int
  BY AddressAssumption
<1>3. /\ moved \in PoolRow /\ moved.token0 = NewPool(t).token0 /\ moved.token1 = NewPool(t).token1
      /\ t \in DOMAIN pool => moved.total_supply = pool[t].total_supply
  <2>1. CASE t \notin DOMAIN pool
    BY <2>1, NewPoolShape
  <2>2. CASE t \in DOMAIN pool /\ is_buy
    <3>1. pool[t] \in PoolRow /\ pool[t].token0 = NewPool(t).token0 /\ pool[t].token1 = NewPool(t).token1
      BY <2>2 DEF TablesOK
    <3>2. moved = Shift(pool[t], t, -tok, quo, 0)
      BY <2>2
    <3>3. pool[t].total_supply \in Nat /\ pool[t].total_supply + 0 = pool[t].total_supply
      BY <3>1 DEF PoolRow
    <3> HIDE DEF moved
    <3>4. QED
      BY <1>1, <1>2, <3>1, <3>2, <3>3, ShiftShape
  <2>3. CASE t \in DOMAIN pool /\ ~is_buy
    <3>1. pool[t] \in PoolRow /\ pool[t].token0 = NewPool(t).token0 /\ pool[t].token1 = NewPool(t).token1
      BY <2>3 DEF TablesOK
    <3>2. moved = Shift(pool[t], t, tok, -quo, 0)
      BY <2>3
    <3>3. pool[t].total_supply \in Nat /\ pool[t].total_supply + 0 = pool[t].total_supply
      BY <3>1 DEF PoolRow
    <3> HIDE DEF moved
    <3>4. QED
      BY <1>1, <1>2, <3>1, <3>2, <3>3, ShiftShape
  <2>4. QED
    BY <2>1, <2>2, <2>3
<1> HIDE DEF moved
<1>4. QuoteReserve(moved, t) \in Nat /\ TokenReserve(moved, t) \in Nat
  BY <1>3 DEF PoolRow, QuoteReserve, TokenReserve
<1>5. market[t].market_type \in MarketType /\ block \in Nat \ {0} /\ tx \in Nat
  <2>1. market[t] \in [market_type : MarketType, price : Nat]
    BY <1>1 DEF TablesOK
  <2>2. block \in 1..MaxBlock + 1 /\ tx \in Nat /\ MaxBlock \in Nat
    BY AddressAssumption DEF TablesOK
  <2>3. QED
    BY <2>1, <2>2
<1>6. TradeRow(t, a, is_buy, tok, quo, moved) \in SwapRow
  BY <1>4, <1>5 DEF TradeRow, SwapRow
<1>7. QED
  BY <1>1, <1>3, <1>6

\* A row of table liquidity as a change of liquidity writes it.
ProvideRow(t, a, kind, moved) ==
    [kind |-> kind, token |-> t, account |-> a, quote |-> 2, tok |-> 3,
     block |-> block, tx |-> tx, rq |-> QuoteReserve(moved, t), rt |-> TokenReserve(moved, t)]

\* What a change of liquidity does to the pool and to table liquidity.
LEMMA ProvideShape ==
  ASSUME TablesOK, NEW t \in Token, NEW a \in Account, NEW kind \in {"mint", "burn"},
         NEW n, n = IF kind = "mint" THEN 1 ELSE -1, Provide(t, a, kind)
  PROVE  \E moved :
            /\ moved.token0 = NewPool(t).token0 /\ moved.token1 = NewPool(t).token1
            /\ moved.total_supply = pool[t].total_supply + n
            /\ moved.total_supply \in Nat => moved \in PoolRow
            /\ pool' = [pool EXCEPT ![t] = moved]
            /\ liquidity' = Append(liquidity, ProvideRow(t, a, kind, moved))
            /\ ProvideRow(t, a, kind, moved) \in LiquidityRow
<1> DEFINE moved == Shift(pool[t], t, 3 * n, 2 * n, n)
<1>1. /\ {moved.reserve0, moved.reserve1} \subseteq Nat
      /\ pool' = [pool EXCEPT ![t] = moved]
      /\ liquidity' = Append(liquidity, ProvideRow(t, a, kind, moved))
      /\ t \in DOMAIN pool
  BY DEF Provide, ProvideRow
<1>2. 3 * n \in Int /\ 2 * n \in Int /\ n \in Int
  OBVIOUS
<1>3. pool[t] \in PoolRow /\ pool[t].token0 = NewPool(t).token0 /\ pool[t].token1 = NewPool(t).token1
  BY <1>1 DEF TablesOK
<1>4. /\ moved.token0 = NewPool(t).token0 /\ moved.token1 = NewPool(t).token1
      /\ moved.total_supply = pool[t].total_supply + n
      /\ moved.total_supply \in Nat => moved \in PoolRow
  BY <1>1, <1>2, <1>3, ShiftShape
<1> HIDE DEF moved
<1>5. QuoteReserve(moved, t) \in Nat /\ TokenReserve(moved, t) \in Nat
  BY <1>1 DEF QuoteReserve, TokenReserve
<1>6. block \in Nat \ {0} /\ tx \in Nat
  BY AddressAssumption DEF TablesOK
<1>7. ProvideRow(t, a, kind, moved) \in LiquidityRow
  BY <1>5, <1>6 DEF ProvideRow, LiquidityRow
<1>8. QED
  BY <1>1, <1>4, <1>7

\* A mint adds one share of the account, a burn takes one away.
LEMMA SharesStep ==
  ASSUME TablesOK, SharesCounted, NEW t \in Token, NEW a \in Account, NEW kind \in {"mint", "burn"},
         NEW n, n = IF kind = "mint" THEN 1 ELSE -1, Provide(t, a, kind)
  PROVE  /\ IsFiniteSet(Shares(t)') /\ Cardinality(Shares(t)') \in Nat
         /\ Cardinality(Shares(t)') = Cardinality(Shares(t)) + n
         /\ \A u \in Token : u # t => Shares(u)' = Shares(u)
<1>1. /\ lp' = [lp EXCEPT ![t][a] = lp[t][a] + n]
      /\ lp[t][a] + n >= 0 /\ lp[t][a] \in Nat
      /\ IsFiniteSet(Shares(t))
  BY DEF Provide, TablesOK, SharesCounted
<1>2. \A u \in Token, b \in Account :
        lp'[u][b] = IF u = t /\ b = a THEN lp[t][a] + n ELSE lp[u][b]
  BY <1>1 DEF TablesOK
<1>3. \A u \in Token, b \in Account : lp[u][b] \in Nat
  BY DEF TablesOK
<1>4. CASE kind = "mint"
  <2>1. Shares(t)' = Shares(t) \cup {<<a, lp[t][a] + 1>>}
    BY <1>1, <1>2, <1>3, <1>4 DEF Shares
  <2>2. <<a, lp[t][a] + 1>> \notin Shares(t)
    BY <1>1 DEF Shares
  <2>3. IsFiniteSet(Shares(t)') /\ Cardinality(Shares(t)') = Cardinality(Shares(t)) + 1
    BY <1>1, <2>1, <2>2, FS_AddElement
  <2>4. QED
    BY <1>2, <1>4, <2>3, FS_CardinalityType DEF Shares
<1>5. CASE kind = "burn"
  <2>1. Shares(t)' = Shares(t) \ {<<a, lp[t][a]>>}
    BY <1>1, <1>2, <1>3, <1>5 DEF Shares
  <2>2. <<a, lp[t][a]>> \in Shares(t)
    BY <1>1, <1>5 DEF Shares
  <2>3. IsFiniteSet(Shares(t) \ {<<a, lp[t][a]>>})
        /\ Cardinality(Shares(t) \ {<<a, lp[t][a]>>}) = Cardinality(Shares(t)) - 1
    <3> DEFINE S == Shares(t)
               x == <<a, lp[t][a]>>
    <3>1. IsFiniteSet(S) /\ x \in S
      BY <1>1, <2>2
    <3> HIDE DEF S, x
    <3>2. IsFiniteSet(S \ {x})
          /\ Cardinality(S \ {x}) = IF x \in S THEN Cardinality(S) - 1 ELSE Cardinality(S)
      BY <3>1, FS_RemoveElement, Zenon
    <3>3. QED
      BY <3>1, <3>2 DEF S, x
  <2>4. IsFiniteSet(Shares(t)') /\ Cardinality(Shares(t)') = Cardinality(Shares(t)) - 1
    BY <2>1, <2>3
  <2>5. Cardinality(Shares(t)') \in Nat
    BY <2>4, FS_CardinalityType
  <2>6. \A u \in Token : u # t => Shares(u)' = Shares(u)
    BY <1>2 DEF Shares
  <2>7. QED
    BY <1>5, <2>4, <2>5, <2>6
<1>6. QED
  BY <1>4, <1>5

\* Every step of the indexer keeps the count of the shares.
LEMMA SharesStayCounted ==
  ASSUME TablesOK, SharesCounted, [DbNext]_db
  PROVE  SharesCounted'
<1>1. ASSUME NEW t \in Token, NEW a \in Account, NEW kind \in {"mint", "burn"}, Provide(t, a, kind)
      PROVE  SharesCounted'
  <2> DEFINE n == IF kind = "mint" THEN 1 ELSE -1
  <2>1. PICK moved :
          /\ moved.total_supply = pool[t].total_supply + n
          /\ pool' = [pool EXCEPT ![t] = moved]
    BY <1>1, ProvideShape
  <2>2. /\ IsFiniteSet(Shares(t)') /\ Cardinality(Shares(t)') = Cardinality(Shares(t)) + n
        /\ \A u \in Token : u # t => Shares(u)' = Shares(u)
    BY <1>1, SharesStep
  <2>3. t \in DOMAIN pool
    BY <1>1 DEF Provide
  <2>4. Cardinality(Shares(t)) \in Nat /\ n \in Int
    BY FS_CardinalityType DEF SharesCounted
  <2>5. DOMAIN pool' = DOMAIN pool /\ pool'[t] = moved /\ \A u \in DOMAIN pool : u # t => pool'[u] = pool[u]
    BY <2>1, <2>3
  <2>6. ASSUME NEW u \in Token
        PROVE  /\ IsFiniteSet(Shares(u)')
               /\ u \in DOMAIN pool' => pool'[u].total_supply = 2 + Cardinality(Shares(u)')
               /\ u \notin DOMAIN pool' => Shares(u)' = {}
    <3>1. CASE u = t
      <4>1. pool[t].total_supply = 2 + Cardinality(Shares(t))
        BY <2>3 DEF SharesCounted
      <4> HIDE DEF n
      <4>2. QED
        BY <2>1, <2>2, <2>3, <2>4, <2>5, <3>1, <4>1
    <3>2. CASE u # t
      BY <2>2, <2>5, <3>2 DEF SharesCounted
    <3>3. QED
      BY <3>1, <3>2
  <2>7. QED
    BY <2>6 DEF SharesCounted
<1>2. ASSUME NEW t \in Token, NEW a \in Account, NEW is_buy \in BOOLEAN, NEW tok \in Amount, NEW quo \in Nat,
             Trade(t, a, is_buy, tok, quo)
      PROVE  SharesCounted'
  <2>1. PICK moved \in PoolRow :
          /\ t \in DOMAIN pool => moved.total_supply = pool[t].total_supply
          /\ pool' = [u \in DOMAIN pool |-> IF u = t THEN moved ELSE pool[u]]
    BY <1>2, TradeShape
  <2>2. \A u \in Token : Shares(u)' = Shares(u)
    BY <1>2 DEF Trade, Shares
  <2>3. DOMAIN pool' = DOMAIN pool /\ \A u \in DOMAIN pool : pool'[u].total_supply = pool[u].total_supply
    BY <2>1
  <2>4. QED
    BY <2>2, <2>3 DEF SharesCounted
<1>3. ASSUME NEW t \in Token, Graduate(t)
      PROVE  SharesCounted'
  <2>1. \A u \in Token : Shares(u)' = Shares(u)
    BY <1>3 DEF Graduate, Shares
  <2>2. t \notin DOMAIN pool
    BY <1>3 DEF Graduate, TablesOK
  <2>3. /\ DOMAIN pool' = DOMAIN pool \cup {t} /\ pool'[t] = NewPool(t)
        /\ \A u \in DOMAIN pool : u # t => pool'[u] = pool[u]
    BY <1>3 DEF Graduate
  <2>4. Shares(t) = {} /\ Cardinality(Shares(t)) = 0
    BY <2>2, FS_EmptySet DEF SharesCounted
  <2>5. pool'[t].total_supply = 2 + Cardinality(Shares(t))
    BY <2>3, <2>4, NewPoolShape
  <2>6. QED
    BY <2>1, <2>2, <2>3, <2>4, <2>5 DEF SharesCounted
<1>4. ASSUME UNCHANGED <<pool, lp>>
      PROVE  SharesCounted'
  BY <1>4 DEF SharesCounted, Shares
<1>5. QED
  <2>1. \A tok \in Amount : tok \in Nat /\ tok \div 2 \in Nat
    BY AddressAssumption
  <2>2. CASE \E t \in Token : Graduate(t)
    BY <1>3, <2>2
  <2>3. CASE \E t \in Token, a \in Account, kind \in {"mint", "burn"} : Provide(t, a, kind)
    BY <1>1, <2>3
  <2>4. CASE \E t \in Token, a \in Account, tok \in Amount : Buy(t, a, tok) \/ Sell(t, a, tok)
    BY <1>2, <2>1, <2>4 DEF Buy, Sell
  <2>5. CASE \/ UNCHANGED db \/ Commit
             \/ \E t \in Token : OpenMarket(t) \/ \E a \in Account, nsfw \in BOOLEAN : CreateToken(t, a, nsfw)
    BY <1>4, <2>5 DEF db, Commit, OpenMarket, CreateToken
  <2>6. QED
    BY <2>2, <2>3, <2>4, <2>5 DEF DbNext

\* Every step of the indexer keeps the tables in order; a trade or a burn leaves no
\* reserve below zero.
LEMMA TablesStayOK ==
  ASSUME TablesOK, SharesCounted, [DbNext]_db
  PROVE  TablesOK'
<1>1. \A tok \in Amount : tok \in Nat /\ tok \div 2 \in Nat
  BY AddressAssumption
<1>2. ASSUME Index
      PROVE  /\ block' \in 1..MaxBlock + 1 /\ tx' \in Nat /\ Clock' = Clock
  BY <1>2 DEF Index, TablesOK, Clock
<1>3. ASSUME NEW t \in Token, NEW a \in Account, NEW nsfw \in BOOLEAN, CreateToken(t, a, nsfw)
      PROVE  TablesOK'
  <2>1. Clock \in 0..Clock
    BY SecondGrows, AddressAssumption DEF TablesOK, Clock
  <2>2. UNCHANGED <<market, pool, balance, lp>>
    BY <1>3 DEF CreateToken
  <2>3. /\ DOMAIN token' = DOMAIN token \cup {t}
        /\ token'[t] = [creator |-> a, created_at |-> Clock, is_nsfw |-> nsfw]
        /\ \A u \in DOMAIN token : u # t => token'[u] = token[u]
    BY <1>3 DEF CreateToken
  <2>4. \A u \in DOMAIN token' : token'[u] \in [creator : Account, created_at : 0..Clock, is_nsfw : BOOLEAN]
    BY <2>1, <2>3 DEF TablesOK
  <2>5. block' \in 1..MaxBlock + 1 /\ tx' \in Nat /\ Clock' = Clock
    BY <1>2, <1>3 DEF CreateToken
  <2>6. QED
    BY <2>2, <2>3, <2>4, <2>5 DEF TablesOK
<1>4. ASSUME NEW t \in Token, OpenMarket(t)
      PROVE  TablesOK'
  <2>1. UNCHANGED <<token, pool, balance, lp>>
    BY <1>4 DEF OpenMarket
  <2>2. /\ DOMAIN market' = DOMAIN market \cup {t} /\ t \in DOMAIN token \ DOMAIN market
        /\ market'[t] = [market_type |-> "CURVE", price |-> 1]
        /\ \A u \in DOMAIN market : u # t => market'[u] = market[u]
    BY <1>4 DEF OpenMarket
  <2>3. \A u \in DOMAIN market' : market'[u] \in [market_type : MarketType, price : Nat]
    BY <2>2 DEF TablesOK, MarketType
  <2>4. DOMAIN pool = {u \in DOMAIN market' : market'[u].market_type = "DEX"}
    BY <2>2 DEF TablesOK
  <2>5. block' \in 1..MaxBlock + 1 /\ tx' \in Nat /\ Clock' = Clock
    BY <1>2, <1>4 DEF OpenMarket
  <2>6. DOMAIN market' \subseteq DOMAIN token
    BY <2>2 DEF TablesOK
  <2>7. QED
    BY <2>1, <2>3, <2>4, <2>5, <2>6 DEF TablesOK
<1>5. ASSUME NEW t \in Token, Graduate(t)
      PROVE  TablesOK'
  <2>1. UNCHANGED <<token, balance, lp>> /\ t \in DOMAIN market
    BY <1>5 DEF Graduate
  <2>2. market' = [market EXCEPT ![t].market_type = "DEX"]
    BY <1>5 DEF Graduate
  <2>3. /\ DOMAIN market' = DOMAIN market
        /\ \A u \in DOMAIN market : u # t => market'[u] = market[u]
        /\ market'[t] = [market[t] EXCEPT !.market_type = "DEX"]
    BY <2>1, <2>2
  <2>4. market'[t] \in [market_type : MarketType, price : Nat] /\ market'[t].market_type = "DEX"
    BY <2>1, <2>3 DEF TablesOK, MarketType
  <2>5. /\ DOMAIN pool' = DOMAIN pool \cup {t} /\ pool'[t] = NewPool(t)
        /\ \A u \in DOMAIN pool : u # t => pool'[u] = pool[u]
    BY <1>5 DEF Graduate
  <2>6. \A u \in DOMAIN pool' : /\ pool'[u] \in PoolRow
                                /\ pool'[u].token0 = NewPool(u).token0
                                /\ pool'[u].token1 = NewPool(u).token1
    BY <2>5, NewPoolShape DEF TablesOK
  <2>7. DOMAIN pool' = {u \in DOMAIN market' : market'[u].market_type = "DEX"}
    BY <2>1, <2>3, <2>4, <2>5 DEF TablesOK
  <2>8. block' \in 1..MaxBlock + 1 /\ tx' \in Nat /\ Clock' = Clock
    BY <1>2, <1>5 DEF Graduate
  <2>9. \A u \in DOMAIN market' : market'[u] \in [market_type : MarketType, price : Nat]
    BY <2>3, <2>4 DEF TablesOK
  <2>10. QED
    BY <2>1, <2>3, <2>6, <2>7, <2>8, <2>9 DEF TablesOK
<1>6. ASSUME NEW t \in Token, NEW a \in Account, NEW is_buy \in BOOLEAN, NEW tok \in Amount, NEW quo \in Nat,
             Trade(t, a, is_buy, tok, quo), is_buy \/ balance[t][a] >= tok
      PROVE  TablesOK'
  <2>1. PICK moved \in PoolRow :
          /\ moved.token0 = NewPool(t).token0 /\ moved.token1 = NewPool(t).token1
          /\ pool' = [u \in DOMAIN pool |-> IF u = t THEN moved ELSE pool[u]]
    BY <1>6, TradeShape
  <2>2. \A u \in DOMAIN pool' : /\ pool'[u] \in PoolRow
                                /\ pool'[u].token0 = NewPool(u).token0
                                /\ pool'[u].token1 = NewPool(u).token1
    BY <2>1 DEF TablesOK
  <2>3. /\ t \in DOMAIN market
        /\ market' = [market EXCEPT ![t].price = IF is_buy THEN @ + 1 ELSE @ - 1]
        /\ market'[t].price > 0
        /\ balance' = [balance EXCEPT ![t][a] = IF is_buy THEN @ + tok ELSE @ - tok]
        /\ UNCHANGED <<token, lp>>
    BY <1>6 DEF Trade
  <2>4. market[t] \in [market_type : MarketType, price : Nat] /\ market[t].price \in Nat
    BY <2>3 DEF TablesOK
  <2>5. /\ DOMAIN market' = DOMAIN market
        /\ \A u \in DOMAIN market : u # t => market'[u] = market[u]
        /\ market'[t] = [market[t] EXCEPT !.price = IF is_buy THEN @ + 1 ELSE @ - 1]
    BY <2>3
  <2>6. market'[t].market_type = market[t].market_type /\ market'[t].price \in Int
    BY <2>4, <2>5
  <2>7. market'[t] \in [market_type : MarketType, price : Nat]
    BY <2>3, <2>4, <2>5, <2>6
  <2>8. \A u \in DOMAIN market' : market'[u] \in [market_type : MarketType, price : Nat]
    BY <2>5, <2>7 DEF TablesOK
  <2>9. DOMAIN pool' = {u \in DOMAIN market' : market'[u].market_type = "DEX"}
    <3>1. \A u \in DOMAIN market' : market'[u].market_type = market[u].market_type
      BY <2>5, <2>6
    <3>2. DOMAIN pool = {u \in DOMAIN market : market[u].market_type = "DEX"}
      BY DEF TablesOK
    <3>3. DOMAIN pool' = DOMAIN pool
      BY <2>1
    <3>4. QED
      BY <2>5, <3>1, <3>2, <3>3
  <2>10. balance[t][a] \in Nat /\ tok \in Nat
    BY AddressAssumption DEF TablesOK
  <2>11. (IF is_buy THEN balance[t][a] + tok ELSE balance[t][a] - tok) \in Nat
    BY <1>6, <2>10
  <2>12. balance' \in [Token -> [Account -> Nat]]
    BY <2>3, <2>11 DEF TablesOK
  <2>13. block' \in 1..MaxBlock + 1 /\ tx' \in Nat /\ Clock' = Clock
    BY <1>2, <1>6 DEF Trade
  <2>14. QED
    BY <2>2, <2>3, <2>5, <2>8, <2>9, <2>12, <2>13 DEF TablesOK
<1>7. ASSUME NEW t \in Token, NEW a \in Account, NEW kind \in {"mint", "burn"}, Provide(t, a, kind)
      PROVE  TablesOK'
  <2> DEFINE n == IF kind = "mint" THEN 1 ELSE -1
  <2>1. PICK moved :
          /\ moved.token0 = NewPool(t).token0 /\ moved.token1 = NewPool(t).token1
          /\ moved.total_supply = pool[t].total_supply + n
          /\ moved.total_supply \in Nat => moved \in PoolRow
          /\ pool' = [pool EXCEPT ![t] = moved]
    BY <1>7, ProvideShape
  <2>2. Cardinality(Shares(t)') \in Nat /\ Cardinality(Shares(t)') = Cardinality(Shares(t)) + n
    BY <1>7, SharesStep
  <2>3. t \in DOMAIN pool /\ pool[t].total_supply = 2 + Cardinality(Shares(t))
    BY <1>7 DEF Provide, SharesCounted
  <2>4. Cardinality(Shares(t)) \in Nat /\ n \in Int
    BY FS_CardinalityType DEF SharesCounted
  <2>5. /\ lp' = [lp EXCEPT ![t][a] = lp[t][a] + n]
        /\ lp[t][a] + n >= 0 /\ lp[t][a] \in Nat
    BY <1>7 DEF Provide, TablesOK
  <2>6. UNCHANGED <<token, market, balance>>
    BY <1>7 DEF Provide
  <2> HIDE DEF n
  <2>7. moved.total_supply \in Nat
    BY <2>1, <2>2, <2>3, <2>4
  <2>8. DOMAIN pool' = DOMAIN pool
        /\ \A u \in DOMAIN pool' : /\ pool'[u] \in PoolRow
                                   /\ pool'[u].token0 = NewPool(u).token0
                                   /\ pool'[u].token1 = NewPool(u).token1
    BY <2>1, <2>7 DEF TablesOK
  <2>9. lp[t][a] + n \in Nat
    BY <2>4, <2>5
  <2>10. lp' \in [Token -> [Account -> Nat]]
    BY <2>5, <2>9 DEF TablesOK
  <2>11. block' \in 1..MaxBlock + 1 /\ tx' \in Nat /\ Clock' = Clock
    BY <1>2, <1>7 DEF Provide
  <2>12. QED
    BY <2>6, <2>8, <2>10, <2>11 DEF TablesOK
<1>8. ASSUME Commit
      PROVE  TablesOK'
  <2>1. block \in Nat /\ block' = block + 1 /\ block' \in 1..MaxBlock + 1 /\ tx' = 0
    BY <1>8, AddressAssumption DEF Commit, TablesOK
  <2>2. Clock \in Nat /\ Clock' \in Nat /\ Clock <= Clock'
    <3>1. Clock' = Second(block + 1) /\ block + 1 \in Nat
      BY <2>1 DEF Clock
    <3>2. QED
      BY <2>1, <3>1, SecondGrows DEF Clock
  <2>3. 0..Clock \subseteq 0..Clock'
    BY <2>2
  <2>4. UNCHANGED <<token, market, pool, balance, lp>>
    BY <1>8 DEF Commit
  <2>5. \A t \in DOMAIN token : token[t] \in [creator : Account, created_at : 0..Clock', is_nsfw : BOOLEAN]
    BY <2>3 DEF TablesOK
  <2>6. QED
    BY <2>1, <2>4, <2>5 DEF TablesOK
<1>9. CASE UNCHANGED db
  BY <1>9 DEF db, TablesOK, Clock
<1>10. QED
  <2>1. CASE \E t \in Token, a \in Account, tok \in Amount : Buy(t, a, tok) \/ Sell(t, a, tok)
    BY <1>1, <1>6, <2>1 DEF Buy, Sell
  <2>2. CASE \E t \in Token : OpenMarket(t) \/ Graduate(t)
    BY <1>4, <1>5, <2>2
  <2>3. CASE \E t \in Token, a \in Account, nsfw \in BOOLEAN : CreateToken(t, a, nsfw)
    BY <1>3, <2>3
  <2>4. CASE \E t \in Token, a \in Account, kind \in {"mint", "burn"} : Provide(t, a, kind)
    BY <1>7, <2>4
  <2>5. QED
    BY <1>8, <1>9, <2>1, <2>2, <2>3, <2>4 DEF DbNext

\* Rows that stand were indexed before the place of the next row moved on.
LEMMA StoredRowsStayEarlier ==
  ASSUME TablesOK, RowsOK,
         \/ block' = block /\ tx' = tx + 1
         \/ block' = block + 1 /\ tx' = 0
  PROVE  /\ \A r \in RowsOf(swap) \cup RowsOf(liquidity) : RowBefore(r, Now')
         /\ \A r \in RowsOf(price) : r.block <= block'
<1>1. block \in Nat /\ tx \in Nat
  BY AddressAssumption DEF TablesOK
<1>2. RowsOf(swap) \subseteq SwapRow /\ RowsOf(liquidity) \subseteq LiquidityRow /\ RowsOf(price) \subseteq PriceRow
  BY RowsTyped DEF RowsOK
<1>3. \A r \in RowsOf(swap) \cup RowsOf(liquidity) : r.block \in Nat /\ r.tx \in Nat /\ RowBefore(r, Now)
  BY <1>2 DEF RowsOK, SwapRow, LiquidityRow
<1>4. \A r \in RowsOf(price) : r.block \in Nat /\ r.block <= block
  BY <1>2 DEF RowsOK, PriceRow
<1>5. QED
  BY <1>1, <1>3, <1>4, RowBeforeLater

\* A row written now is before the next one.
LEMMA NewRowEarlier ==
  ASSUME NEW r, r.block = block, r.tx = tx, Index, TablesOK
  PROVE  RowBefore(r, Now')
BY DEF Index, RowBefore, Now, TablesOK

\* A price goes to the end of table price_history.
LEMMA PricedShape ==
  ASSUME TablesOK, RowsOK, NEW t \in DOMAIN market', NEW p \in Nat, Priced(t, p), Index,
         DOMAIN market \subseteq DOMAIN market', DOMAIN market' \subseteq Token
  PROVE  price' \in Seq(PriceRow) /\ \A r \in RowsOf(price') : r.token \in DOMAIN market' /\ r.block <= block'
<1> DEFINE row == [token |-> t, price |-> p, block |-> block, tx |-> tx]
<1>1. block \in Nat /\ tx \in Nat /\ block' = block /\ tx' = tx + 1
  BY AddressAssumption DEF TablesOK, Index
<1>2. row \in PriceRow /\ row.token = t /\ row.block = block
  BY <1>1 DEF PriceRow
<1>3. price' = Append(price, row) /\ price \in Seq(PriceRow)
  BY DEF Priced, RowsOK
<1> HIDE DEF row
<1>4. price' \in Seq(PriceRow) /\ RowsOf(price') = RowsOf(price) \cup {row}
  BY <1>2, <1>3, AppendedRows
<1>5. \A r \in RowsOf(price) : r.token \in DOMAIN market' /\ r.block <= block'
  BY <1>1, StoredRowsStayEarlier DEF RowsOK
<1>6. QED
  BY <1>1, <1>2, <1>4, <1>5

\* Every step of the indexer keeps the rows in order.
LEMMA RowsStayOK ==
  ASSUME TablesOK, SharesCounted, RowsOK, [DbNext]_db
  PROVE  RowsOK'
<1>1. TablesOK'
  BY TablesStayOK
<1>2. ASSUME Index
      PROVE  block' = block /\ tx' = tx + 1
  BY <1>2 DEF Index
<1>3. ASSUME UNCHANGED <<swap, liquidity, price>>,
             DOMAIN market \subseteq DOMAIN market', DOMAIN pool \subseteq DOMAIN pool',
             (block' = block /\ tx' = tx + 1) \/ (block' = block + 1 /\ tx' = 0)
      PROVE  RowsOK'
  BY <1>3, StoredRowsStayEarlier DEF RowsOK
<1>4. ASSUME NEW t \in Token, OpenMarket(t)
      PROVE  RowsOK'
  <2>1. Index /\ Priced(t, 1) /\ UNCHANGED <<swap, liquidity, pool>>
    BY <1>4 DEF OpenMarket
  <2>2. DOMAIN market' = DOMAIN market \cup {t}
    BY <1>4 DEF OpenMarket
  <2>3. DOMAIN market' \subseteq Token
    BY <1>1 DEF TablesOK
  <2>4. price' \in Seq(PriceRow) /\ \A r \in RowsOf(price') : r.token \in DOMAIN market' /\ r.block <= block'
    BY <2>1, <2>2, <2>3, PricedShape
  <2>5. QED
    BY <1>2, <2>1, <2>2, <2>4, StoredRowsStayEarlier DEF RowsOK
<1>5. ASSUME NEW t \in Token, NEW a \in Account, NEW is_buy \in BOOLEAN, NEW tok \in Amount, NEW quo \in Nat,
             Trade(t, a, is_buy, tok, quo)
      PROVE  RowsOK'
  <2>1. PICK moved \in PoolRow :
          /\ pool' = [u \in DOMAIN pool |-> IF u = t THEN moved ELSE pool[u]]
          /\ swap' = Append(swap, TradeRow(t, a, is_buy, tok, quo, moved))
          /\ TradeRow(t, a, is_buy, tok, quo, moved) \in SwapRow
    BY <1>5, TradeShape
  <2> DEFINE row == TradeRow(t, a, is_buy, tok, quo, moved)
  <2>2. row.token = t /\ row.block = block /\ row.tx = tx /\ row.market_type = market[t].market_type
    BY DEF TradeRow
  <2>3. Index /\ t \in DOMAIN market /\ Priced(t, market'[t].price) /\ UNCHANGED liquidity
    BY <1>5 DEF Trade
  <2>4. DOMAIN market' = DOMAIN market /\ DOMAIN pool' = DOMAIN pool
    BY <1>5, <2>1 DEF Trade
  <2>5. market'[t].price \in Nat /\ DOMAIN market' \subseteq Token
    BY <1>1, <2>3, <2>4 DEF TablesOK
  <2>6. price' \in Seq(PriceRow) /\ \A r \in RowsOf(price') : r.token \in DOMAIN market' /\ r.block <= block'
    BY <2>3, <2>4, <2>5, PricedShape
  <2> HIDE DEF row
  <2>7. swap' \in Seq(SwapRow) /\ RowsOf(swap') = RowsOf(swap) \cup {row}
    BY <2>1, AppendedRows DEF row, RowsOK
  <2>8. RowBefore(row, Now')
    BY <2>2, <2>3, NewRowEarlier
  <2>9. row.market_type = "DEX" => t \in DOMAIN pool
    BY <2>2, <2>3 DEF TablesOK
  <2>10. \A r \in RowsOf(swap') : /\ r.token \in DOMAIN market'
                                  /\ r.market_type = "DEX" => r.token \in DOMAIN pool'
                                  /\ RowBefore(r, Now')
    BY <1>2, <2>2, <2>3, <2>4, <2>7, <2>8, <2>9, StoredRowsStayEarlier DEF RowsOK
  <2>11. liquidity' \in Seq(LiquidityRow) /\ \A r \in RowsOf(liquidity') : r.token \in DOMAIN pool' /\ RowBefore(r, Now')
    BY <1>2, <2>3, <2>4, StoredRowsStayEarlier DEF RowsOK
  <2>12. QED
    BY <2>6, <2>7, <2>10, <2>11 DEF RowsOK
<1>6. ASSUME NEW t \in Token, NEW a \in Account, NEW kind \in {"mint", "burn"}, Provide(t, a, kind)
      PROVE  RowsOK'
  <2>1. PICK moved :
          /\ pool' = [pool EXCEPT ![t] = moved]
          /\ liquidity' = Append(liquidity, ProvideRow(t, a, kind, moved))
          /\ ProvideRow(t, a, kind, moved) \in LiquidityRow
    BY <1>6, ProvideShape
  <2> DEFINE row == ProvideRow(t, a, kind, moved)
  <2>2. row.token = t /\ row.block = block /\ row.tx = tx
    BY DEF ProvideRow
  <2>3. Index /\ t \in DOMAIN pool /\ UNCHANGED <<swap, price, market>> /\ DOMAIN pool' = DOMAIN pool
    BY <1>6, <2>1 DEF Provide
  <2> HIDE DEF row
  <2>4. liquidity' \in Seq(LiquidityRow) /\ RowsOf(liquidity') = RowsOf(liquidity) \cup {row}
    BY <2>1, AppendedRows DEF row, RowsOK
  <2>5. RowBefore(row, Now')
    BY <2>2, <2>3, NewRowEarlier
  <2>6. \A r \in RowsOf(liquidity') : r.token \in DOMAIN pool' /\ RowBefore(r, Now')
    BY <1>2, <2>2, <2>3, <2>4, <2>5, StoredRowsStayEarlier DEF RowsOK
  <2>7. QED
    BY <1>2, <2>3, <2>4, <2>6, StoredRowsStayEarlier DEF RowsOK
<1>7. CASE UNCHANGED db
  BY <1>7 DEF db, RowsOK, Now
<1>8. QED
  <2>1. \A tok \in Amount : tok \in Nat /\ tok \div 2 \in Nat
    BY AddressAssumption
  <2>2. CASE \E t \in Token, a \in Account, tok \in Amount : Buy(t, a, tok) \/ Sell(t, a, tok)
    BY <1>5, <2>1, <2>2 DEF Buy, Sell
  <2>3. CASE \E t \in Token, a \in Account, kind \in {"mint", "burn"} : Provide(t, a, kind)
    BY <1>6, <2>3
  <2>4. CASE \E t \in Token : OpenMarket(t)
    BY <1>4, <2>4
  <2>5. CASE \E t \in Token : Graduate(t)
    <3>1. PICK t \in Token : Graduate(t)
      BY <2>5
    <3>2. UNCHANGED <<swap, liquidity, price>> /\ Index
      BY <3>1 DEF Graduate
    <3>3. DOMAIN market \subseteq DOMAIN market' /\ DOMAIN pool \subseteq DOMAIN pool'
      BY <3>1 DEF Graduate
    <3>4. QED
      BY <1>2, <1>3, <3>2, <3>3
  <2>6. CASE \E t \in Token, a \in Account, nsfw \in BOOLEAN : CreateToken(t, a, nsfw)
    BY <1>2, <1>3, <2>6 DEF CreateToken
  <2>7. CASE Commit
    BY <1>3, <2>7 DEF Commit
  <2>8. QED
    BY <1>7, <2>2, <2>3, <2>4, <2>5, <2>6, <2>7 DEF DbNext

\* Every step of the indexer writes the reserves it leaves into its row.
LEMMA ReservesStayLast ==
  ASSUME TablesOK, SharesCounted, RowsOK, LastReserves, [DbNext]_db
  PROVE  LastReserves'
<1>1. \A t \in Token : t \notin DOMAIN pool => PoolRows(t) = {}
  BY DEF PoolRows, RowsOK
<1>2. ASSUME UNCHANGED <<swap, liquidity>>, DOMAIN pool \subseteq DOMAIN pool', DOMAIN pool' \subseteq Token,
             \A t \in DOMAIN pool : pool'[t] = pool[t]
      PROVE  LastReserves'
  <2>1. \A t \in Token : PoolRows(t)' = PoolRows(t)
    BY <1>2 DEF PoolRows
  <2>2. QED
    BY <1>1, <1>2, <2>1 DEF LastReserves
<1>3. ASSUME NEW t \in DOMAIN pool, NEW moved, NEW row, t \in Token,
             DOMAIN pool' = DOMAIN pool, DOMAIN pool \subseteq Token, pool'[t] = moved,
             \A u \in DOMAIN pool : u # t => pool'[u] = pool[u],
             row.block = block, row.tx = tx,
             row.rq = QuoteReserve(moved, t), row.rt = TokenReserve(moved, t),
             PoolRows(t)' = PoolRows(t) \cup {row},
             \A u \in DOMAIN pool : u # t => PoolRows(u)' = PoolRows(u)
      PROVE  LastReserves'
  <2>1. \A r \in PoolRows(t) : RowBefore(r, Now)
    BY DEF PoolRows, RowsOK
  <2>2. \A r \in PoolRows(t) : RowBefore(r, row)
    BY <1>3, <2>1 DEF RowBefore, Now
  <2>3. ASSUME NEW u \in DOMAIN pool', NEW r \in PoolRows(u)', \A q \in PoolRows(u)' : ~RowBefore(r, q)
        PROVE  r.rq = QuoteReserve(pool'[u], u) /\ r.rt = TokenReserve(pool'[u], u)
    <3>1. CASE u = t
      BY <1>3, <2>2, <2>3, <3>1
    <3>2. CASE u # t
      BY <1>3, <2>3, <3>2 DEF LastReserves
    <3>3. QED
      BY <3>1, <3>2
  <2>4. QED
    BY <2>3 DEF LastReserves
<1>4. ASSUME NEW t \in Token, NEW a \in Account, NEW is_buy \in BOOLEAN, NEW tok \in Amount, NEW quo \in Nat,
             Trade(t, a, is_buy, tok, quo)
      PROVE  LastReserves'
  <2>1. PICK moved \in PoolRow :
          /\ pool' = [u \in DOMAIN pool |-> IF u = t THEN moved ELSE pool[u]]
          /\ swap' = Append(swap, TradeRow(t, a, is_buy, tok, quo, moved))
          /\ TradeRow(t, a, is_buy, tok, quo, moved) \in SwapRow
    BY <1>4, TradeShape
  <2> DEFINE row == TradeRow(t, a, is_buy, tok, quo, moved)
  <2>2. /\ row.token = t /\ row.block = block /\ row.tx = tx /\ row.market_type = market[t].market_type
        /\ row.rq = QuoteReserve(moved, t) /\ row.rt = TokenReserve(moved, t)
    BY DEF TradeRow
  <2>3. t \in DOMAIN market /\ UNCHANGED liquidity
    BY <1>4 DEF Trade
  <2> HIDE DEF row
  <2>4. RowsOf(swap') = RowsOf(swap) \cup {row}
    BY <2>1, AppendedRows DEF row, RowsOK
  <2>5. DOMAIN pool \subseteq Token /\ DOMAIN pool' = DOMAIN pool
    BY <2>1 DEF TablesOK
  <2>6. \A u \in Token : u # t => PoolRows(u)' = PoolRows(u)
    BY <2>2, <2>3, <2>4 DEF PoolRows
  <2>7. CASE t \in DOMAIN pool
    <3>1. row.market_type = "DEX"
      BY <2>2, <2>7 DEF TablesOK
    <3>2. PoolRows(t)' = PoolRows(t) \cup {row}
      BY <2>2, <2>3, <2>4, <3>1 DEF PoolRows
    <3>3. pool'[t] = moved /\ \A u \in DOMAIN pool : u # t => pool'[u] = pool[u]
      BY <2>1, <2>7
    <3>4. \A u \in DOMAIN pool : u # t => PoolRows(u)' = PoolRows(u)
      BY <2>5, <2>6
    <3>5. QED
      BY <1>3, <2>2, <2>5, <2>7, <3>2, <3>3, <3>4
  <2>8. CASE t \notin DOMAIN pool
    <3>1. \A u \in DOMAIN pool : pool'[u] = pool[u] /\ u # t
      BY <2>1, <2>8
    <3>2. \A u \in DOMAIN pool : PoolRows(u)' = PoolRows(u)
      BY <2>5, <2>6, <3>1
    <3>3. QED
      BY <2>5, <3>1, <3>2 DEF LastReserves
  <2>9. QED
    BY <2>7, <2>8
<1>5. ASSUME NEW t \in Token, NEW a \in Account, NEW kind \in {"mint", "burn"}, Provide(t, a, kind)
      PROVE  LastReserves'
  <2>1. PICK moved :
          /\ pool' = [pool EXCEPT ![t] = moved]
          /\ liquidity' = Append(liquidity, ProvideRow(t, a, kind, moved))
          /\ ProvideRow(t, a, kind, moved) \in LiquidityRow
    BY <1>5, ProvideShape
  <2> DEFINE row == ProvideRow(t, a, kind, moved)
  <2>2. /\ row.token = t /\ row.block = block /\ row.tx = tx
        /\ row.rq = QuoteReserve(moved, t) /\ row.rt = TokenReserve(moved, t)
    BY DEF ProvideRow
  <2>3. t \in DOMAIN pool /\ UNCHANGED swap
    BY <1>5 DEF Provide
  <2> HIDE DEF row
  <2>4. RowsOf(liquidity') = RowsOf(liquidity) \cup {row}
    BY <2>1, AppendedRows DEF row, RowsOK
  <2>5. DOMAIN pool \subseteq Token /\ DOMAIN pool' = DOMAIN pool
    BY <2>1 DEF TablesOK
  <2>6. \A u \in Token : u # t => PoolRows(u)' = PoolRows(u)
    BY <2>2, <2>3, <2>4 DEF PoolRows
  <2>7. PoolRows(t)' = PoolRows(t) \cup {row}
    BY <2>2, <2>3, <2>4 DEF PoolRows
  <2>8. pool'[t] = moved /\ \A u \in DOMAIN pool : u # t => pool'[u] = pool[u]
    BY <2>1, <2>3
  <2>9. \A u \in DOMAIN pool : u # t => PoolRows(u)' = PoolRows(u)
    BY <2>5, <2>6
  <2>10. QED
    BY <1>3, <2>2, <2>3, <2>5, <2>7, <2>8, <2>9
<1>6. ASSUME NEW t \in Token, Graduate(t)
      PROVE  LastReserves'
  <2>1. t \notin DOMAIN pool
    BY <1>6 DEF Graduate, TablesOK
  <2>2. DOMAIN pool' = DOMAIN pool \cup {t} /\ \A u \in DOMAIN pool : pool'[u] = pool[u]
    BY <1>6, <2>1 DEF Graduate
  <2>3. UNCHANGED <<swap, liquidity>> /\ DOMAIN pool' \subseteq Token
    BY <1>6, <2>2 DEF Graduate, TablesOK
  <2>4. QED
    BY <1>2, <2>2, <2>3
<1>7. ASSUME UNCHANGED <<swap, liquidity, pool>>
      PROVE  LastReserves'
  <2>1. DOMAIN pool \subseteq Token
    BY DEF TablesOK
  <2>2. QED
    BY <1>2, <1>7, <2>1
<1>8. QED
  <2>1. \A tok \in Amount : tok \in Nat /\ tok \div 2 \in Nat
    BY AddressAssumption
  <2>2. CASE \E t \in Token, a \in Account, tok \in Amount : Buy(t, a, tok) \/ Sell(t, a, tok)
    BY <1>4, <2>1, <2>2 DEF Buy, Sell
  <2>3. CASE \E t \in Token, a \in Account, kind \in {"mint", "burn"} : Provide(t, a, kind)
    BY <1>5, <2>3
  <2>4. CASE \E t \in Token : Graduate(t)
    BY <1>6, <2>4
  <2>5. CASE \/ UNCHANGED db \/ Commit
             \/ \E t \in Token : OpenMarket(t) \/ \E a \in Account, nsfw \in BOOLEAN : CreateToken(t, a, nsfw)
    BY <1>7, <2>5 DEF db, Commit, OpenMarket, CreateToken
  <2>6. QED
    BY <2>2, <2>3, <2>4, <2>5 DEF DbNext

\* A table is indexed from one, and each index has a row.
LEMMA RowIndices ==
  ASSUME NEW S, NEW s \in Seq(S)
  PROVE  1..Len(s) = DOMAIN s /\ \A i \in DOMAIN s : s[i] \in S /\ s[i] \in RowsOf(s)
BY DEF RowsOf

\* What is true when the tables hold one token.
LEMMA DbStarts == DbInit => DbInv
<1> SUFFICES ASSUME DbInit
             PROVE  DbInv
  OBVIOUS
<1> USE AddressAssumption
<1>1. PICK first \in Token, a \in Account, m \in MarketType :
        /\ block = 1
        /\ tx = 0
        /\ token = [t \in {first} |-> [creator |-> a, created_at |-> 0, is_nsfw |-> FALSE]]
        /\ market = [t \in {first} |-> [market_type |-> m, price |-> 2]]
        /\ pool = [t \in IF m = "DEX" THEN {first} ELSE {} |-> NewPool(t)]
        /\ swap = <<>>
        /\ liquidity = <<>>
        /\ price = <<[token |-> first, price |-> 2, block |-> 0, tx |-> 0]>>
        /\ balance = [t \in Token |-> [b \in Account |-> 0]]
        /\ lp = [t \in Token |-> [b \in Account |-> 0]]
  BY DEF DbInit
<1>2. DOMAIN market = {first} /\ DOMAIN token = {first} /\ market[first].market_type = m
  BY <1>1
<1>3. DOMAIN pool = {t \in DOMAIN market : market[t].market_type = "DEX"}
  BY <1>1
<1>4. \A t \in DOMAIN pool : pool[t] = NewPool(t) /\ t \in Token
  BY <1>1
<1>5. TablesOK
  <2>1. Clock \in Nat /\ 0 \in 0..Clock
    BY <1>1, SecondGrows DEF Clock
  <2>2. \A t \in DOMAIN token : token[t] \in [creator : Account, created_at : 0..Clock, is_nsfw : BOOLEAN]
    BY <1>1, <2>1
  <2>3. \A t \in DOMAIN market : market[t] \in [market_type : MarketType, price : Nat]
    BY <1>1
  <2>4. \A t \in DOMAIN pool : /\ pool[t] \in PoolRow
                               /\ pool[t].token0 = NewPool(t).token0
                               /\ pool[t].token1 = NewPool(t).token1
    BY <1>4, NewPoolShape
  <2>5. block \in 1..MaxBlock + 1 /\ tx \in Nat
    BY <1>1
  <2>6. balance \in [Token -> [Account -> Nat]] /\ lp \in [Token -> [Account -> Nat]]
    BY <1>1
  <2>7. QED
    BY <1>2, <1>3, <2>2, <2>3, <2>4, <2>5, <2>6 DEF TablesOK
<1>6. SharesCounted
  <2>1. \A t \in Token : Shares(t) = {}
    BY <1>1 DEF Shares
  <2>2. \A t \in Token : IsFiniteSet(Shares(t)) /\ Cardinality(Shares(t)) = 0
    BY <2>1, FS_EmptySet
  <2>3. \A t \in DOMAIN pool : pool[t].total_supply = 2
    BY <1>4, NewPoolShape
  <2>4. ASSUME NEW t \in Token, t \in DOMAIN pool
        PROVE  pool[t].total_supply = 2 + Cardinality(Shares(t))
    <3>1. pool[t].total_supply = 2 /\ Cardinality(Shares(t)) = 0
      BY <2>2, <2>3, <2>4
    <3>2. QED
      BY <3>1
  <2>5. QED
    BY <2>1, <2>2, <2>4, Zenon DEF SharesCounted
<1>7. RowsOf(swap) = {} /\ RowsOf(liquidity) = {}
  BY <1>1 DEF RowsOf
<1>8. RowsOK
  <2> DEFINE row == [token |-> first, price |-> 2, block |-> 0, tx |-> 0]
  <2>1. row \in PriceRow /\ price = <<row>> /\ row.token = first /\ row.block <= block
    BY <1>1 DEF PriceRow
  <2> HIDE DEF row
  <2>2. price \in Seq(PriceRow) /\ RowsOf(price) = {row}
    BY <2>1 DEF RowsOf
  <2>3. swap \in Seq(SwapRow) /\ liquidity \in Seq(LiquidityRow)
    BY <1>1
  <2>4. QED
    BY <1>2, <1>7, <2>1, <2>2, <2>3 DEF RowsOK
<1>9. LastReserves
  BY <1>7 DEF LastReserves, PoolRows
<1>10. QED
  BY <1>5, <1>6, <1>8, <1>9 DEF DbInv

\* The tables stay in order for any number of tokens, accounts, blocks, trades and
\* changes of liquidity: markets, pools, pool shares, rows and reserves agree after every
\* row the indexer writes (the tables as the statements of
\* controllers/token, controllers/trading and controllers/terminal read them).
THEOREM DbInvariance == DbSpec => []DbInv
<1>1. DbInv /\ [DbNext]_db => DbInv'
  BY TablesStayOK, SharesStayCounted, RowsStayOK, ReservesStayLast DEF DbInv
<1>2. QED
  BY <1>1, DbStarts, PTL DEF DbSpec

\* The types are part of the invariant.
LEMMA TypesFollow == DbInv => DbTypeOK
<1> SUFFICES ASSUME DbInv
             PROVE  DbTypeOK
  OBVIOUS
<1>1. TablesOK /\ RowsOK
  BY DEF DbInv
<1>2. block \in Nat \ {0} /\ tx \in Nat /\ block \in 1..MaxBlock + 1
  BY <1>1, AddressAssumption DEF TablesOK
<1>3. ASSUME NEW i \in 1..Len(swap)
      PROVE  swap[i] \in [token : DOMAIN market, account : Account, is_buy : BOOLEAN, quote : Nat,
                          tok : Amount, market_type : MarketType, block : 1..block, tx : Nat,
                          rq : Nat, rt : Nat]
  <2> DEFINE r == swap[i]
  <2>1. r \in SwapRow /\ r \in RowsOf(swap)
    BY <1>1, RowIndices DEF RowsOK
  <2>2. r.token \in DOMAIN market /\ RowBefore(r, Now)
    BY <1>1, <2>1 DEF RowsOK
  <2> HIDE DEF r
  <2>3. r.block \in Nat \ {0} /\ r.block <= block
    BY <1>2, <2>1, <2>2 DEF SwapRow, RowBefore, Now
  <2>4. r.block \in 1..block
    BY <1>2, <2>3
  <2>5. r \in [token : DOMAIN market, account : Account, is_buy : BOOLEAN, quote : Nat,
               tok : Amount, market_type : MarketType, block : 1..block, tx : Nat,
               rq : Nat, rt : Nat]
    BY <2>1, <2>2, <2>4 DEF SwapRow
  <2>6. QED
    BY <2>5 DEF r
<1>4. ASSUME NEW i \in 1..Len(liquidity)
      PROVE  liquidity[i] \in [kind : {"mint", "burn"}, token : DOMAIN pool, account : Account, quote : Nat,
                               tok : Nat, block : 1..block, tx : Nat, rq : Nat, rt : Nat]
  <2> DEFINE r == liquidity[i]
  <2>1. r \in LiquidityRow /\ r \in RowsOf(liquidity)
    BY <1>1, RowIndices DEF RowsOK
  <2>2. r.token \in DOMAIN pool /\ RowBefore(r, Now)
    BY <1>1, <2>1 DEF RowsOK
  <2> HIDE DEF r
  <2>3. r.block \in Nat \ {0} /\ r.block <= block
    BY <1>2, <2>1, <2>2 DEF LiquidityRow, RowBefore, Now
  <2>4. r.block \in 1..block
    BY <1>2, <2>3
  <2>5. r \in [kind : {"mint", "burn"}, token : DOMAIN pool, account : Account, quote : Nat,
               tok : Nat, block : 1..block, tx : Nat, rq : Nat, rt : Nat]
    BY <2>1, <2>2, <2>4 DEF LiquidityRow
  <2>6. QED
    BY <2>5 DEF r
<1>5. ASSUME NEW i \in 1..Len(price)
      PROVE  price[i] \in [token : DOMAIN market, price : Nat, block : 0..block, tx : Nat]
  <2> DEFINE r == price[i]
  <2>1. r \in PriceRow /\ r \in RowsOf(price)
    BY <1>1, RowIndices DEF RowsOK
  <2>2. r.token \in DOMAIN market /\ r.block <= block
    BY <1>1, <2>1 DEF RowsOK
  <2> HIDE DEF r
  <2>3. r.block \in 0..block
    BY <1>2, <2>1, <2>2 DEF PriceRow
  <2>4. r \in [token : DOMAIN market, price : Nat, block : 0..block, tx : Nat]
    BY <2>1, <2>2, <2>3 DEF PriceRow
  <2>5. QED
    BY <2>4 DEF r
<1>6. \A t \in DOMAIN pool : {pool[t].reserve0, pool[t].reserve1, pool[t].total_supply} \subseteq Nat
  BY <1>1 DEF TablesOK, PoolRow
<1>7. DOMAIN pool \subseteq DOMAIN market
  BY <1>1 DEF TablesOK
<1>8. QED
  BY <1>1, <1>2, <1>3, <1>4, <1>5, <1>6, <1>7 DEF DbTypeOK, TablesOK

\* Every table has its type after every step of the indexer (the tables behind
\* controllers/token, controllers/trading and controllers/terminal).
THEOREM DbTypeCorrect == DbSpec => []DbTypeOK
BY TypesFollow, DbInvariance, PTL

-----------------------------------------------------------------------------
(* The feed *)

\* Blocks of the rows.
LEMMA BlocksOfRows ==
  ASSUME DbInv
  PROVE  /\ BalanceBlocks = {r.block : r \in RowsOf(swap) \cup RowsOf(liquidity)}
         /\ BalanceBlocks \subseteq 1..block
         /\ block \in Nat \ {0} /\ tx \in Nat
<1>1. block \in Nat \ {0} /\ tx \in Nat
  BY AddressAssumption DEF DbInv, TablesOK
<1>2. RowsOf(swap) \subseteq SwapRow /\ RowsOf(liquidity) \subseteq LiquidityRow
  BY RowsTyped DEF DbInv, RowsOK
<1>3. \A r \in RowsOf(swap) \cup RowsOf(liquidity) :
        r.block \in Nat \ {0} /\ RowBefore(r, Now)
  BY <1>2 DEF DbInv, RowsOK, SwapRow, LiquidityRow
<1>4. \A r \in RowsOf(swap) \cup RowsOf(liquidity) : r.block \in 1..block
  BY <1>1, <1>3 DEF RowBefore, Now
<1>5. BalanceBlocks = {r.block : r \in RowsOf(swap) \cup RowsOf(liquidity)}
  BY DEF BalanceBlocks, RowsOf
<1>6. QED
  BY <1>1, <1>4, <1>5

\* get_latest_indexed_block is the greatest block with a row, if there is one.
LatestIsGreatest ==
    /\ BalanceBlocks \subseteq Nat
    /\ BalanceBlocks = {} => LatestBlock = Absent
    /\ BalanceBlocks # {} => LatestBlock \in BalanceBlocks /\ \A b \in BalanceBlocks : b <= LatestBlock

\* The latest block is the greatest, if there is one.
LEMMA LatestBlockFound == DbInv => LatestIsGreatest
<1> SUFFICES ASSUME DbInv
             PROVE  LatestIsGreatest
  OBVIOUS
<1>1. BalanceBlocks \subseteq 0..block /\ BalanceBlocks \subseteq Nat /\ block \in Nat
  BY BlocksOfRows
<1>2. BalanceBlocks = {} => LatestBlock = Absent
  BY DEF LatestBlock
<1>3. ASSUME BalanceBlocks # {}
      PROVE  LatestBlock \in BalanceBlocks /\ \A b \in BalanceBlocks : b <= LatestBlock
  <2>1. \E b \in BalanceBlocks : \A c \in BalanceBlocks : c <= b
    BY <1>1, <1>3, GreatestElement
  <2>2. LatestBlock = CHOOSE b \in BalanceBlocks : \A c \in BalanceBlocks : c <= b
    BY <1>3 DEF LatestBlock
  <2>3. QED
    BY <2>1, <2>2
<1>4. QED
  BY <1>1, <1>2, <1>3 DEF LatestIsGreatest

\* What the indexer adds belongs to the block it is indexing.
LEMMA RowsGrow ==
  ASSUME DbInv, [DbNext]_db
  PROVE  /\ RowsOf(swap) \subseteq RowsOf(swap') /\ RowsOf(liquidity) \subseteq RowsOf(liquidity')
         /\ \A r \in RowsOf(swap') \ RowsOf(swap) : r.block = block
         /\ \A r \in RowsOf(liquidity') \ RowsOf(liquidity) : r.block = block
         /\ DOMAIN pool \subseteq DOMAIN pool'
<1> DEFINE Goal == 
         /\ RowsOf(swap) \subseteq RowsOf(swap') /\ RowsOf(liquidity) \subseteq RowsOf(liquidity')
         /\ \A r \in RowsOf(swap') \ RowsOf(swap) : r.block = block
         /\ \A r \in RowsOf(liquidity') \ RowsOf(liquidity) : r.block = block
         /\ DOMAIN pool \subseteq DOMAIN pool'
<1>1. TablesOK /\ RowsOK
  BY DEF DbInv
<1>2. ASSUME NEW t \in Token, NEW a \in Account, NEW is_buy \in BOOLEAN, NEW tok \in Amount, NEW quo \in Nat,
             Trade(t, a, is_buy, tok, quo)
      PROVE  Goal
  <2>1. PICK moved \in PoolRow :
          /\ pool' = [u \in DOMAIN pool |-> IF u = t THEN moved ELSE pool[u]]
          /\ swap' = Append(swap, TradeRow(t, a, is_buy, tok, quo, moved))
          /\ TradeRow(t, a, is_buy, tok, quo, moved) \in SwapRow
    BY <1>1, <1>2, TradeShape
  <2> DEFINE row == TradeRow(t, a, is_buy, tok, quo, moved)
  <2>2. row.block = block /\ UNCHANGED liquidity
    BY <1>2 DEF TradeRow, Trade
  <2> HIDE DEF row
  <2>3. RowsOf(swap') = RowsOf(swap) \cup {row}
    BY <1>1, <2>1, AppendedRows DEF row, RowsOK
  <2>4. QED
    BY <2>1, <2>2, <2>3
<1>3. ASSUME NEW t \in Token, NEW a \in Account, NEW kind \in {"mint", "burn"}, Provide(t, a, kind)
      PROVE  Goal
  <2>1. PICK moved :
          /\ pool' = [pool EXCEPT ![t] = moved]
          /\ liquidity' = Append(liquidity, ProvideRow(t, a, kind, moved))
          /\ ProvideRow(t, a, kind, moved) \in LiquidityRow
    BY <1>1, <1>3, ProvideShape
  <2> DEFINE row == ProvideRow(t, a, kind, moved)
  <2>2. row.block = block /\ UNCHANGED swap
    BY <1>3 DEF ProvideRow, Provide
  <2> HIDE DEF row
  <2>3. RowsOf(liquidity') = RowsOf(liquidity) \cup {row}
    BY <1>1, <2>1, AppendedRows DEF row, RowsOK
  <2>4. QED
    BY <2>1, <2>2, <2>3
<1>4. ASSUME UNCHANGED <<swap, liquidity>>, DOMAIN pool \subseteq DOMAIN pool'
      PROVE  Goal
  BY <1>4
<1>5. Goal
  <2>1. \A tok \in Amount : tok \in Nat /\ tok \div 2 \in Nat
    BY AddressAssumption
  <2>2. CASE \E t \in Token, a \in Account, tok \in Amount : Buy(t, a, tok) \/ Sell(t, a, tok)
    BY <1>2, <2>1, <2>2 DEF Buy, Sell
  <2>3. CASE \E t \in Token, a \in Account, kind \in {"mint", "burn"} : Provide(t, a, kind)
    BY <1>3, <2>3
  <2>4. CASE \E t \in Token : Graduate(t)
    <3>1. UNCHANGED <<swap, liquidity>> /\ DOMAIN pool \subseteq DOMAIN pool'
      BY <2>4 DEF Graduate
    <3>2. QED
      BY <1>4, <3>1
  <2>5. CASE \/ UNCHANGED db \/ Commit
             \/ \E t \in Token : OpenMarket(t) \/ \E a \in Account, nsfw \in BOOLEAN : CreateToken(t, a, nsfw)
    <3>1. UNCHANGED <<swap, liquidity, pool>>
      BY <2>5 DEF db, Commit, OpenMarket, CreateToken
    <3>2. QED
      BY <1>4, <3>1
  <2>6. QED
    BY <2>2, <2>3, <2>4, <2>5 DEF DbNext
<1>6. QED
  BY <1>5

\* A market in a pool stays there.
LEMMA PoolsStay ==
  ASSUME DbInv, DbInv', [DbNext]_db
  PROVE  /\ \A t \in DOMAIN pool : market[t].market_type = "DEX" /\ market'[t].market_type = "DEX"
         /\ \A t \in DOMAIN market : market[t].market_type = "DEX" => t \in DOMAIN pool
BY RowsGrow DEF DbInv, TablesOK

\* The rows from which get_events makes the events of blocks from .. to.
SwapsShown(from, to) ==
    {r \in RowsOf(swap) : InBlocks(r, from, to) /\ r.market_type = "DEX"}
LiquidityShown(kind, from, to) ==
    {r \in RowsOf(liquidity) : r.kind = kind /\ InBlocks(r, from, to) /\ market[r.token].market_type = "DEX"}

\* get_events makes one event of each of these rows.
EventsAreOfRows ==
    \A from, to \in Nat :
        EventSet(from, to) =
            {SwapEvent(r) : r \in SwapsShown(from, to)}
            \cup {LiquidityEvent("join", r) : r \in LiquidityShown("mint", from, to)}
            \cup {LiquidityEvent("exit", r) : r \in LiquidityShown("burn", from, to)}

\* The feed is made of these rows.
LEMMA EventRows == EventsAreOfRows
<1> SUFFICES ASSUME NEW from \in Nat, NEW to \in Nat
             PROVE  EventSet(from, to) =
                      {SwapEvent(r) : r \in SwapsShown(from, to)}
                      \cup {LiquidityEvent("join", r) : r \in LiquidityShown("mint", from, to)}
                      \cup {LiquidityEvent("exit", r) : r \in LiquidityShown("burn", from, to)}
  BY DEF EventsAreOfRows
<1>1. {SwapEvent(swap[i]) : i \in FeedSwaps(from, to)} = {SwapEvent(r) : r \in SwapsShown(from, to)}
  BY DEF FeedSwaps, SwapsShown, RowsOf
<1>2. \A kind : {LiquidityEvent("join", liquidity[i]) : i \in FeedLiquidity(kind, from, to)}
        = {LiquidityEvent("join", r) : r \in LiquidityShown(kind, from, to)}
  BY DEF FeedLiquidity, LiquidityShown, RowsOf
<1>3. \A kind : {LiquidityEvent("exit", liquidity[i]) : i \in FeedLiquidity(kind, from, to)}
        = {LiquidityEvent("exit", r) : r \in LiquidityShown(kind, from, to)}
  BY DEF FeedLiquidity, LiquidityShown, RowsOf
<1>4. QED
  BY <1>1, <1>2, <1>3 DEF EventSet, FeedMints, FeedBurns

\* A range is not delivered if one of these rows has no price.
LEMMA UnpricedRows ==
  \A from, to : Unpriced(from, to) <=> \E r \in SwapsShown(from, to) : PriceFails(r)
BY DEF Unpriced, FeedSwaps, SwapsShown, RowsOf

\* The rows of a sealed block are not added to, and what they say stays.
LEMMA SealedRowsStand ==
  ASSUME DbInv, DbInv', [DbNext]_db, NEW b \in 1..Sealed
  PROVE  /\ SwapsShown(b, b)' = SwapsShown(b, b)
         /\ \A kind : LiquidityShown(kind, b, b)' = LiquidityShown(kind, b, b)
         /\ \A r \in SwapsShown(b, b) : SwapEvent(r)' = SwapEvent(r)
<1>1. block \in Nat /\ b \in Nat /\ b < block
  BY BlocksOfRows DEF Sealed
<1>2. \A r : InBlocks(r, b, b) => r.block # block
  BY <1>1 DEF InBlocks
<1>3. SwapsShown(b, b)' = SwapsShown(b, b)
  BY <1>2, RowsGrow DEF SwapsShown
<1>4. \A r \in RowsOf(liquidity) : r.token \in DOMAIN pool
  BY DEF DbInv, RowsOK
<1>5. \A kind : LiquidityShown(kind, b, b)' = LiquidityShown(kind, b, b)
  BY <1>2, <1>4, RowsGrow, PoolsStay DEF LiquidityShown
<1>6. ASSUME NEW r \in SwapsShown(b, b)
      PROVE  SwapEvent(r)' = SwapEvent(r)
  <2>1. r.token \in DOMAIN pool /\ r.token \in DOMAIN pool'
    BY RowsGrow DEF SwapsShown, DbInv, RowsOK
  <2>2. QED
    BY <2>1 DEF SwapEvent
<1>7. QED
  BY <1>3, <1>5, <1>6

\* The events of a sealed block are the same after a step of the indexer.
LEMMA SealedEventsStand ==
  ASSUME DbInv, DbInv', EventsAreOfRows, EventsAreOfRows', [DbNext]_db, NEW b \in 1..Sealed
  PROVE  EventSet(b, b)' = EventSet(b, b)
<1>1. {SwapEvent(r) : r \in SwapsShown(b, b)}' = {SwapEvent(r) : r \in SwapsShown(b, b)}
  BY SealedRowsStand
<1>2. {LiquidityEvent("join", r) : r \in LiquidityShown("mint", b, b)}'
      = {LiquidityEvent("join", r) : r \in LiquidityShown("mint", b, b)}
  BY SealedRowsStand
<1>3. {LiquidityEvent("exit", r) : r \in LiquidityShown("burn", b, b)}'
      = {LiquidityEvent("exit", r) : r \in LiquidityShown("burn", b, b)}
  BY SealedRowsStand
<1>4. b \in Nat
  OBVIOUS
<1>5. QED
  BY <1>1, <1>2, <1>3, <1>4 DEF EventsAreOfRows

\* A step of the indexer leaves the latest block or moves it on.
LEMMA LatestNeverFalls ==
  ASSUME DbInv, LatestIsGreatest, LatestIsGreatest', [DbNext]_db
  PROVE  LatestBlock' >= LatestBlock
<1>1. BalanceBlocks = {r.block : r \in RowsOf(swap) \cup RowsOf(liquidity)}
  BY DEF BalanceBlocks, RowsOf
<1>2. BalanceBlocks' = {r.block : r \in RowsOf(swap') \cup RowsOf(liquidity')}
  BY DEF BalanceBlocks, RowsOf
<1>3. BalanceBlocks \subseteq BalanceBlocks'
  BY <1>1, <1>2, RowsGrow
<1>4. CASE BalanceBlocks = {}
  <2>1. LatestBlock = -1
    BY <1>4 DEF LatestIsGreatest, Absent
  <2>2. LatestBlock' \in Nat \/ LatestBlock' = -1
    BY DEF LatestIsGreatest, Absent
  <2>3. QED
    BY <2>1, <2>2
<1>5. CASE BalanceBlocks # {}
  <2>1. LatestBlock \in BalanceBlocks' /\ LatestBlock \in Nat
    BY <1>3, <1>5 DEF LatestIsGreatest
  <2>2. LatestBlock <= LatestBlock' /\ LatestBlock' \in Nat
    BY <2>1 DEF LatestIsGreatest
  <2>3. QED
    BY <2>1, <2>2
<1>6. QED
  BY <1>4, <1>5

\* A block with events is not beyond the latest one.
LEMMA EventsAreInBlocks ==
  ASSUME DbInv, NEW b \in 1..Sealed, EventSet(b, b) # {}
  PROVE  b <= LatestBlock
<1>1. \E r \in RowsOf(swap) \cup RowsOf(liquidity) : InBlocks(r, b, b)
  <2>1. b \in Nat
    OBVIOUS
  <2>2. QED
    BY <2>1, EventRows DEF EventsAreOfRows, SwapsShown, LiquidityShown
<1>2. PICK r \in RowsOf(swap) \cup RowsOf(liquidity) : InBlocks(r, b, b)
  BY <1>1
<1>3. r.block \in BalanceBlocks /\ r.block \in Nat /\ b \in Nat
  BY BlocksOfRows
<1>4. r.block = b
  BY <1>2, <1>3 DEF InBlocks
<1>5. QED
  BY <1>3, <1>4, LatestBlockFound DEF LatestIsGreatest

\* How the feed is made of the tables.
FeedView == EventsAreOfRows /\ LatestIsGreatest

\* What the feed says of a sealed block never changes and its latest block never falls,
\* for any number of tokens, blocks and events (get_events, get_latest_indexed_block).
THEOREM FeedStands == DbSpec => FeedFrozen
<1>1. DbInv /\ DbInv' /\ FeedView /\ FeedView' /\ [DbNext]_db =>
        [/\ \A b \in 1..Sealed : GetEvents(b, b)' = GetEvents(b, b)
         /\ LatestBlock' >= LatestBlock
         /\ \A b \in 1..Sealed : EventSet(b, b) # {} => b <= LatestBlock]_db
  <2> SUFFICES ASSUME DbInv, DbInv', FeedView, FeedView', [DbNext]_db
               PROVE  /\ \A b \in 1..Sealed : GetEvents(b, b)' = GetEvents(b, b)
                      /\ LatestBlock' >= LatestBlock
                      /\ \A b \in 1..Sealed : EventSet(b, b) # {} => b <= LatestBlock
    OBVIOUS
  <2>1. ASSUME NEW b \in 1..Sealed
        PROVE  GetEvents(b, b)' = GetEvents(b, b)
    <3>1. EventSet(b, b)' = EventSet(b, b)
      BY SealedEventsStand DEF FeedView
    <3>2. Events(b, b)' = Events(b, b)
      BY <3>1 DEF Events
    <3>3. SwapsShown(b, b)' = SwapsShown(b, b)
      BY SealedRowsStand
    <3>4. /\ Unpriced(b, b) <=> \E r \in SwapsShown(b, b) : PriceFails(r)
          /\ Unpriced(b, b)' <=> \E r \in SwapsShown(b, b)' : PriceFails(r)
      <4>1. Unpriced(b, b) <=> \E r \in SwapsShown(b, b) : PriceFails(r)
        BY UnpricedRows
      <4>2. Unpriced(b, b)' <=> \E r \in SwapsShown(b, b)' : PriceFails(r)
        BY DEF Unpriced, FeedSwaps, SwapsShown, RowsOf
      <4>3. QED
        BY <4>1, <4>2
    <3>5. QED
      BY <3>2, <3>3, <3>4 DEF GetEvents
  <2>2. QED
    BY <2>1, LatestNeverFalls, EventsAreInBlocks DEF FeedView
<1>2. DbInv => FeedView
  BY EventRows, LatestBlockFound DEF FeedView
<1>3. QED
  BY <1>1, <1>2, DbInvariance, PTL DEF DbSpec, FeedFrozen

-----------------------------------------------------------------------------
(* The pairs of the feed *)

\* Event e is made of row r of the pool of t.
EventOf(e, t, r) ==
    /\ t \in DOMAIN pool /\ r \in PoolRows(t)
    /\ e.pair_id = PoolId(t) /\ e.block = r.block /\ e.txn_index = r.tx
    /\ e.reserve0 = (IF QuoteIsAsset0(t) THEN r.rq ELSE r.rt)
    /\ e.reserve1 = (IF QuoteIsAsset0(t) THEN r.rt ELSE r.rq)
    /\ e.kind = "swap" => r \in SwapRow /\ r.token = t /\ e = SwapEvent(r)

\* The fields of a swap event that its row and pool fill.
LEMMA SwapEventFields ==
  ASSUME NEW r, r.token \in DOMAIN pool
  PROVE  LET e == SwapEvent(r) IN
         /\ e.kind = "swap" /\ e.pair_id = PoolId(r.token) /\ e.block = r.block /\ e.txn_index = r.tx
         /\ e.reserve0 = (IF QuoteIsAsset0(r.token) THEN r.rq ELSE r.rt)
         /\ e.reserve1 = (IF QuoteIsAsset0(r.token) THEN r.rt ELSE r.rq)
BY DEF SwapEvent

\* The fields of a join or exit that its row and pool fill.
LEMMA LiquidityEventFields ==
  ASSUME NEW r, NEW kind
  PROVE  LET e == LiquidityEvent(kind, r) IN
         /\ e.kind = kind /\ e.pair_id = PoolId(r.token) /\ e.block = r.block /\ e.txn_index = r.tx
         /\ e.reserve0 = (IF QuoteIsAsset0(r.token) THEN r.rq ELSE r.rt)
         /\ e.reserve1 = (IF QuoteIsAsset0(r.token) THEN r.rt ELSE r.rq)
BY DEF LiquidityEvent

\* Every event is made of a row of a pool.
LEMMA EventsHaveRows ==
  ASSUME DbInv, NEW from \in Nat, NEW to \in Nat, NEW e \in EventSet(from, to)
  PROVE  \E t \in DOMAIN pool : \E r \in PoolRows(t) : EventOf(e, t, r)
<1>1. CASE \E r \in SwapsShown(from, to) : e = SwapEvent(r)
  <2>1. PICK r \in SwapsShown(from, to) : e = SwapEvent(r)
    BY <1>1
  <2>2. r \in SwapRow /\ r.token \in DOMAIN pool /\ r \in PoolRows(r.token)
    BY RowsTyped DEF SwapsShown, PoolRows, DbInv, RowsOK
  <2>3. EventOf(e, r.token, r)
    BY <2>1, <2>2, SwapEventFields DEF EventOf
  <2>4. QED
    BY <2>2, <2>3
<1>2. ASSUME NEW kind, NEW k \in {"join", "exit"}, NEW r \in LiquidityShown(kind, from, to), e = LiquidityEvent(k, r)
      PROVE  \E t \in DOMAIN pool : \E q \in PoolRows(t) : EventOf(e, t, q)
  <2>1. r.token \in DOMAIN pool /\ r \in PoolRows(r.token)
    BY DEF LiquidityShown, PoolRows, DbInv, RowsOK
  <2>2. e.kind # "swap"
    BY <1>2, LiquidityEventFields
  <2>3. EventOf(e, r.token, r)
    BY <1>2, <2>1, <2>2, LiquidityEventFields DEF EventOf
  <2>4. QED
    BY <2>1, <2>3
<1>3. QED
  BY <1>1, <1>2, EventRows DEF EventsAreOfRows

\* Every row of a pool is an event of the whole feed once its block is committed.
LEMMA RowsHaveEvents ==
  ASSUME DbInv, Committed, NEW t \in DOMAIN pool, NEW r \in PoolRows(t)
  PROVE  \E e \in EventSet(1, MaxBlock) :
            e.pair_id = PoolId(t) /\ e.block = r.block /\ e.txn_index = r.tx
<1>1. MaxBlock \in Nat /\ block \in 1..MaxBlock + 1 /\ tx = 0
  BY AddressAssumption DEF DbInv, TablesOK, Committed
<1>2. r \in SwapRow \cup LiquidityRow /\ r.token = t /\ RowBefore(r, Now)
  BY RowsTyped DEF PoolRows, DbInv, RowsOK
<1>3. r.block \in Nat \ {0} /\ r.tx \in Nat
  BY <1>2 DEF SwapRow, LiquidityRow
<1>4. InBlocks(r, 1, MaxBlock)
  BY <1>1, <1>2, <1>3 DEF RowBefore, Now, InBlocks
<1>5. CASE r \in RowsOf(swap) /\ r.market_type = "DEX"
  <2>1. SwapEvent(r) \in EventSet(1, MaxBlock)
    BY <1>1, <1>4, <1>5, EventRows DEF EventsAreOfRows, SwapsShown
  <2>2. QED
    BY <1>2, <2>1, SwapEventFields
<1>6. CASE r \in RowsOf(liquidity)
  <2>1. r.kind \in {"mint", "burn"}
    <3>1. liquidity \in Seq(LiquidityRow)
      BY DEF DbInv, RowsOK
    <3>2. r \in LiquidityRow
      BY <1>6, <3>1, RowsTyped
    <3>3. QED
      BY <3>2 DEF LiquidityRow
  <2>2. market[r.token].market_type = "DEX"
    BY <1>2 DEF DbInv, TablesOK
  <2>3. r \in LiquidityShown(r.kind, 1, MaxBlock)
    BY <1>4, <1>6, <2>2 DEF LiquidityShown
  <2>4. 1 \in Nat /\ MaxBlock \in Nat
    BY <1>1
  <2>5. /\ {LiquidityEvent("join", q) : q \in LiquidityShown("mint", 1, MaxBlock)} \subseteq EventSet(1, MaxBlock)
        /\ {LiquidityEvent("exit", q) : q \in LiquidityShown("burn", 1, MaxBlock)} \subseteq EventSet(1, MaxBlock)
    BY <2>4, EventRows DEF EventsAreOfRows
  <2>6. \E k \in {"join", "exit"} : LiquidityEvent(k, r) \in EventSet(1, MaxBlock)
    BY <2>1, <2>3, <2>5
  <2>7. QED
    BY <1>2, <2>6, LiquidityEventFields
<1>7. QED
  BY <1>5, <1>6 DEF PoolRows

\* The pair of an event is the pool of its token, and no other.
LEMMA PairIsThePools ==
  ASSUME DbInv, NEW t \in DOMAIN pool, NEW e, e.pair_id = PoolId(t)
  PROVE  /\ Cardinality(GetPair(e.pair_id)) = 1
         /\ PairOf(e).asset0 = Asset0(t) /\ PairOf(e).asset1 = Asset1(t)
<1> DEFINE P(u) == [id |-> PoolId(u), asset0 |-> Asset0(u), asset1 |-> Asset1(u),
                    created_at |-> token[u].created_at, creator |-> token[u].creator]
<1>1. t \in DOMAIN market /\ market[t].market_type = "DEX" /\ DOMAIN pool \subseteq Nat
  BY AddressAssumption DEF DbInv, TablesOK
<1>2. PairOfPool(e.pair_id) = {t}
  BY <1>1 DEF PairOfPool, PoolId
<1>3. GetPair(e.pair_id) = {P(u) : u \in PairOfPool(e.pair_id)}
  BY DEF GetPair
<1>4. GetPair(e.pair_id) = {P(t)}
  <2> HIDE DEF P
  <2> QED BY <1>2, <1>3
<1>5. PairOf(e) = P(t)
  <2> HIDE DEF P
  <2> QED BY <1>4 DEF PairOf
<1>6. Cardinality(GetPair(e.pair_id)) = 1
  BY <1>4, FS_Singleton
<1>7. QED
  BY <1>5, <1>6

\* The assets of a pair are the token and the quote, in order.
LEMMA AssetsResolve ==
  ASSUME DbInv, NEW t \in DOMAIN pool
  PROVE  /\ Asset0(t) < Asset1(t) /\ {Asset0(t), Asset1(t)} = {t, Quote}
         /\ \A id \in {Asset0(t), Asset1(t)}, onchain \in BOOLEAN : Asset(id, onchain) # {}
<1>1. t \in DOMAIN token /\ t \in Nat /\ Quote \in Nat /\ t # Quote
  BY AddressAssumption DEF DbInv, TablesOK
<1>2. Asset0(t) < Asset1(t) /\ {Asset0(t), Asset1(t)} = {t, Quote}
  BY <1>1 DEF Asset0, Asset1, QuoteIsAsset0
<1>3. AssetRow(t) # {}
  BY <1>1 DEF AssetRow
<1>4. AssetRow(Quote) # {}
  BY DEF AssetRow
<1>5. \A id, onchain : AssetRow(id) # {} => Asset(id, onchain) # {}
  BY DEF Asset
<1>6. QED
  BY <1>2, <1>3, <1>4, <1>5

\* A swap takes one asset in and gives the other out, and its price is their quotient.
LEMMA LegsOfSwap ==
  ASSUME NEW r \in SwapRow, NEW e, e = SwapEvent(r)
  PROVE  /\ (e.asset0_in = Absent) # (e.asset0_out = Absent)
         /\ (e.asset1_in = Absent) # (e.asset1_out = Absent)
         /\ (e.asset0_in = Absent) # (e.asset1_in = Absent)
         /\ e.price_native = <<Leg1(e), Leg0(e)>>
         /\ Leg0(e) = (IF QuoteIsAsset0(r.token) THEN r.quote ELSE r.tok)
<1> DEFINE first == QuoteIsAsset0(r.token)
<1>1. r.quote # Absent /\ r.tok # Absent /\ r.is_buy \in BOOLEAN
  BY AddressAssumption DEF SwapRow, Absent
<1>2. e.price_native = IF first THEN <<r.tok, r.quote>> ELSE <<r.quote, r.tok>>
  BY DEF SwapEvent
<1>3. /\ e.asset0_in = (CASE first /\ r.is_buy -> r.quote [] ~first /\ ~r.is_buy -> r.tok [] OTHER -> Absent)
      /\ e.asset1_in = (CASE first /\ ~r.is_buy -> r.tok [] ~first /\ r.is_buy -> r.quote [] OTHER -> Absent)
      /\ e.asset0_out = (CASE first /\ ~r.is_buy -> r.quote [] ~first /\ r.is_buy -> r.tok [] OTHER -> Absent)
      /\ e.asset1_out = (CASE first /\ r.is_buy -> r.tok [] ~first /\ ~r.is_buy -> r.quote [] OTHER -> Absent)
  BY DEF SwapEvent
<1> SUFFICES /\ (e.asset0_in = Absent) # (e.asset0_out = Absent)
             /\ (e.asset1_in = Absent) # (e.asset1_out = Absent)
             /\ (e.asset0_in = Absent) # (e.asset1_in = Absent)
             /\ e.price_native = <<Leg1(e), Leg0(e)>>
             /\ Leg0(e) = (IF first THEN r.quote ELSE r.tok)
  OBVIOUS
<1> HIDE DEF first
<1>4. CASE first /\ r.is_buy
  <2>1. e.asset0_in = r.quote /\ e.asset1_in = Absent /\ e.asset0_out = Absent /\ e.asset1_out = r.tok
    BY <1>3, <1>4
  <2>2. QED
    BY <1>1, <1>2, <1>4, <2>1 DEF Leg0, Leg1
<1>5. CASE first /\ ~r.is_buy
  <2>1. e.asset0_in = Absent /\ e.asset1_in = r.tok /\ e.asset0_out = r.quote /\ e.asset1_out = Absent
    BY <1>3, <1>5
  <2>2. QED
    BY <1>1, <1>2, <1>5, <2>1 DEF Leg0, Leg1
<1>6. CASE ~first /\ r.is_buy
  <2>1. e.asset0_in = Absent /\ e.asset1_in = r.quote /\ e.asset0_out = r.tok /\ e.asset1_out = Absent
    BY <1>3, <1>6
  <2>2. QED
    BY <1>1, <1>2, <1>6, <2>1 DEF Leg0, Leg1
<1>7. CASE ~first /\ ~r.is_buy
  <2>1. e.asset0_in = r.tok /\ e.asset1_in = Absent /\ e.asset0_out = Absent /\ e.asset1_out = r.quote
    BY <1>3, <1>7
  <2>2. QED
    BY <1>1, <1>2, <1>7, <2>1 DEF Leg0, Leg1
<1>8. QED
  BY <1>4, <1>5, <1>6, <1>7

\* The reserves of a pool, token by token and asset by asset.
LEMMA ReservesByAsset ==
  ASSUME DbInv, NEW t \in DOMAIN pool
  PROVE  /\ {pool[t].token0, pool[t].token1} = {t, Quote}
         /\ pool[t].reserve0 = IF QuoteIsAsset0(t) THEN QuoteReserve(pool[t], t) ELSE TokenReserve(pool[t], t)
         /\ pool[t].reserve1 = IF QuoteIsAsset0(t) THEN TokenReserve(pool[t], t) ELSE QuoteReserve(pool[t], t)
<1>1. t \in Nat /\ Quote \in Nat /\ t # Quote
  BY AddressAssumption DEF DbInv, TablesOK
<1>2. pool[t].token0 = (IF t < Quote THEN t ELSE Quote) /\ pool[t].token1 = (IF t < Quote THEN Quote ELSE t)
  BY DEF DbInv, TablesOK, NewPool
<1>3. QED
  BY <1>1, <1>2 DEF QuoteIsAsset0, QuoteReserve, TokenReserve

\* In tables that are in order the pair of an event resolves.
LEMMA PairFollows ==
  ASSUME DbInv, Committed, NEW e \in EventSet(1, MaxBlock)
  PROVE  /\ Cardinality(GetPair(e.pair_id)) = 1
         /\ \A id \in {PairOf(e).asset0, PairOf(e).asset1}, onchain \in BOOLEAN : Asset(id, onchain) # {}
         /\ PairOf(e).asset0 < PairOf(e).asset1
         /\ e.kind = "swap" =>
             /\ (e.asset0_in = Absent) # (e.asset0_out = Absent)
             /\ (e.asset1_in = Absent) # (e.asset1_out = Absent)
             /\ (e.asset0_in = Absent) # (e.asset1_in = Absent)
             /\ e.price_native = <<Leg1(e), Leg0(e)>>
         /\ (\A f \in EventSet(1, MaxBlock) : f.pair_id = e.pair_id => ~Before(e, f)) =>
             \E t \in DOMAIN pool :
                 /\ {pool[t].token0, pool[t].token1} = {PairOf(e).asset0, PairOf(e).asset1}
                 /\ e.reserve0 = pool[t].reserve0
                 /\ e.reserve1 = pool[t].reserve1
<1>1. PICK t \in DOMAIN pool : \E r \in PoolRows(t) : EventOf(e, t, r)
  BY AddressAssumption, EventsHaveRows
<1>2. PICK r \in PoolRows(t) : EventOf(e, t, r)
  BY <1>1
<1>3. e.pair_id = PoolId(t) /\ e.block = r.block /\ e.txn_index = r.tx
  BY <1>2 DEF EventOf
<1>4. /\ Cardinality(GetPair(e.pair_id)) = 1
      /\ PairOf(e).asset0 = Asset0(t) /\ PairOf(e).asset1 = Asset1(t)
  BY <1>3, PairIsThePools
<1>5. ASSUME e.kind = "swap"
      PROVE  /\ (e.asset0_in = Absent) # (e.asset0_out = Absent)
             /\ (e.asset1_in = Absent) # (e.asset1_out = Absent)
             /\ (e.asset0_in = Absent) # (e.asset1_in = Absent)
             /\ e.price_native = <<Leg1(e), Leg0(e)>>
  BY <1>2, <1>5, LegsOfSwap DEF EventOf
<1>6. ASSUME \A f \in EventSet(1, MaxBlock) : f.pair_id = e.pair_id => ~Before(e, f)
      PROVE  /\ {pool[t].token0, pool[t].token1} = {PairOf(e).asset0, PairOf(e).asset1}
             /\ e.reserve0 = pool[t].reserve0
             /\ e.reserve1 = pool[t].reserve1
  <2>1. ASSUME NEW q \in PoolRows(t)
        PROVE  ~RowBefore(r, q)
    <3>1. PICK f \in EventSet(1, MaxBlock) : f.pair_id = PoolId(t) /\ f.block = q.block /\ f.txn_index = q.tx
      BY RowsHaveEvents
    <3>2. ~Before(e, f)
      BY <1>3, <1>6, <3>1
    <3>3. QED
      BY <1>3, <3>1, <3>2 DEF Before, RowBefore
  <2>2. r.rq = QuoteReserve(pool[t], t) /\ r.rt = TokenReserve(pool[t], t)
    BY <2>1 DEF DbInv, LastReserves
  <2>3. /\ e.reserve0 = (IF QuoteIsAsset0(t) THEN r.rq ELSE r.rt)
        /\ e.reserve1 = (IF QuoteIsAsset0(t) THEN r.rt ELSE r.rq)
    BY <1>2 DEF EventOf
  <2>4. {pool[t].token0, pool[t].token1} = {PairOf(e).asset0, PairOf(e).asset1}
    BY <1>4, AssetsResolve, ReservesByAsset
  <2>5. QED
    BY <2>2, <2>3, <2>4, ReservesByAsset
<1>7. QED
  BY <1>4, <1>5, <1>6, AssetsResolve

-----------------------------------------------------------------------------
(* The keys of the caches *)

\* The endpoints whose answers share keys in Redis, and in a server's memory.
RedisEndpoints ==
    {"order", "holder", "hold_token", "create_token", "account_swaps", "swap_history",
     "token", "token_metadata", "market", "terminal_metadata", "token_exists", "leaderboard",
     "search", "new_event"}

MokaEndpoints ==
    {"order", "holder", "create_token", "account_swaps", "token", "token_metadata", "market",
     "token_holder_count", "swap_count_by_account", "token_created_count", "account",
     "chart", "metrics", "search", "new_event"}

\* The endpoint of a request is that of its kind.
LEMMA EndpointsOfRequests ==
  /\ \A x \in OrderRequests : x.endpoint = "order"
  /\ \A e, Id : \A x \in Paged(e, Id) : x.endpoint = e
  /\ \A x \in SwapRequests : x.endpoint = "swap_history"
  /\ \A x \in TokenRequests :
        x.endpoint \in {"token", "token_metadata", "market", "terminal_metadata", "token_exists"}
  /\ \A x \in BoardRequests : x.endpoint = "leaderboard"
  /\ \A x \in ChartRequests : x.endpoint = "chart"
  /\ \A x \in MetricRequests : x.endpoint = "metrics"
  /\ \A x \in CountRequests :
        x.endpoint \in {"token_holder_count", "swap_count_by_account", "token_created_count", "account"}
  /\ \A x \in SearchRequests : x.endpoint = "search"
  /\ EventRequest.endpoint = "new_event"
<1>1. \A x \in OrderRequests : x.endpoint = "order"
  BY DEF OrderRequests
<1>2. \A e, Id : \A x \in Paged(e, Id) : x.endpoint = e
  BY DEF Paged
<1>3. \A x \in SwapRequests : x.endpoint = "swap_history"
  BY DEF SwapRequests
<1>4. \A x \in TokenRequests :
        x.endpoint \in {"token", "token_metadata", "market", "terminal_metadata", "token_exists"}
  BY DEF TokenRequests
<1>5. \A x \in BoardRequests : x.endpoint = "leaderboard"
  BY DEF BoardRequests
<1>6. \A x \in ChartRequests : x.endpoint = "chart"
  BY DEF ChartRequests
<1>7. \A x \in MetricRequests : x.endpoint = "metrics"
  BY DEF MetricRequests
<1>8. \A x \in CountRequests :
        x.endpoint \in {"token_holder_count", "swap_count_by_account", "token_created_count", "account"}
  BY DEF CountRequests
<1>9. \A x \in SearchRequests : x.endpoint = "search"
  BY DEF SearchRequests
<1>10. EventRequest.endpoint = "new_event"
  BY DEF EventRequest
<1>11. QED
  BY <1>1, <1>2, <1>3, <1>4, <1>5, <1>6, <1>7, <1>8, <1>9, <1>10

\* A request that Redis caches is one of these endpoints, if it is not for a chart.
LEMMA RedisRequestEndpoint ==
  ASSUME NEW r \in RedisRequests \ ChartRequests
  PROVE  r.endpoint \in RedisEndpoints
BY EndpointsOfRequests DEF RedisRequests, RedisEndpoints

\* A request that memory caches is one of these endpoints.
LEMMA MokaRequestEndpoint ==
  ASSUME NEW r \in MokaRequests
  PROVE  r.endpoint \in MokaEndpoints /\ (r.endpoint = "search" => r \in SearchRequests)
<1>1. \A x \in [endpoint : {"token", "token_metadata", "market"}, id : Token] :
        x.endpoint \in {"token", "token_metadata", "market"}
  OBVIOUS
<1>2. QED
  BY <1>1, EndpointsOfRequests DEF MokaRequests, MokaEndpoints

\* A key in Redis begins with its endpoint.
LEMMA RedisKeyNamesEndpoint ==
  ASSUME NEW r, r.endpoint \in RedisEndpoints
  PROVE  RedisKey(r)[1] = r.endpoint
BY DEF RedisEndpoints, RedisKey, OrderResponseKey, HoldTokenKey, TokenCreatedKey, TokenResponseKey,
       TokenMetadataKey, TokenSwapHistoryKey, HolderKey, MarketKey, AccountSwapHistoryKey, LeaderboardKey,
       NewEventKey, TerminalMetadataKey, TokenExistsKey, SearchResponseKey

\* A key in memory begins with its endpoint.
LEMMA MokaKeyNamesEndpoint ==
  ASSUME NEW r, r.endpoint \in MokaEndpoints
  PROVE  MokaKey(r)[1] = r.endpoint
BY DEF MokaEndpoints, MokaKey

\* Requests with the same key in Redis have the same answers, charts excepted.
LEMMA RedisKeysSeparate ==
  ASSUME NEW r \in RedisRequests \ ChartRequests, NEW s \in RedisRequests \ ChartRequests,
         RedisKey(r) = RedisKey(s)
  PROVE  AnswersOf(r) = AnswersOf(s)
<1>1. r.endpoint \in RedisEndpoints /\ s.endpoint = r.endpoint
  <2>1. r.endpoint \in RedisEndpoints /\ s.endpoint \in RedisEndpoints
    BY RedisRequestEndpoint
  <2>2. QED
    BY <2>1, RedisKeyNamesEndpoint
<1>2. CASE r.endpoint = "order"
  <2>1. OrderResponseKey(r) = OrderResponseKey(s)
    BY <1>1, <1>2 DEF RedisKey
  <2>2. r.type = s.type /\ r.page = s.page /\ r.limit = s.limit /\ r.direction = s.direction
        /\ r.is_nsfw = s.is_nsfw
    BY <2>1 DEF OrderResponseKey
  <2>3. QED
    BY <1>1, <1>2, <2>2 DEF AnswersOf
<1>3. CASE r.endpoint = "holder"
  <2>1. HolderKey(r) = HolderKey(s)
    BY <1>1, <1>3 DEF RedisKey
  <2>2. r.id = s.id /\ r.page = s.page /\ r.limit = s.limit
    BY <2>1 DEF HolderKey
  <2>3. QED
    BY <1>1, <1>3, <2>2 DEF AnswersOf
<1>4. CASE r.endpoint = "hold_token"
  <2>1. HoldTokenKey(r) = HoldTokenKey(s)
    BY <1>1, <1>4 DEF RedisKey
  <2>2. r.id = s.id /\ r.page = s.page /\ r.limit = s.limit
    BY <2>1 DEF HoldTokenKey
  <2>3. QED
    BY <1>1, <1>4, <2>2 DEF AnswersOf
<1>5. CASE r.endpoint = "create_token"
  <2>1. TokenCreatedKey(r) = TokenCreatedKey(s)
    BY <1>1, <1>5 DEF RedisKey
  <2>2. r.id = s.id /\ r.page = s.page /\ r.limit = s.limit
    BY <2>1 DEF TokenCreatedKey
  <2>3. QED
    BY <1>1, <1>5, <2>2 DEF AnswersOf
<1>6. CASE r.endpoint = "account_swaps"
  <2>1. AccountSwapHistoryKey(r) = AccountSwapHistoryKey(s)
    BY <1>1, <1>6 DEF RedisKey
  <2>2. r.id = s.id /\ r.page = s.page /\ r.limit = s.limit
    BY <2>1 DEF AccountSwapHistoryKey
  <2>3. QED
    BY <1>1, <1>6, <2>2 DEF AnswersOf
<1>7. CASE r.endpoint = "swap_history"
  <2>1. TokenSwapHistoryKey(r) = TokenSwapHistoryKey(s)
    BY <1>1, <1>7 DEF RedisKey
  <2>2. r.id = s.id /\ r.query = s.query
    BY <2>1 DEF TokenSwapHistoryKey
  <2>3. QED
    BY <1>1, <1>7, <2>2 DEF AnswersOf
<1>8. CASE r.endpoint \in {"token", "token_metadata", "market", "terminal_metadata", "token_exists"}
  <2>1. <<r.endpoint, r.id>> = <<s.endpoint, s.id>>
    BY <1>1, <1>8 DEF RedisKey, TokenResponseKey, TokenMetadataKey, MarketKey, TerminalMetadataKey, TokenExistsKey
  <2>2. r.id = s.id
    BY <2>1
  <2>3. QED
    BY <1>1, <1>8, <2>2 DEF AnswersOf
<1>9. CASE r.endpoint = "leaderboard"
  <2>1. LeaderboardKey(r) = LeaderboardKey(s)
    BY <1>1, <1>9 DEF RedisKey
  <2>2. r.page = s.page /\ r.limit = s.limit
    BY <2>1 DEF LeaderboardKey
  <2>3. QED
    BY <1>1, <1>9, <2>2 DEF AnswersOf
<1>10. CASE r.endpoint = "new_event"
  BY <1>1, <1>10 DEF AnswersOf
<1>11. CASE r.endpoint = "search"
  <2>1. SearchResponseKey(r) = SearchResponseKey(s)
    BY <1>1, <1>11 DEF RedisKey
  <2>2. r.query = s.query
    BY <2>1 DEF SearchResponseKey
  <2>3. QED
    BY <1>1, <1>11, <2>2 DEF AnswersOf
<1>12. QED
  BY <1>1, <1>2, <1>3, <1>4, <1>5, <1>6, <1>7, <1>8, <1>9, <1>10, <1>11 DEF RedisEndpoints

\* Requests with the same key in memory have the same answers, searches with blanks excepted.
LEMMA MokaKeysSeparate ==
  ASSUME NEW r \in MokaRequests \ PaddedSearches, NEW s \in MokaRequests \ PaddedSearches,
         MokaKey(r) = MokaKey(s)
  PROVE  AnswersOf(r) = AnswersOf(s)
<1>1. r.endpoint \in MokaEndpoints /\ s.endpoint = r.endpoint
  <2>1. r.endpoint \in MokaEndpoints /\ s.endpoint \in MokaEndpoints
    BY MokaRequestEndpoint
  <2>2. QED
    BY <2>1, MokaKeyNamesEndpoint
<1>2. CASE r.endpoint = "order"
  <2>1. r.type = s.type /\ r.page = s.page /\ r.limit = s.limit /\ r.direction = s.direction
        /\ r.is_nsfw = s.is_nsfw
    BY <1>1, <1>2 DEF MokaKey
  <2>2. QED
    BY <1>1, <1>2, <2>1 DEF AnswersOf
<1>3. CASE r.endpoint \in {"holder", "create_token", "account_swaps"}
  <2>1. r.id = s.id /\ r.page = s.page /\ r.limit = s.limit
    BY <1>1, <1>3 DEF MokaKey
  <2>2. QED
    BY <1>1, <1>3, <2>1 DEF AnswersOf
<1>4. CASE r.endpoint \in {"token", "token_metadata", "market", "token_holder_count",
                         "swap_count_by_account", "token_created_count", "account"}
  <2>1. r.id = s.id
    BY <1>1, <1>4 DEF MokaKey
  <2>2. QED
    BY <1>1, <1>4, <2>1 DEF AnswersOf
<1>5. CASE r.endpoint = "chart"
  <2>1. r.id = s.id /\ r.resolution = s.resolution /\ r.to = s.to /\ r.countback = s.countback
        /\ r.chart_type = s.chart_type
    BY <1>1, <1>5 DEF MokaKey
  <2>2. Chart(r.id, r) = Chart(s.id, s)
    BY <2>1 DEF Chart
  <2>3. QED
    BY <1>1, <1>5, <2>2 DEF AnswersOf
<1>6. CASE r.endpoint = "metrics"
  <2>1. r.id = s.id /\ r.timeframe = s.timeframe
    BY <1>1, <1>6 DEF MokaKey
  <2>2. QED
    BY <1>1, <1>6, <2>1 DEF AnswersOf
<1>7. CASE r.endpoint = "new_event"
  BY <1>1, <1>7 DEF AnswersOf
<1>8. CASE r.endpoint = "search"
  <2>1. r \in SearchRequests /\ s \in SearchRequests
    BY <1>1, <1>8, MokaRequestEndpoint
  <2>2. r.query \in SearchQuery /\ s.query \in SearchQuery /\ ~r.query.padded /\ ~s.query.padded
    BY <2>1 DEF SearchRequests, PaddedSearches
  <2>3. r.query.by = s.query.by /\ r.query.of = s.query.of
    BY <1>1, <1>8 DEF MokaKey
  <2>4. \A q \in SearchQuery : q.padded \in BOOLEAN /\ q = [by |-> q.by, of |-> q.of, padded |-> q.padded]
    BY PaddingAssumption DEF SearchQuery
  <2>5. r.query = s.query
    <3>1. r.query.padded = s.query.padded
      BY <2>2, <2>4
    <3>2. QED
      BY <2>2, <2>3, <2>4, <3>1
  <2>6. QED
    BY <1>1, <1>8, <2>5 DEF AnswersOf
<1>9. QED
  BY <1>1, <1>2, <1>3, <1>4, <1>5, <1>6, <1>7, <1>8 DEF MokaEndpoints

\* Requests with the same answers have one.
LEMMA OneAnswer ==
  ASSUME NEW S, NEW r \in S, \A s \in S : AnswersOf(s) = AnswersOf(r)
  PROVE  Cardinality({AnswersOf(s) : s \in S}) = 1
<1>1. {AnswersOf(s) : s \in S} = {AnswersOf(r)}
  OBVIOUS
<1>2. QED
  BY <1>1, FS_Singleton

\* The keys separate the answers, whatever the tables hold.
LEMMA KeysSeparateAnswers == KeysSeparate
<1> SUFFICES ASSUME NEW S \in SharedRequests
             PROVE  Cardinality({AnswersOf(r) : r \in S}) = 1
  BY DEF KeysSeparate
<1>1. CASE S \in Shared(RedisRequests \ ChartRequests, RedisKey)
  <2>1. PICK r \in RedisRequests \ ChartRequests : S = {s \in RedisRequests \ ChartRequests : RedisKey(s) = RedisKey(r)}
    BY <1>1 DEF Shared
  <2>2. r \in S /\ \A s \in S : AnswersOf(s) = AnswersOf(r)
    BY <2>1, RedisKeysSeparate
  <2>3. QED
    BY <2>2, OneAnswer
<1>2. CASE S \in Shared(MokaRequests \ PaddedSearches, MokaKey)
  <2>1. PICK r \in MokaRequests \ PaddedSearches : S = {s \in MokaRequests \ PaddedSearches : MokaKey(s) = MokaKey(r)}
    BY <1>2 DEF Shared
  <2>2. r \in S /\ \A s \in S : AnswersOf(s) = AnswersOf(r)
    BY <2>1, MokaKeysSeparate
  <2>3. QED
    BY <2>2, OneAnswer
<1>3. QED
  BY <1>1, <1>2 DEF SharedRequests

\* Two requests that are served from one cache entry have the same answer, charts in
\* Redis and searches with blanks around the query in the process excepted, for any
\* requests, tokens and accounts (the key functions of db/redis, cache_key! of the
\* controllers).
THEOREM KeysAreSafe == DbSpec => []KeysSeparate
BY KeysSeparateAnswers, PTL

-----------------------------------------------------------------------------
(* The pages of a list *)

\* Where page p of length n begins and ends.
LEMMA PageBounds ==
  ASSUME NEW n \in Nat \ {0}, NEW p \in Nat \ {0}
  PROVE  (p - 1) * n \in Nat /\ p * n \in Nat /\ p * n = (p - 1) * n + n
<1>1. (p - 1) * n = p * n - n
  OBVIOUS
<1>2. p - 1 \in Nat /\ p * n \in Nat
  OBVIOUS
<1>3. (p - 1) * n \in Nat
  BY <1>2
<1>4. QED
  BY <1>1, <1>2, <1>3

\* Later pages begin where earlier ones have ended.
LEMMA PagesFollow ==
  ASSUME NEW n \in Nat \ {0}, NEW p \in Nat \ {0}, NEW q \in Nat \ {0}, p < q
  PROVE  p * n <= (q - 1) * n
<1>1. p <= q - 1 /\ q - 1 \in Nat
  OBVIOUS
<1>2. QED
  BY <1>1

\* The rows of page p.
LEMMA PageRows ==
  ASSUME NEW S, NEW s \in Seq(S), NEW limit \in Nat \ {0}, NEW p \in Nat \ {0}
  PROVE  LET low == (p - 1) * limit
             high == IF p * limit < Len(s) THEN p * limit ELSE Len(s)
             rows == PageOf(s, p, limit)
         IN  /\ rows \in Seq(S)
             /\ Len(rows) = IF low < high THEN high - low ELSE 0
             /\ \A j \in 1..Len(rows) : rows[j] = s[low + j]
<1> DEFINE low == (p - 1) * limit
           high == IF p * limit < Len(s) THEN p * limit ELSE Len(s)
           rows == PageOf(s, p, limit)
<1>1. low \in Nat /\ high \in Nat /\ high <= Len(s) /\ Len(s) \in Nat
  BY PageBounds
<1>2. rows = SubSeq(s, low + 1, high)
  BY DEF PageOf
<1> HIDE DEF low, high, rows
<1>3. low + 1 \in Nat \ {0}
  BY <1>1
<1>4. \A i \in low + 1..high : i \in 1..Len(s) /\ s[i] \in S
  BY <1>1
<1>5. rows \in Seq(S) /\ Len(rows) = (IF low + 1 <= high THEN high - (low + 1) + 1 ELSE 0)
  BY <1>1, <1>2, <1>3, <1>4
<1>6. \A j \in 1..Len(rows) : rows[j] = s[low + j]
  BY <1>1, <1>2, <1>3, <1>5
<1>7. Len(rows) = IF low < high THEN high - low ELSE 0
  BY <1>1, <1>5
<1>8. QED
  BY <1>5, <1>6, <1>7 DEF low, high, rows

\* The pages of a list, asked one after the other, hold every row of it exactly once and
\* in its order, and none holds more than the limit, for any list and page length
\* (LIMIT and OFFSET of the list statements of controllers/token and controllers/trading).
THEOREM PagesPartition ==
  ASSUME NEW S, NEW s \in Seq(S), NEW limit \in Nat \ {0}
  PROVE  /\ \A p \in Nat \ {0} :
              /\ Len(PageOf(s, p, limit)) <= limit
              /\ \A j \in 1..Len(PageOf(s, p, limit)) :
                    /\ (p - 1) * limit + j \in DOMAIN s
                    /\ PageOf(s, p, limit)[j] = s[(p - 1) * limit + j]
         /\ \A i \in DOMAIN s :
              \E p \in 1..Len(s) : \E j \in 1..Len(PageOf(s, p, limit)) : i = (p - 1) * limit + j
         /\ \A p, q \in Nat \ {0} :
              \A j \in 1..Len(PageOf(s, p, limit)), k \in 1..Len(PageOf(s, q, limit)) :
                 (p - 1) * limit + j = (q - 1) * limit + k => p = q /\ j = k
<1> DEFINE low(p) == (p - 1) * limit
           top(p) == p * limit
           high(p) == IF top(p) < Len(s) THEN top(p) ELSE Len(s)
           rows(p) == PageOf(s, p, limit)
<1>1. Len(s) \in Nat /\ DOMAIN s = 1..Len(s)
  OBVIOUS
<1>2. \A p \in Nat \ {0} : low(p) \in Nat /\ top(p) \in Nat /\ top(p) = low(p) + limit
  BY PageBounds
<1>3. ASSUME NEW p \in Nat \ {0}
      PROVE  /\ rows(p) \in Seq(S)
             /\ Len(rows(p)) = IF low(p) < high(p) THEN high(p) - low(p) ELSE 0
             /\ \A j \in 1..Len(rows(p)) : rows(p)[j] = s[low(p) + j]
  <2>1. rows(p) \in Seq(S)
    BY PageRows
  <2>2. Len(rows(p)) = IF low(p) < high(p) THEN high(p) - low(p) ELSE 0
    BY PageRows
  <2>3. \A j \in 1..Len(rows(p)) : rows(p)[j] = s[low(p) + j]
    BY PageRows
  <2>4. QED
    BY <2>1, <2>2, <2>3
<1>4. ASSUME NEW p \in Nat \ {0}
      PROVE  /\ high(p) \in Nat /\ high(p) <= Len(s) /\ high(p) <= top(p)
             /\ \A i \in DOMAIN s : i <= top(p) => i <= high(p)
  <2>1. top(p) \in Nat
    BY <1>2
  <2> HIDE DEF top
  <2>2. QED
    BY <1>1, <2>1
<1>5. \A p, q \in Nat \ {0} : p < q => top(p) <= low(q)
  BY PagesFollow
<1>6. ASSUME NEW i \in DOMAIN s
      PROVE  \E p \in 1..Len(s) : i \in low(p) + 1..top(p)
  <2> DEFINE P == {p \in Nat : i <= p * limit}
  <2>1. i \in Nat \ {0} /\ i <= i * limit
    BY <1>1
  <2>2. i \in P /\ P \subseteq Nat
    BY <2>1
  <2>3. PICK p \in P : \A q \in P : p <= q
    BY <2>2, LeastElement
  <2>4. p \in Nat /\ i <= p * limit /\ p <= i
    BY <2>2, <2>3
  <2>5. p # 0
    BY <2>1, <2>4
  <2>6. p - 1 \in Nat /\ p - 1 \notin P
    BY <2>3, <2>4, <2>5
  <2>7. ~(i <= low(p))
    BY <2>6
  <2>8. low(p) \in Nat /\ top(p) \in Nat
    BY <1>2, <2>4, <2>5
  <2>9. i \in low(p) + 1..top(p)
    BY <2>1, <2>4, <2>7, <2>8
  <2>10. p \in 1..Len(s)
    BY <1>1, <2>4, <2>5
  <2>11. QED
    BY <2>9, <2>10
<1> HIDE DEF low, top, high, rows
<1>7. ASSUME NEW p \in Nat \ {0}
      PROVE  /\ Len(rows(p)) <= limit
             /\ \A j \in 1..Len(rows(p)) : low(p) + j \in DOMAIN s /\ rows(p)[j] = s[low(p) + j]
  <2>1. low(p) \in Nat /\ top(p) \in Nat /\ top(p) = low(p) + limit
    BY <1>2
  <2>2. Len(rows(p)) = IF low(p) < high(p) THEN high(p) - low(p) ELSE 0
    BY <1>3
  <2>3. high(p) \in Nat /\ high(p) <= Len(s) /\ high(p) <= top(p)
    BY <1>4
  <2>4. Len(rows(p)) <= limit
    BY <2>1, <2>2, <2>3
  <2>5. \A j \in 1..Len(rows(p)) : low(p) + j \in 1..Len(s)
    BY <1>1, <2>1, <2>2, <2>3
  <2>6. QED
    BY <1>1, <1>3, <2>4, <2>5
<1>8. ASSUME NEW i \in DOMAIN s
      PROVE  \E p \in 1..Len(s) : \E j \in 1..Len(rows(p)) : i = low(p) + j
  <2>1. PICK p \in 1..Len(s) : i \in low(p) + 1..top(p)
    BY <1>6
  <2>2. p \in Nat \ {0} /\ i \in 1..Len(s)
    BY <1>1
  <2>3. low(p) \in Nat /\ top(p) \in Nat
    BY <1>2, <2>2
  <2>4. i <= high(p) /\ high(p) \in Nat
    BY <1>4, <2>1, <2>2
  <2>5. Len(rows(p)) = IF low(p) < high(p) THEN high(p) - low(p) ELSE 0
    BY <1>3, <2>2
  <2>6. i - low(p) \in 1..Len(rows(p)) /\ i = low(p) + (i - low(p))
    BY <1>1, <2>1, <2>2, <2>3, <2>4, <2>5
  <2>7. QED
    BY <2>6
<1>9. ASSUME NEW p \in Nat \ {0}, NEW q \in Nat \ {0},
             NEW j \in 1..Len(rows(p)), NEW k \in 1..Len(rows(q)), low(p) + j = low(q) + k
      PROVE  p = q /\ j = k
  <2>1. low(p) \in Nat /\ low(q) \in Nat /\ top(p) = low(p) + limit /\ top(q) = low(q) + limit
    BY <1>2
  <2>2. Len(rows(p)) <= limit /\ Len(rows(q)) <= limit /\ Len(rows(p)) \in Nat /\ Len(rows(q)) \in Nat
    <3>1. rows(p) \in Seq(S) /\ rows(q) \in Seq(S)
      BY <1>3
    <3>2. Len(rows(p)) \in Nat /\ Len(rows(q)) \in Nat
      BY <3>1
    <3>3. Len(rows(p)) <= limit /\ Len(rows(q)) <= limit
      BY <1>7
    <3>4. QED
      BY <3>2, <3>3
  <2>3. j \in 1..limit /\ k \in 1..limit
    BY <2>2
  <2>4. ~(p < q)
    <3>1. p < q => top(p) <= low(q)
      BY <1>5
    <3>2. QED
      BY <1>9, <2>1, <2>3, <3>1
  <2>5. ~(q < p)
    <3>1. q < p => top(q) <= low(p)
      BY <1>5
    <3>2. QED
      BY <1>9, <2>1, <2>3, <3>1
  <2>6. p = q
    BY <2>4, <2>5
  <2>7. QED
    BY <1>9, <2>1, <2>3, <2>6
<1>10. QED
  BY <1>7, <1>8, <1>9 DEF low, rows

-----------------------------------------------------------------------------
(* Order lists *)

\* A sorted list has every row once.
LEMMA OrderRows ==
  ASSUME NEW S, IsFiniteSet(S), NEW key, NEW direction, NEW s \in Orders(S, key, direction)
  PROVE  /\ s \in Seq(S) /\ Len(s) = Cardinality(S) /\ Len(s) \in Nat /\ DOMAIN s = 1..Len(s)
         /\ \A i, j \in DOMAIN s : s[i] = s[j] => i = j
         /\ \A x \in S : \E i \in DOMAIN s : s[i] = x
<1> DEFINE n == Cardinality(S)
<1>1. n \in Nat
  BY FS_CardinalityType
<1>2. s \in [1..n -> S] /\ \A i, j \in 1..n : i # j => s[i] # s[j]
  BY DEF Orders, SetToSeqs
<1>3. s \in Seq(S) /\ Len(s) = n /\ DOMAIN s = 1..n
  BY <1>1, <1>2
<1>4. s \in Injection(1..n, S)
  BY <1>2 DEF Injection, IsInjective
<1>5. IsFiniteSet(1..n) /\ Cardinality(1..n) = n
  BY <1>1, FS_Interval
<1>6. s \in Surjection(1..n, S)
  BY <1>4, <1>5, FS_Injection
<1>7. \A x \in S : \E i \in 1..n : s[i] = x
  BY <1>6 DEF Surjection
<1>8. QED
  BY <1>1, <1>2, <1>3, <1>7

\* Turned round, a sorted list is sorted the other way.
LEMMA ReversedOrder ==
  ASSUME NEW S, IsFiniteSet(S), NEW key, NEW d, NEW e,
         {d, e} = {"ASC", "DESC"}, NEW s \in Orders(S, key, d)
  PROVE  Reverse(s) \in Orders(S, key, e) /\ Reverse(Reverse(s)) = s
<1> DEFINE n == Cardinality(S)
           r == [i \in 1..n |-> s[(n - i) + 1]]
<1>1. n \in Nat
  BY FS_CardinalityType
<1>2. s \in [1..n -> S] /\ \A i, j \in 1..n : i # j => s[i] # s[j]
  BY DEF Orders, SetToSeqs
<1>3. Len(s) = n /\ DOMAIN s = 1..n
  BY OrderRows
<1>4. Reverse(s) = r
  BY <1>3 DEF Reverse
<1>5. \A i \in 1..n : (n - i) + 1 \in 1..n /\ r[i] = s[(n - i) + 1] /\ r[(n - i) + 1] = s[i]
  BY <1>1
<1>6. Reverse(r) = s
  <2>1. r \in Seq(S) /\ Len(r) = n
    BY <1>1, <1>2, <1>5
  <2>2. \A i \in 1..n : r[(n - i) + 1] = s[i]
    BY <1>5
  <2> HIDE DEF r, n
  <2>3. Reverse(r) = [i \in 1..n |-> r[(n - i) + 1]]
    BY <2>1 DEF Reverse
  <2>4. s = [i \in 1..n |-> s[i]]
    BY <1>2
  <2>5. QED
    BY <2>3, <2>4, <2>2, Zenon
<1>7. r \in SetToSeqs(S)
  <2>1. r \in [1..n -> S]
    BY <1>2, <1>5
  <2>2. ASSUME NEW i \in 1..n, NEW j \in 1..n, i # j
        PROVE  r[i] # r[j]
    <3>1. (n - i) + 1 # (n - j) + 1
      BY <1>1, <2>2
    <3>2. QED
      BY <1>2, <1>5, <3>1
  <2>3. QED
    BY <2>1, <2>2 DEF SetToSeqs
<1>8. ASSUME NEW i \in DOMAIN r, NEW j \in DOMAIN r, i < j
      PROVE  IF e = "ASC" THEN key[r[i]] <= key[r[j]] ELSE key[r[i]] >= key[r[j]]
  <2> DEFINE k == (n - j) + 1
             m == (n - i) + 1
  <2>1. k \in 1..n /\ m \in 1..n /\ k < m /\ r[i] = s[m] /\ r[j] = s[k]
    BY <1>1, <1>5, <1>8
  <2>2. IF d = "ASC" THEN key[s[k]] <= key[s[m]] ELSE key[s[k]] >= key[s[m]]
    BY <1>3, <2>1 DEF Orders
  <2>3. (e = "ASC") = (d # "ASC")
    OBVIOUS
  <2> HIDE DEF k, m, r
  <2>4. CASE e = "ASC"
    BY <2>1, <2>2, <2>3, <2>4
  <2>5. CASE e # "ASC"
    BY <2>1, <2>2, <2>3, <2>5
  <2>6. QED
    BY <2>4, <2>5
<1>9. QED
  BY <1>4, <1>6, <1>7, <1>8 DEF Orders

\* The lists sorted upwards are the lists sorted downwards, turned round.
LEMMA BothOrders ==
  ASSUME NEW S, IsFiniteSet(S), NEW key
  PROVE  Orders(S, key, "ASC") = {Reverse(s) : s \in Orders(S, key, "DESC")}
<1>1. \A s \in Orders(S, key, "DESC") : Reverse(s) \in Orders(S, key, "ASC")
  BY ReversedOrder
<1>2. \A s \in Orders(S, key, "ASC") : Reverse(s) \in Orders(S, key, "DESC") /\ Reverse(Reverse(s)) = s
  BY ReversedOrder
<1>3. QED
  BY <1>1, <1>2

\* Tokens are created one by one.
TokensFinite == IsFiniteSet(DOMAIN token)

\* There are finitely many tokens at any time.
LEMMA TokensStayFinite == DbSpec => []TokensFinite
<1>1. DbInit => TokensFinite
  <2> SUFFICES ASSUME NEW first, DOMAIN token = {first}
               PROVE  TokensFinite
    BY DEF DbInit
  <2>1. QED
    BY FS_Singleton DEF TokensFinite
<1>2. TokensFinite /\ [DbNext]_db => TokensFinite'
  <2> SUFFICES ASSUME TokensFinite, [DbNext]_db
               PROVE  TokensFinite'
    OBVIOUS
  <2>1. ASSUME NEW t \in Token, NEW a \in Account, NEW nsfw \in BOOLEAN, CreateToken(t, a, nsfw)
        PROVE  TokensFinite'
    <3>1. DOMAIN token' = DOMAIN token \cup {t}
      BY <2>1 DEF CreateToken
    <3>2. IsFiniteSet(DOMAIN token \cup {t})
      BY FS_AddElement DEF TokensFinite
    <3>3. QED
      BY <3>1, <3>2 DEF TokensFinite
  <2>2. CASE UNCHANGED token
    BY <2>2 DEF TokensFinite
  <2>3. \/ UNCHANGED token
        \/ \E t \in Token, a \in Account, nsfw \in BOOLEAN : CreateToken(t, a, nsfw)
    <3>1. \A t : OpenMarket(t) \/ Graduate(t) => UNCHANGED token
      BY DEF OpenMarket, Graduate
    <3>2. \A t, a, tok : Buy(t, a, tok) \/ Sell(t, a, tok) => UNCHANGED token
      BY DEF Buy, Sell, Trade
    <3>3. \A t, a, kind : Provide(t, a, kind) => UNCHANGED token
      BY DEF Provide
    <3>4. (Commit => UNCHANGED token) /\ (UNCHANGED db => UNCHANGED token)
      BY DEF Commit, db
    <3>5. QED
      BY <3>1, <3>2, <3>3, <3>4 DEF DbNext
  <2>4. QED
    BY <2>1, <2>2, <2>3
<1>3. QED
  BY <1>1, <1>2, PTL DEF DbSpec

\* The rows a list of this order has.
Ordered(type, is_nsfw) ==
    {t \in Shown(is_nsfw) : type = "latest_trade" => QualifyingTrades(t) # {}}

\* A list of any order has each of its tokens once, no more tokens than the total, the
\* total if every token counted has a market, and the other direction is its reverse.
OrdersComplete ==
    \A type \in OrderType, is_nsfw \in BOOLEAN :
        /\ \A s \in OrderLists(type, "DESC", is_nsfw) :
            /\ s \in Seq(Ordered(type, is_nsfw))
            /\ \A i, j \in DOMAIN s : s[i] = s[j] => i = j
            /\ \A t \in Ordered(type, is_nsfw) : \E i \in DOMAIN s : s[i] = t
            /\ Len(s) <= OrderCount(is_nsfw)
            /\ DOMAIN token \subseteq DOMAIN market /\ type # "latest_trade" => Len(s) = OrderCount(is_nsfw)
        /\ OrderLists(type, "ASC", is_nsfw) = {Reverse(s) : s \in OrderLists(type, "DESC", is_nsfw)}

\* Whatever the tables hold, their order lists are complete.
LEMMA OrdersFollow == TokensFinite => OrdersComplete
<1> SUFFICES ASSUME TokensFinite, NEW type \in OrderType, NEW is_nsfw \in BOOLEAN
             PROVE  /\ \A s \in OrderLists(type, "DESC", is_nsfw) :
                        /\ s \in Seq(Ordered(type, is_nsfw))
                        /\ \A i, j \in DOMAIN s : s[i] = s[j] => i = j
                        /\ \A t \in Ordered(type, is_nsfw) : \E i \in DOMAIN s : s[i] = t
                        /\ Len(s) <= OrderCount(is_nsfw)
                        /\ DOMAIN token \subseteq DOMAIN market /\ type # "latest_trade" =>
                            Len(s) = OrderCount(is_nsfw)
                    /\ OrderLists(type, "ASC", is_nsfw)
                       = {Reverse(s) : s \in OrderLists(type, "DESC", is_nsfw)}
  BY DEF OrdersComplete
<1> DEFINE S == Ordered(type, is_nsfw)
           All == {t \in DOMAIN token : is_nsfw \/ ~token[t].is_nsfw}
<1>1. PICK key : \A direction \in {"ASC", "DESC"} : OrderLists(type, direction, is_nsfw) = Orders(S, key, direction)
  <2>1. CASE type = "latest_trade"
    <3>1. S = {t \in Shown(is_nsfw) : QualifyingTrades(t) # {}}
      BY <2>1 DEF Ordered
    <3>2. \A direction : OrderLists(type, direction, is_nsfw) = Orders(S, [t \in S |-> LastTradeAt(t)], direction)
      BY <2>1, <3>1 DEF OrderLists, LatestTradeOrders
    <3>3. QED
      BY <3>2
  <2>2. CASE type = "market_cap"
    <3>1. S = Shown(is_nsfw)
      BY <2>2 DEF Ordered
    <3>2. \A direction : OrderLists(type, direction, is_nsfw) = Orders(S, MarketCap, direction)
      BY <2>2, <3>1 DEF OrderLists, MarketCapOrders
    <3>3. QED
      BY <3>2
  <2>3. CASE type = "creation_time"
    <3>1. S = Shown(is_nsfw)
      BY <2>3 DEF Ordered
    <3>2. \A direction : OrderLists(type, direction, is_nsfw) = Orders(S, CreatedAt, direction)
      BY <2>3, <3>1 DEF OrderLists, CreationTimeOrders
    <3>3. QED
      BY <3>2
  <2>4. QED
    BY <2>1, <2>2, <2>3 DEF OrderType
<1>2. S \in SUBSET All /\ All \in SUBSET DOMAIN token
  BY DEF Ordered, Shown, Listed
<1>3. IsFiniteSet(All) /\ IsFiniteSet(S)
  BY <1>2, FS_Subset DEF TokensFinite
<1>4. Cardinality(S) <= Cardinality(All)
  BY <1>2, <1>3, FS_Subset
<1>5. OrderCount(is_nsfw) = Cardinality(All)
  <2>1. CASE is_nsfw
    BY <2>1 DEF OrderCount, TokenCount
  <2>2. CASE ~is_nsfw
    BY <2>2 DEF OrderCount, TokenCount
  <2>3. QED
    BY <2>1, <2>2
<1>6. ASSUME DOMAIN token \subseteq DOMAIN market, type # "latest_trade"
      PROVE  S = All
  BY <1>6 DEF Ordered, Shown, Listed
<1> HIDE DEF S, All
<1>7. ASSUME NEW s \in Orders(S, key, "DESC")
      PROVE  /\ s \in Seq(S) /\ Len(s) = Cardinality(S)
             /\ \A i, j \in DOMAIN s : s[i] = s[j] => i = j
             /\ \A t \in S : \E i \in DOMAIN s : s[i] = t
  BY <1>3, OrderRows
<1>8. Orders(S, key, "ASC") = {Reverse(s) : s \in Orders(S, key, "DESC")}
  BY <1>3, BothOrders
<1>9. QED
  BY <1>1, <1>4, <1>5, <1>6, <1>7, <1>8 DEF S

\* An order list has every token once that it should show, no more tokens than the total
\* it is shown with, as many once every token has its market, and the other direction is
\* the same list turned round, for any tokens and trades (fetch_order_tokens and
\* get_total_count_by_type of controllers/token/order.rs).
THEOREM OrdersAreComplete == DbSpec => []OrdersComplete
BY OrdersFollow, TokensStayFinite, PTL

-----------------------------------------------------------------------------
(* Counts *)

\* Exactly one range and one of the two types names trade i of token t, and the counts
\* are those of the filters.
FiltersAgree ==
    \A t \in Token :
        /\ \A i \in DOMAIN swap :
            /\ \E range \in VolumeRange :
                /\ InRange(swap[i].quote, range)
                /\ \A other \in VolumeRange : InRange(swap[i].quote, other) => other = range
            /\ \E type \in {"BUY", "SELL"} : OfType(i, type)
            /\ ~(OfType(i, "BUY") /\ OfType(i, "SELL"))
        /\ \A q : q.trade_type \in TradeType =>
            TokenSwapCount(t, q) = Cardinality({i \in DOMAIN swap : SwapMatches(i, t, q)})

\* The filters agree in tables that are in order.
LEMMA FiltersFollow == DbInv => FiltersAgree
<1> SUFFICES ASSUME DbInv, NEW t \in Token
             PROVE  /\ \A i \in DOMAIN swap :
                        /\ \E range \in VolumeRange :
                            /\ InRange(swap[i].quote, range)
                            /\ \A other \in VolumeRange : InRange(swap[i].quote, other) => other = range
                        /\ \E type \in {"BUY", "SELL"} : OfType(i, type)
                        /\ ~(OfType(i, "BUY") /\ OfType(i, "SELL"))
                    /\ \A q : q.trade_type \in TradeType =>
                        TokenSwapCount(t, q) = Cardinality({i \in DOMAIN swap : SwapMatches(i, t, q)})
  BY DEF FiltersAgree
<1>1. ASSUME NEW v \in Nat
      PROVE  \E range \in VolumeRange :
                /\ InRange(v, range)
                /\ \A other \in VolumeRange : InRange(v, other) => other = range
  BY VolumeAssumption DEF VolumeRange, InRange
<1>2. ASSUME NEW i \in DOMAIN swap
      PROVE  /\ swap[i].quote \in Nat
             /\ \E type \in {"BUY", "SELL"} : OfType(i, type)
             /\ ~(OfType(i, "BUY") /\ OfType(i, "SELL"))
  <2>1. swap \in Seq(SwapRow) /\ DOMAIN swap = 1..Len(swap)
    BY DEF DbInv, RowsOK
  <2>2. swap[i] \in SwapRow
    BY <2>1
  <2>3. swap[i].quote \in Nat
    BY <2>2 DEF SwapRow
  <2>4. QED
    BY <2>3 DEF OfType
<1>3. ASSUME NEW q, q.trade_type \in TradeType
      PROVE  TokenSwapCount(t, q) = Cardinality({i \in DOMAIN swap : SwapMatches(i, t, q)})
  <2>1. CASE q.volume_ranges = {} /\ q.account_id \notin Account
    <3>1. \A i \in DOMAIN swap : SwapMatches(i, t, q) <=> swap[i].token = t /\ OfType(i, q.trade_type)
      BY <2>1 DEF SwapMatches
    <3>2. TokenSwapCount(t, q) = Cardinality({i \in DOMAIN swap : swap[i].token = t /\ OfType(i, q.trade_type)})
      BY <1>3, <2>1 DEF TokenSwapCount, SwapCountTable
    <3>3. {i \in DOMAIN swap : SwapMatches(i, t, q)}
          = {i \in DOMAIN swap : swap[i].token = t /\ OfType(i, q.trade_type)}
      BY <3>1
    <3>4. QED
      BY <3>2, <3>3
  <2>2. CASE ~(q.volume_ranges = {} /\ q.account_id \notin Account)
    BY <2>2 DEF TokenSwapCount
  <2>3. QED
    BY <2>1, <2>2
<1>4. QED
  BY <1>1, <1>2, <1>3

\* The CMS counts every trader once.
UsersSplit ==
    \A inactive \in Nat :
        LET churned == UserActivity(inactive, Cardinality(Token), TRUE).stats.total_users
            active == UserActivity(inactive, Cardinality(Token), FALSE).stats.total_users
        IN  /\ churned + active = Cardinality(Traders)
            /\ NewUsers(inactive) <= active

\* A trader has a first and a last swap.
LEMMA SwapTimesOf ==
  ASSUME DbInv, NEW a \in Traders
  PROVE  FirstSwapAt(a) \in Nat /\ LastSwapAt(a) \in Nat /\ FirstSwapAt(a) <= LastSwapAt(a)
<1>1. block \in Nat
  BY BlocksOfRows
<1>2. ASSUME NEW i \in DOMAIN swap
      PROVE  SwapAt(i) \in 0..block
  <2>1. swap[i].block \in BalanceBlocks
    BY DEF BalanceBlocks
  <2>2. swap[i].block \in 1..block
    BY <2>1, BlocksOfRows
  <2>3. QED
    BY <1>1, <2>2 DEF SwapAt, Second
<1>3. TimesOf(a) \subseteq 0..block /\ TimesOf(a) # {}
  BY <1>2 DEF TimesOf, Traders
<1>4. TimesOf(a) \subseteq Nat
  BY <1>1, <1>3
<1>5. \E at \in TimesOf(a) : \A other \in TimesOf(a) : other <= at
  BY <1>1, <1>3, GreatestElement
<1>6. \E at \in TimesOf(a) : \A other \in TimesOf(a) : at <= other
  BY <1>3, <1>4, LeastElement
<1>7. LastSwapAt(a) \in TimesOf(a) /\ \A other \in TimesOf(a) : other <= LastSwapAt(a)
  BY <1>5 DEF LastSwapAt
<1>8. FirstSwapAt(a) \in TimesOf(a) /\ \A other \in TimesOf(a) : FirstSwapAt(a) <= other
  BY <1>6 DEF FirstSwapAt
<1>9. QED
  BY <1>4, <1>7, <1>8

\* The counts of users agree in tables that are in order.
LEMMA UsersFollow == DbInv => UsersSplit
<1> SUFFICES ASSUME DbInv, NEW inactive \in Nat
             PROVE  LET churned == UserActivity(inactive, Cardinality(Token), TRUE).stats.total_users
                        active == UserActivity(inactive, Cardinality(Token), FALSE).stats.total_users
                    IN  /\ churned + active = Cardinality(Traders)
                        /\ NewUsers(inactive) <= active
  BY DEF UsersSplit
<1> DEFINE Churned == TargetUsers(inactive, TRUE)
           Active == TargetUsers(inactive, FALSE)
           New == {a \in Traders : FirstSwapAt(a) >= Clock - inactive}
<1>1. Churned \cup Active = Traders /\ Churned \cap Active = {}
  BY DEF TargetUsers
<1>2. IsFiniteSet(Traders)
  <2>1. DOMAIN swap = 1..Len(swap) /\ Len(swap) \in Nat
    BY DEF DbInv, RowsOK
  <2>2. IsFiniteSet(DOMAIN swap)
    BY <2>1, FS_Interval
  <2> DEFINE Trader == [i \in DOMAIN swap |-> swap[i].account]
  <2>3. Trader \in Surjection(DOMAIN swap, Traders)
    BY DEF Surjection, Traders
  <2>4. QED
    BY <2>2, <2>3, FS_Surjection
<1>3. Clock \in Nat
  BY BlocksOfRows, SecondGrows DEF Clock
<1>4. New \subseteq Active
  <2> SUFFICES ASSUME NEW a \in Traders, FirstSwapAt(a) >= Clock - inactive
               PROVE  ~(LastSwapAt(a) < Clock - inactive)
    BY DEF TargetUsers
  <2>1. FirstSwapAt(a) \in Nat /\ LastSwapAt(a) \in Nat /\ FirstSwapAt(a) <= LastSwapAt(a)
    BY SwapTimesOf
  <2>2. QED
    BY <1>3, <2>1
<1>5. /\ UserActivity(inactive, Cardinality(Token), TRUE).stats.total_users = Cardinality(Churned)
      /\ UserActivity(inactive, Cardinality(Token), FALSE).stats.total_users = Cardinality(Active)
      /\ NewUsers(inactive) = Cardinality(New)
  BY DEF UserActivity, UserStats, NewUsers
<1> HIDE DEF Churned, Active, New
<1>6. Churned \in SUBSET Traders /\ Active \in SUBSET Traders
  BY <1>1
<1>7. IsFiniteSet(Churned) /\ IsFiniteSet(Active)
  BY <1>2, <1>6, FS_Subset
<1>8. Cardinality(Churned \cup Active) = Cardinality(Churned) + Cardinality(Active)
  BY <1>1, <1>7, SplitSize
<1>9. New \in SUBSET Active
  BY <1>4
<1>10. Cardinality(New) <= Cardinality(Active)
  BY <1>7, <1>9, FS_Subset
<1>11. QED
  BY <1>1, <1>5, <1>8, <1>10

\* The volume ranges and the trade types split the trades of a token, its count of trades
\* is that of the filters though it may come from another table, and the CMS counts
\* every trader either as churned or as active and no new user as churned, for any
\* trades and any time of inactivity (VolumeRange, get_swaps_by_token,
\* get_total_count_by_token_with_filters, get_user_activity, get_new_users).
THEOREM CountsAgree == DbSpec => [](FiltersAgree /\ UsersSplit)
BY FiltersFollow, UsersFollow, DbInvariance, PTL

\* Trades of a token and the accounts that made them, in any period: no more makers than
\* trades, no fewer trades in a longer period, and in a period as long as the market the
\* stored counts.
MetricsCounted ==
    \A t \in Token, period \in Nat :
        LET m == Metric(t, period) IN
        /\ m.makers.buy <= m.transactions.buy
        /\ m.makers.sell <= m.transactions.sell
        /\ m.transactions.total = Cardinality({i \in DOMAIN swap : InPeriod(i, t, period)})
        /\ \A longer \in Nat : period <= longer =>
            m.transactions.total <= Metric(t, longer).transactions.total
        /\ period >= Clock =>
            /\ m.transactions.buy = SwapCountTable(t)["BUY"]
            /\ m.transactions.sell = SwapCountTable(t)["SELL"]
            /\ m.transactions.total = SwapCountTable(t)["ALL"]

\* Trades of t in a period, and their buys or sells.
Traded(t, period) == {i \in DOMAIN swap : InPeriod(i, t, period)}
Side(t, period, is_buy) == {i \in DOMAIN swap : InPeriod(i, t, period) /\ swap[i].is_buy = is_buy}

\* There are finitely many trades, and each is a row of table swap.
LEMMA SwapsFinite ==
  ASSUME DbInv
  PROVE  IsFiniteSet(DOMAIN swap) /\ \A i \in DOMAIN swap : swap[i] \in SwapRow
<1>1. DOMAIN swap = 1..Len(swap) /\ Len(swap) \in Nat /\ swap \in Seq(SwapRow)
  BY DEF DbInv, RowsOK
<1>2. QED
  BY <1>1, FS_Interval

\* A trade is not newer than the clock.
LEMMA SwapTimeBounds ==
  ASSUME DbInv, NEW i \in DOMAIN swap
  PROVE  Clock \in Nat /\ SwapAt(i) \in 1..Clock
<1>1. swap[i].block \in 1..block /\ block \in Nat
  BY BlocksOfRows DEF BalanceBlocks
<1>2. QED
  BY <1>1 DEF SwapAt, Clock, Second

\* A set of trades has no more makers than trades.
LEMMA MakersBound ==
  ASSUME DbInv, NEW S, S \subseteq DOMAIN swap
  PROVE  Makers(S) <= Cardinality(S)
<1> DEFINE Maker == [i \in S |-> swap[i].account]
           T == {swap[i].account : i \in S}
<1>1. IsFiniteSet(S)
  <2>1. S \in SUBSET DOMAIN swap
    OBVIOUS
  <2>2. QED
    BY <2>1, SwapsFinite, FS_Subset
<1>2. Maker \in Surjection(S, T)
  BY DEF Surjection
<1>3. Cardinality(T) <= Cardinality(S)
  BY <1>1, <1>2, FS_Surjection
<1>4. QED
  BY <1>3 DEF Makers

\* The trades of a period are its buys and its sells.
LEMMA SidesOfTrades ==
  ASSUME DbInv, NEW t \in Token, NEW period \in Nat
  PROVE  /\ IsFiniteSet(Traded(t, period))
         /\ Side(t, period, TRUE) \subseteq DOMAIN swap /\ Side(t, period, FALSE) \subseteq DOMAIN swap
         /\ Cardinality(Traded(t, period))
            = Cardinality(Side(t, period, TRUE)) + Cardinality(Side(t, period, FALSE))
<1>1. \A i \in DOMAIN swap : swap[i].is_buy \in BOOLEAN
  BY SwapsFinite DEF SwapRow
<1>2. /\ Side(t, period, TRUE) \cup Side(t, period, FALSE) = Traded(t, period)
      /\ Side(t, period, TRUE) \cap Side(t, period, FALSE) = {}
  BY <1>1 DEF Side, Traded
<1>3. /\ Side(t, period, TRUE) \in SUBSET DOMAIN swap
      /\ Side(t, period, FALSE) \in SUBSET DOMAIN swap
      /\ Traded(t, period) \in SUBSET DOMAIN swap
  BY DEF Side, Traded
<1>4. /\ IsFiniteSet(Side(t, period, TRUE))
      /\ IsFiniteSet(Side(t, period, FALSE))
      /\ IsFiniteSet(Traded(t, period))
  BY <1>3, SwapsFinite, FS_Subset
<1>5. Cardinality(Side(t, period, TRUE) \cup Side(t, period, FALSE))
      = Cardinality(Side(t, period, TRUE)) + Cardinality(Side(t, period, FALSE))
  BY <1>2, <1>4, SplitSize
<1>6. QED
  BY <1>2, <1>3, <1>4, <1>5

\* What the metrics of a period count.
LEMMA MetricFields ==
  ASSUME NEW t, NEW period
  PROVE  LET m == Metric(t, period) IN
         /\ m.makers.buy = Makers(Side(t, period, TRUE)) /\ m.makers.sell = Makers(Side(t, period, FALSE))
         /\ m.transactions.buy = Cardinality(Side(t, period, TRUE))
         /\ m.transactions.sell = Cardinality(Side(t, period, FALSE))
         /\ m.transactions.total = Cardinality(Side(t, period, TRUE)) + Cardinality(Side(t, period, FALSE))
BY DEF Metric, Side

\* The metrics agree with the stored counts in tables that are in order.
LEMMA MetricsFollow == DbInv => MetricsCounted
<1> SUFFICES ASSUME DbInv, NEW t \in Token, NEW period \in Nat
             PROVE  LET m == Metric(t, period) IN
                    /\ m.makers.buy <= m.transactions.buy
                    /\ m.makers.sell <= m.transactions.sell
                    /\ m.transactions.total = Cardinality({i \in DOMAIN swap : InPeriod(i, t, period)})
                    /\ \A longer \in Nat : period <= longer =>
                        m.transactions.total <= Metric(t, longer).transactions.total
                    /\ period >= Clock =>
                        /\ m.transactions.buy = SwapCountTable(t)["BUY"]
                        /\ m.transactions.sell = SwapCountTable(t)["SELL"]
                        /\ m.transactions.total = SwapCountTable(t)["ALL"]
  BY DEF MetricsCounted
<1> DEFINE m == Metric(t, period)
<1>1. /\ m.makers.buy <= m.transactions.buy
      /\ m.makers.sell <= m.transactions.sell
  BY MetricFields, SidesOfTrades, MakersBound
<1>2. \A p \in Nat : Metric(t, p).transactions.total = Cardinality(Traded(t, p))
  BY MetricFields, SidesOfTrades
<1>3. ASSUME NEW longer \in Nat, period <= longer
      PROVE  m.transactions.total <= Metric(t, longer).transactions.total
  <2>1. ASSUME NEW i \in DOMAIN swap, InPeriod(i, t, period)
        PROVE  InPeriod(i, t, longer)
    BY <1>3, <2>1, SwapTimeBounds DEF InPeriod
  <2>2. Traded(t, period) \in SUBSET Traded(t, longer)
    BY <2>1 DEF Traded
  <2>3. Cardinality(Traded(t, period)) <= Cardinality(Traded(t, longer))
    BY <2>2, SidesOfTrades, FS_Subset
  <2>4. QED
    BY <1>2, <2>3
<1>4. ASSUME period >= Clock
      PROVE  /\ m.transactions.buy = SwapCountTable(t)["BUY"]
             /\ m.transactions.sell = SwapCountTable(t)["SELL"]
             /\ m.transactions.total = SwapCountTable(t)["ALL"]
  <2>1. ASSUME NEW i \in DOMAIN swap
        PROVE  /\ InPeriod(i, t, period) <=> swap[i].token = t
               /\ swap[i].is_buy \in BOOLEAN
    <3>1. swap[i].is_buy \in BOOLEAN
      BY SwapsFinite DEF SwapRow
    <3>2. SwapAt(i) > Clock - period /\ SwapAt(i) <= Clock
      BY <1>4, SwapTimeBounds
    <3>3. QED
      BY <3>1, <3>2 DEF InPeriod
  <2>2. /\ {i \in DOMAIN swap : swap[i].token = t /\ OfType(i, "BUY")} = Side(t, period, TRUE)
        /\ {i \in DOMAIN swap : swap[i].token = t /\ OfType(i, "SELL")} = Side(t, period, FALSE)
        /\ {i \in DOMAIN swap : swap[i].token = t /\ OfType(i, "ALL")} = Traded(t, period)
    BY <2>1 DEF OfType, Side, Traded
  <2>3. \A type \in TradeType : SwapCountTable(t)[type]
            = Cardinality({i \in DOMAIN swap : swap[i].token = t /\ OfType(i, type)})
    BY DEF SwapCountTable
  <2>4. {"ALL", "BUY", "SELL"} = TradeType
    BY DEF TradeType
  <2>5. /\ SwapCountTable(t)["BUY"] = Cardinality(Side(t, period, TRUE))
        /\ SwapCountTable(t)["SELL"] = Cardinality(Side(t, period, FALSE))
        /\ SwapCountTable(t)["ALL"] = Cardinality(Traded(t, period))
    <3>1. /\ SwapCountTable(t)["BUY"] = Cardinality({i \in DOMAIN swap : swap[i].token = t /\ OfType(i, "BUY")})
          /\ SwapCountTable(t)["SELL"] = Cardinality({i \in DOMAIN swap : swap[i].token = t /\ OfType(i, "SELL")})
          /\ SwapCountTable(t)["ALL"] = Cardinality({i \in DOMAIN swap : swap[i].token = t /\ OfType(i, "ALL")})
      BY <2>3, <2>4
    <3>2. QED
      BY <2>2, <3>1
  <2>6. /\ m.transactions.buy = Cardinality(Side(t, period, TRUE))
        /\ m.transactions.sell = Cardinality(Side(t, period, FALSE))
    BY MetricFields
  <2>7. QED
    BY <1>2, <2>5, <2>6
<1>5. QED
  BY <1>1, <1>2, <1>3, <1>4 DEF Traded

\* The trading metrics never count more makers of buys (sells) than buys (sells), a longer
\* period has no fewer trades, and over everything they count what the stored count of the
\* trades says, for any trades (trading_metrics_batch, table swap_count).
THEOREM MetricsAreCounted == DbSpec => []MetricsCounted
BY MetricsFollow, DbInvariance, PTL

-----------------------------------------------------------------------------
(* Positions *)

\* A token's holders and an account's holdings name the same positions, and an account's
\* share of a pool is no more than the pool has and nothing without a pool.
PositionsMatch ==
    \A t \in Listed, a \in Account :
        /\ a \in HolderSet(t) <=> t \in HeldSet(a)
        /\ a \in HolderSet(t) <=> BalanceInfo(t, a).balance > 0 \/ (t \in DOMAIN pool /\ lp[t][a] > 0)
        /\ LpBalance(t, a) \in Nat
        /\ t \in DOMAIN pool => LpBalance(t, a) <= TokenReserve(pool[t], t)
        /\ t \notin DOMAIN pool => LpBalance(t, a) = 0

\* A part of a whole, rounded down, is no more than the whole.
LEMMA PartOfWhole ==
  ASSUME NEW share \in Nat, NEW whole \in Nat \ {0}, NEW amount \in Nat, share <= whole
  PROVE  (share * amount) \div whole \in Nat /\ (share * amount) \div whole <= amount
<1> DEFINE n == share * amount
           q == n \div whole
<1>1. n \in Nat /\ n <= whole * amount
  OBVIOUS
<1>2. q \in Nat /\ whole * q <= n
  <2>1. n \in Nat
    BY <1>1
  <2> HIDE DEF n
  <2>2. QED
    BY <2>1
<1>3. ~(q > amount)
  <2> SUFFICES ASSUME q >= amount + 1
               PROVE  FALSE
    BY <1>2
  <2>1. q \in Nat /\ whole * q <= whole * amount
    <3>1. whole * amount \in Nat /\ whole * q \in Nat
      BY <1>2
    <3>2. QED
      BY <1>1, <1>2, <3>1
  <2> HIDE DEF q
  <2>2. whole * q >= whole * (amount + 1)
    BY <2>1
  <2>3. whole * (amount + 1) = whole * amount + whole
    OBVIOUS
  <2>4. whole * amount \in Nat
    OBVIOUS
  <2>5. QED
    BY <2>1, <2>2, <2>3, <2>4
<1>4. QED
  BY <1>2, <1>3

\* An account's shares are among those of the supply.
LEMMA SharesOfAccount ==
  ASSUME DbInv, NEW t \in DOMAIN pool, NEW a \in Account
  PROVE  lp[t][a] \in Nat /\ lp[t][a] <= pool[t].total_supply /\ pool[t].total_supply \in Nat \ {0}
<1>1. t \in Token
  BY DEF DbInv, TablesOK
<1>2. lp[t][a] \in Nat
  BY <1>1 DEF DbInv, TablesOK
<1>3. IsFiniteSet(Shares(t)) /\ pool[t].total_supply = 2 + Cardinality(Shares(t))
  BY <1>1 DEF DbInv, SharesCounted
<1> DEFINE Own == {a} \X (1..lp[t][a])
<1>4. Own \in SUBSET Shares(t)
  BY <1>2 DEF Shares
<1>5. Cardinality(Own) <= Cardinality(Shares(t)) /\ IsFiniteSet(Own)
  BY <1>3, <1>4, FS_Subset
<1>6. IsFiniteSet({a}) /\ Cardinality({a}) = 1
  BY FS_Singleton
<1>7. IsFiniteSet(1..lp[t][a]) /\ Cardinality(1..lp[t][a]) = lp[t][a]
  <2>1. \A n \in Nat : IsFiniteSet(1..n) /\ Cardinality(1..n) = n
    BY FS_Interval
  <2>2. QED
    BY <1>2, <2>1, Zenon
<1>8. Cardinality(Own) = Cardinality({a}) * Cardinality(1..lp[t][a])
  BY <1>6, <1>7, FS_Product
<1> HIDE DEF Own
<1>9. Cardinality(Own) = lp[t][a]
  BY <1>2, <1>6, <1>7, <1>8
<1>10. Cardinality(Shares(t)) \in Nat
  BY <1>3, FS_CardinalityType
<1>11. QED
  BY <1>2, <1>3, <1>5, <1>9, <1>10

\* Positions match in tables that are in order.
LEMMA PositionsFollow == DbInv => PositionsMatch
<1> SUFFICES ASSUME DbInv, NEW t \in Listed, NEW a \in Account
             PROVE  /\ a \in HolderSet(t) <=> t \in HeldSet(a)
                    /\ a \in HolderSet(t) <=> BalanceInfo(t, a).balance > 0 \/ (t \in DOMAIN pool /\ lp[t][a] > 0)
                    /\ LpBalance(t, a) \in Nat
                    /\ t \in DOMAIN pool => LpBalance(t, a) <= TokenReserve(pool[t], t)
                    /\ t \notin DOMAIN pool => LpBalance(t, a) = 0
  BY DEF PositionsMatch
<1>1. t \in DOMAIN token /\ t \in DOMAIN market
  BY DEF Listed
<1>2. BalanceInfo(t, a).balance = balance[t][a]
  BY DEF BalanceInfo
<1>3. a \in HolderSet(t) <=> t \in HeldSet(a)
  BY <1>1 DEF HolderSet, HeldSet, Pooled
<1>4. a \in HolderSet(t) <=> BalanceInfo(t, a).balance > 0 \/ (t \in DOMAIN pool /\ lp[t][a] > 0)
  BY <1>1, <1>2 DEF HolderSet, Pooled
<1>5. CASE t \notin DOMAIN pool
  BY <1>3, <1>4, <1>5 DEF LpBalance
<1>6. CASE t \in DOMAIN pool
  <2>1. pool[t] \in PoolRow /\ (pool[t].token0 = t \/ pool[t].token1 = t)
    <3>1. pool[t] \in PoolRow
      BY <1>6 DEF DbInv, TablesOK
    <3>2. {pool[t].token0, pool[t].token1} = {t, Quote}
      BY <1>6, ReservesByAsset
    <3>3. QED
      BY <3>1, <3>2
  <2>2. lp[t][a] \in Nat /\ lp[t][a] <= pool[t].total_supply /\ pool[t].total_supply \in Nat \ {0}
    BY <1>6, SharesOfAccount
  <2>3. TokenReserve(pool[t], t) \in Nat
    BY <2>1 DEF TokenReserve, PoolRow
  <2>4. LpBalance(t, a) = (lp[t][a] * TokenReserve(pool[t], t)) \div pool[t].total_supply
    BY <1>6, <2>1, <2>2 DEF LpBalance, TokenReserve
  <2>5. LpBalance(t, a) \in Nat /\ LpBalance(t, a) <= TokenReserve(pool[t], t)
    BY <2>2, <2>3, <2>4, PartOfWhole
  <2>6. QED
    BY <1>3, <1>4, <1>6, <2>5
<1>7. QED
  BY <1>5, <1>6

\* The holders of a token and the holdings of its accounts name the same positions, and no
\* position in a pool is worth more of the token than the pool has, for any pools and
\* shares (fetch_holders_by_token, get_hold_token_by_account of controllers/trading/position.rs).
THEOREM PositionsAreBacked == DbSpec => []PositionsMatch
BY PositionsFollow, DbInvariance, PTL

----------------------------------------------------------------------------
(* Sorted lists *)

\* R puts the elements of S in one line.
InLine(S, R) ==
    /\ \A x, y \in S : x # y => <<x, y>> \in R \/ <<y, x>> \in R
    /\ \A x, y \in S : ~(<<x, y>> \in R /\ <<y, x>> \in R)
    /\ \A x, y, z \in S : <<x, y>> \in R /\ <<y, z>> \in R => <<x, z>> \in R

\* A finite set can be listed in the order of a line: an element stands behind as many
\* as are before it.
LEMMA SortedExists ==
  ASSUME NEW S, IsFiniteSet(S), NEW R, InLine(S, R)
  PROVE  \E s \in SetToSeqs(S) : \A i, j \in DOMAIN s : i < j => <<s[i], s[j]>> \in R
<1> DEFINE n == Cardinality(S)
           Below(x) == {y \in S : <<y, x>> \in R}
           rank == [x \in S |-> Cardinality(Below(x)) + 1]
<1>1. n \in Nat /\ IsFiniteSet(1..n) /\ Cardinality(1..n) = n
  <2>1. n \in Nat
    BY FS_CardinalityType
  <2>2. QED
    BY <2>1, FS_Interval
<1>2. ASSUME NEW x \in S
      PROVE  /\ IsFiniteSet(Below(x))
             /\ Cardinality(Below(x)) \in Nat
             /\ IsFiniteSet(Below(x) \cup {x})
             /\ Cardinality(Below(x) \cup {x}) = Cardinality(Below(x)) + 1
  <2>1. Below(x) \in SUBSET S
    OBVIOUS
  <2>2. IsFiniteSet(Below(x))
    BY <2>1, FS_Subset
  <2>3. x \notin Below(x)
    BY DEF InLine
  <2>4. IsFiniteSet(Below(x) \cup {x}) /\ Cardinality(Below(x) \cup {x}) = Cardinality(Below(x)) + 1
    BY <2>2, <2>3, FS_AddElement
  <2>5. Cardinality(Below(x)) \in Nat
    BY <2>2, FS_CardinalityType
  <2>6. QED
    BY <2>2, <2>4, <2>5
<1>3. ASSUME NEW x \in S, NEW T, IsFiniteSet(T), Below(x) \cup {x} \subseteq T
      PROVE  Cardinality(Below(x)) + 1 <= Cardinality(T)
  <2>1. Cardinality(Below(x) \cup {x}) <= Cardinality(T)
    BY <1>3, FS_Subset
  <2>2. QED
    BY <1>2, <2>1
<1>4. ASSUME NEW x \in S
      PROVE  Cardinality(Below(x)) + 1 \in 1..n
  <2> DEFINE c == Cardinality(Below(x))
  <2>1. c + 1 <= n
    BY <1>3
  <2>2. c \in Nat
    BY <1>2
  <2> HIDE DEF c, n
  <2>3. c + 1 \in 1..n
    BY <1>1, <2>1, <2>2
  <2>4. QED
    BY <2>3 DEF c
<1>5. ASSUME NEW x \in S, NEW y \in S, <<x, y>> \in R
      PROVE  Cardinality(Below(x)) + 1 < Cardinality(Below(y)) + 1
  <2>1. Below(x) \cup {x} \subseteq Below(y)
    BY <1>5 DEF InLine
  <2> DEFINE c == Cardinality(Below(x))
             d == Cardinality(Below(y))
  <2>2. c + 1 <= d
    BY <1>2, <1>3, <2>1
  <2>3. c \in Nat /\ d \in Nat
    BY <1>2
  <2> HIDE DEF c, d
  <2>4. c + 1 < d + 1
    BY <2>2, <2>3
  <2>5. QED
    BY <2>4 DEF c, d
<1> HIDE DEF Below, n
<1>6. \A x \in S : rank[x] = Cardinality(Below(x)) + 1 /\ rank[x] \in 1..n /\ rank[x] \in Nat
  BY <1>1, <1>4
<1> HIDE DEF rank
<1>7. rank \in Injection(S, 1..n)
  <2>1. \A x, y \in S : x # y => rank[x] # rank[y]
    <3>1. \A x, y \in S : <<x, y>> \in R => rank[x] < rank[y]
      BY <1>5, <1>6
    <3>2. \A x, y \in S : x # y => rank[x] < rank[y] \/ rank[y] < rank[x]
      BY <3>1 DEF InLine
    <3>3. QED
      BY <1>6, <3>2
  <2>2. rank \in [S -> 1..n]
    BY <1>6 DEF rank
  <2>3. QED
    BY <2>1, <2>2 DEF Injection, IsInjective
<1>8. rank \in Surjection(S, 1..n)
  BY <1>1, <1>7, FS_Injection DEF n
<1> DEFINE s == [i \in 1..n |-> CHOOSE x \in S : rank[x] = i]
<1>9. \A i \in 1..n : s[i] \in S /\ rank[s[i]] = i
  BY <1>8 DEF Surjection
<1> HIDE DEF s
<1>10. s \in [1..n -> S] /\ DOMAIN s = 1..n
  BY <1>9 DEF s
<1>11. \A i, j \in 1..n : i # j => s[i] # s[j]
  BY <1>9
<1>12. s \in SetToSeqs(S)
  BY <1>10, <1>11 DEF SetToSeqs, n
<1>13. ASSUME NEW i \in 1..n, NEW j \in 1..n, i < j
       PROVE  <<s[i], s[j]>> \in R
  <2>1. s[i] # s[j] /\ s[i] \in S /\ s[j] \in S /\ i \in Int /\ j \in Int
    BY <1>9, <1>11, <1>13, <1>1
  <2>2. <<s[j], s[i]>> \in R => j < i
    BY <1>5, <1>6, <1>9, <2>1
  <2>3. QED
    BY <1>13, <2>1, <2>2 DEF InLine
<1>14. QED
  BY <1>10, <1>12, <1>13

\* Elements of a finite set, each once.
LEMMA SeqsOfSet ==
  ASSUME NEW S, IsFiniteSet(S), NEW s \in SetToSeqs(S)
  PROVE  /\ s \in Seq(S) /\ Len(s) = Cardinality(S) /\ Len(s) \in Nat /\ DOMAIN s = 1..Len(s)
         /\ \A i \in 1..Len(s) : s[i] \in S
         /\ \A i, j \in DOMAIN s : s[i] = s[j] => i = j
         /\ \A x \in S : \E i \in DOMAIN s : s[i] = x
<1> DEFINE n == Cardinality(S)
<1>1. n \in Nat
  BY FS_CardinalityType
<1>2. s \in [1..n -> S] /\ \A i, j \in 1..n : i # j => s[i] # s[j]
  BY DEF SetToSeqs
<1>3. s \in Seq(S) /\ Len(s) = n /\ DOMAIN s = 1..n
  BY <1>1, <1>2
<1>4. s \in Injection(1..n, S)
  BY <1>2 DEF Injection, IsInjective
<1>5. IsFiniteSet(1..n) /\ Cardinality(1..n) = n
  BY <1>1, FS_Interval
<1>6. s \in Surjection(1..n, S)
  BY <1>4, <1>5, FS_Injection
<1>7. \A x \in S : \E i \in 1..n : s[i] = x
  BY <1>6 DEF Surjection
<1>8. QED
  BY <1>1, <1>2, <1>3, <1>7

\* It can be listed so in one way only.
LEMMA SortedOnce ==
  ASSUME NEW S, IsFiniteSet(S), NEW R, InLine(S, R),
         NEW s \in SetToSeqs(S), \A i, j \in DOMAIN s : i < j => <<s[i], s[j]>> \in R,
         NEW u \in SetToSeqs(S), \A i, j \in DOMAIN u : i < j => <<u[i], u[j]>> \in R
  PROVE  s = u
<1> DEFINE n == Cardinality(S)
<1>1. n \in Nat /\ DOMAIN s = 1..n /\ DOMAIN u = 1..n
  BY SeqsOfSet
<1>2. s \in [1..n -> S] /\ u \in [1..n -> S]
  BY DEF SetToSeqs
<1>3. /\ \A i, j \in 1..n : s[i] = s[j] => i = j
      /\ \A i, j \in 1..n : u[i] = u[j] => i = j
      /\ \A x \in S : \E i \in 1..n : s[i] = x
      /\ \A x \in S : \E i \in 1..n : u[i] = x
  <2>1. /\ \A i, j \in DOMAIN s : s[i] = s[j] => i = j
        /\ \A x \in S : \E i \in DOMAIN s : s[i] = x
    BY SeqsOfSet
  <2>2. /\ \A i, j \in DOMAIN u : u[i] = u[j] => i = j
        /\ \A x \in S : \E i \in DOMAIN u : u[i] = x
    BY SeqsOfSet
  <2>3. QED
    BY <1>1, <2>1, <2>2
<1>4. SUFFICES ASSUME s # u
               PROVE  FALSE
  OBVIOUS
<1> DEFINE D == {i \in 1..n : s[i] # u[i]}
<1>5. D # {} /\ D \subseteq Nat
  <2>1. s = [i \in 1..n |-> s[i]] /\ u = [i \in 1..n |-> u[i]]
    BY <1>2
  <2> HIDE DEF n
  <2>2. \E i \in 1..n : s[i] # u[i]
    BY <1>4, <2>1, Zenon
  <2>3. QED
    BY <1>1, <2>2
<1>6. PICK i \in D : \A j \in D : i <= j
  BY <1>5, LeastElement
<1>7. i \in 1..n /\ s[i] # u[i] /\ \A j \in 1..n : j < i => s[j] = u[j]
  BY <1>1, <1>6
<1> HIDE DEF D, n
<1>8. PICK k \in 1..n : u[k] = s[i]
  BY <1>2, <1>3, <1>7
<1>9. PICK m \in 1..n : s[m] = u[i]
  BY <1>2, <1>3, <1>7
<1>10. i < k
  <2>1. k # i
    BY <1>7, <1>8
  <2>2. ~(k < i)
    BY <1>3, <1>7, <1>8
  <2>3. QED
    BY <1>1, <1>7, <2>1, <2>2
<1>11. i < m
  <2>1. m # i
    BY <1>7, <1>9
  <2>2. ~(m < i)
    BY <1>3, <1>7, <1>9
  <2>3. QED
    BY <1>1, <1>7, <2>1, <2>2
<1>12. <<u[i], s[i]>> \in R
  BY <1>1, <1>7, <1>8, <1>10
<1>13. <<s[i], u[i]>> \in R
  BY <1>1, <1>7, <1>9, <1>11
<1>14. QED
  BY <1>2, <1>7, <1>12, <1>13 DEF InLine

----------------------------------------------------------------------------
(* Lists put together *)

\* Sequences put one after the other, when what the first k of them make is known for
\* every k.
LEMMA FlattenOf ==
  ASSUME NEW X, NEW n \in Nat \ {0}, NEW T \in [1..n -> Seq(X)], NEW F \in [1..n -> Seq(X)],
         F[1] = T[1],
         \A k \in 1..n : k # 1 => F[k] = F[k - 1] \o T[k]
  PROVE  FlattenSeq(T) = F[n]
<1>1. T \in Seq(Seq(X)) /\ Len(T) = n /\ n # 0
  OBVIOUS
<1> DEFINE G == CHOOSE flatten : flatten = [i \in 1..n |-> IF i = 1 THEN T[i] ELSE flatten[i-1] \o T[i]]
<1>2. FlattenSeq(T) = G[n]
  BY <1>1 DEF FlattenSeq
<1>3. F = [i \in 1..n |-> IF i = 1 THEN T[i] ELSE F[i-1] \o T[i]]
  <2>1. F = [i \in 1..n |-> F[i]]
    BY Zenon
  <2>2. \A i \in 1..n : F[i] = IF i = 1 THEN T[i] ELSE F[i-1] \o T[i]
    OBVIOUS
  <2>3. QED
    BY <2>1, <2>2, Zenon
<1>4. G = [i \in 1..n |-> IF i = 1 THEN T[i] ELSE G[i-1] \o T[i]]
  BY <1>3, Zenon
<1> HIDE DEF G
<1>5. \A i \in 1..n : G[i] = IF i = 1 THEN T[i] ELSE G[i-1] \o T[i]
  BY <1>4, Zenon
<1> DEFINE D == {i \in 1..n : G[i] # F[i]}
<1>6. D = {}
  <2>1. SUFFICES ASSUME D # {}
                 PROVE  FALSE
    OBVIOUS
  <2>2. D \subseteq Nat
    OBVIOUS
  <2>3. PICK i \in D : \A j \in D : i <= j
    BY <2>1, <2>2, LeastElement
  <2>4. i \in 1..n /\ G[i] # F[i]
    BY <2>3
  <2>5. i # 1
    BY <1>5, <2>4
  <2>6. i - 1 \in 1..n /\ i - 1 \notin D
    BY <2>3, <2>4, <2>5
  <2>7. G[i - 1] = F[i - 1]
    BY <2>6
  <2>8. G[i] = G[i - 1] \o T[i]
    BY <1>5, <2>4, <2>5
  <2>9. F[i] = F[i - 1] \o T[i]
    BY <2>4, <2>5
  <2>10. QED
    BY <2>4, <2>7, <2>8, <2>9
<1>7. \A i \in 1..n : G[i] = F[i]
  BY <1>6
<1>8. G[n] = F[n]
  BY <1>7
<1>9. QED
  BY <1>2, <1>8

\* The first rows of a list.
LEMMA FirstRows ==
  ASSUME NEW X, NEW s \in Seq(X), NEW m \in 0..Len(s)
  PROVE  /\ SubSeq(s, 1, m) \in Seq(X) /\ Len(SubSeq(s, 1, m)) = m
         /\ \A j \in 1..m : SubSeq(s, 1, m)[j] = s[j]
<1>1. Len(s) \in Nat
  OBVIOUS
<1>2. \A j \in 1..m : s[j] \in X
  BY <1>1
<1>3. QED
  BY <1>1, <1>2

\* The pages of a list, one after the other, are the list.
LEMMA PagesMakeList ==
  ASSUME NEW X, NEW s \in Seq(X), NEW limit \in Nat \ {0}
  PROVE  FlattenSeq([p \in 1..(Len(s) + 1) |-> PageOf(s, p, limit)]) = s
<1> DEFINE n == Len(s)
           T == [p \in 1..(n + 1) |-> PageOf(s, p, limit)]
           upto(p) == IF p * limit < n THEN p * limit ELSE n
           F == [p \in 1..(n + 1) |-> SubSeq(s, 1, upto(p))]
<1>1. n \in Nat /\ n + 1 \in Nat \ {0}
  OBVIOUS
<1>2. \A p \in Nat \ {0} : p * limit \in Nat /\ (p - 1) * limit \in Nat /\ p * limit = (p - 1) * limit + limit
  BY PageBounds
<1>3. \A p \in Nat \ {0} : upto(p) \in 0..n
  <2>1. \A m \in Nat : (IF m < n THEN m ELSE n) \in 0..n
    BY <1>1
  <2>2. QED
    BY <1>2, <2>1
<1>4. \A p \in Nat \ {0} : /\ PageOf(s, p, limit) \in Seq(X)
                           /\ SubSeq(s, 1, upto(p)) \in Seq(X)
                           /\ Len(SubSeq(s, 1, upto(p))) = upto(p)
                           /\ \A j \in 1..upto(p) : SubSeq(s, 1, upto(p))[j] = s[j]
  <2> SUFFICES ASSUME NEW p \in Nat \ {0}
               PROVE  /\ PageOf(s, p, limit) \in Seq(X)
                      /\ SubSeq(s, 1, upto(p)) \in Seq(X)
                      /\ Len(SubSeq(s, 1, upto(p))) = upto(p)
                      /\ \A j \in 1..upto(p) : SubSeq(s, 1, upto(p))[j] = s[j]
    OBVIOUS
  <2>1. PageOf(s, p, limit) \in Seq(X)
    BY PageRows
  <2>2. upto(p) \in 0..Len(s)
    BY <1>3
  <2> HIDE DEF upto, n
  <2>3. QED
    BY <2>1, <2>2, FirstRows
<1>5. \A p \in Nat \ {0} :
        /\ Len(PageOf(s, p, limit)) = IF (p - 1) * limit < upto(p) THEN upto(p) - (p - 1) * limit ELSE 0
        /\ \A j \in 1..Len(PageOf(s, p, limit)) : PageOf(s, p, limit)[j] = s[(p - 1) * limit + j]
  BY PageRows
<1> HIDE DEF upto
<1>6. T \in [1..(n + 1) -> Seq(X)] /\ F \in [1..(n + 1) -> Seq(X)]
  BY <1>1, <1>4
<1>7. F[1] = T[1]
  <2>1. T[1] = PageOf(s, 1, limit) /\ F[1] = SubSeq(s, 1, upto(1))
    <3>1. 1 \in 1..(n + 1)
      BY <1>1
    <3> HIDE DEF n
    <3>2. QED
      BY <3>1
  <2>2. PageOf(s, 1, limit) = SubSeq(s, 1, upto(1))
    <3>1. (1 - 1) * limit + 1 = 1 /\ 1 * limit = limit
      OBVIOUS
    <3>2. QED
      BY <3>1 DEF PageOf, upto
  <2>3. QED
    BY <2>1, <2>2
<1>8. ASSUME NEW k \in 1..(n + 1), k # 1
      PROVE  F[k] = F[k - 1] \o T[k]
  <2> DEFINE a == upto(k - 1)
             b == upto(k)
             r == PageOf(s, k, limit)
             low == (k - 1) * limit
  <2>1. k - 1 \in Nat \ {0} /\ k \in Nat \ {0} /\ k - 1 \in 1..(n + 1)
    BY <1>1, <1>8
  <2>2. F[k] = SubSeq(s, 1, b) /\ F[k - 1] = SubSeq(s, 1, a) /\ T[k] = r
    BY <2>1
  <2>3. low \in Nat /\ a = (IF low < n THEN low ELSE n) /\ b = (IF low + limit < n THEN low + limit ELSE n)
    <3>1. a = IF (k - 1) * limit < n THEN (k - 1) * limit ELSE n
      BY DEF upto
    <3>2. b = IF k * limit < n THEN k * limit ELSE n
      BY DEF upto
    <3>3. low \in Nat /\ k * limit = low + limit
      BY <1>2, <2>1
    <3>4. QED
      BY <3>1, <3>2, <3>3
  <2>4. /\ r \in Seq(X) /\ Len(r) = (IF low < b THEN b - low ELSE 0)
        /\ \A j \in 1..Len(r) : r[j] = s[low + j]
    BY <1>4, <1>5, <2>1
  <2>5. /\ SubSeq(s, 1, a) \in Seq(X) /\ Len(SubSeq(s, 1, a)) = a
        /\ \A j \in 1..a : SubSeq(s, 1, a)[j] = s[j]
    BY <1>4, <2>1
  <2>6. /\ SubSeq(s, 1, b) \in Seq(X) /\ Len(SubSeq(s, 1, b)) = b
        /\ \A j \in 1..b : SubSeq(s, 1, b)[j] = s[j]
    BY <1>4, <2>1
  <2> DEFINE u == SubSeq(s, 1, a)
             v == SubSeq(s, 1, b)
  <2>7. a \in Nat /\ b \in Nat /\ n \in Nat /\ limit \in Nat /\ limit > 0
    BY <1>1, <2>3
  <2> HIDE DEF a, b, r, low, u, v, n
  <2>8. Len(u) = a /\ Len(v) = b /\ u \in Seq(X) /\ v \in Seq(X)
    BY <2>5, <2>6 DEF u, v
  <2>9. b = a + Len(r) /\ (a = low \/ Len(r) = 0)
    <3> DEFINE c == Len(r)
    <3>1. c = (IF low < b THEN b - low ELSE 0) /\ low \in Nat
      BY <2>3, <2>4
    <3> HIDE DEF c
    <3>2. b = a + c /\ (a = low \/ c = 0)
      BY <2>3, <2>7, <3>1
    <3>3. QED
      BY <3>2 DEF c
  <2>10. v = u \o r
    <3>1. u \o r \in Seq(X) /\ Len(u \o r) = b
      BY <2>4, <2>8, <2>9
    <3>2. \A j \in 1..a : v[j] = s[j] /\ (u \o r)[j] = s[j]
      <4>1. \A j \in 1..a : v[j] = s[j] /\ u[j] = s[j]
        BY <2>4, <2>5, <2>6, <2>7, <2>9 DEF u, v
      <4>2. QED
        BY <2>4, <2>8, <2>7, <4>1
    <3>3. \A j \in a + 1..b : v[j] = s[j] /\ (u \o r)[j] = s[j]
      <4> SUFFICES ASSUME NEW j \in a + 1..b
                   PROVE  v[j] = s[j] /\ (u \o r)[j] = s[j]
        OBVIOUS
      <4>1. j - a \in 1..Len(r) /\ Len(r) # 0 /\ j \in 1..b
        BY <2>4, <2>7, <2>9
      <4>2. (u \o r)[j] = r[j - a]
        BY <2>4, <2>7, <2>8, <4>1
      <4>3. r[j - a] = s[low + (j - a)] /\ low + (j - a) = j
        BY <2>3, <2>4, <2>7, <2>9, <4>1
      <4>4. v[j] = s[j]
        BY <2>6, <4>1 DEF v
      <4>5. QED
        BY <4>2, <4>3, <4>4
    <3>4. \A j \in 1..b : v[j] = (u \o r)[j]
      <4> SUFFICES ASSUME NEW j \in 1..b
                   PROVE  v[j] = (u \o r)[j]
        OBVIOUS
      <4>1. j \in 1..a \/ j \in a + 1..b
        BY <2>7
      <4>2. QED
        BY <3>2, <3>3, <4>1
    <3>5. QED
      BY <2>7, <2>8, <3>1, <3>4
  <2>11. QED
    BY <2>2, <2>10 DEF u, v
<1>9. FlattenSeq(T) = F[n + 1]
  <2> HIDE DEF T, F, n
  <2>1. QED
    BY <1>1, <1>6, <1>7, <1>8, FlattenOf
<1>10. F[n + 1] = s
  <2>1. F[n + 1] = SubSeq(s, 1, upto(n + 1))
    <3>1. n + 1 \in 1..(n + 1)
      BY <1>1
    <3> HIDE DEF n
    <3>2. QED
      BY <3>1
  <2>2. upto(n + 1) = n
    <3>1. (n + 1) * limit >= n + 1
      BY <1>1
    <3>2. (n + 1) * limit \in Nat
      BY <1>1
    <3>3. QED
      BY <1>1, <3>1, <3>2 DEF upto
  <2>3. SubSeq(s, 1, n) = s
    OBVIOUS
  <2>4. QED
    BY <2>1, <2>2, <2>3
<1>11. QED
  BY <1>9, <1>10

----------------------------------------------------------------------------
(* Sums *)

\* A property of the empty set that carries over from a set without one of its elements
\* to the set, for each set some element, is one of every finite set.
LEMMA FiniteSteps ==
  ASSUME NEW S, IsFiniteSet(S), NEW P, {} \in P,
         \A T \in SUBSET S : T # {} => \E x \in T : (T \ {x} \in P => T \in P)
  PROVE  S \in P
<1> DEFINE Bad == {T \in SUBSET S : T \notin P}
           Sizes == {Cardinality(T) : T \in Bad}
<1>1. \A T \in SUBSET S : IsFiniteSet(T) /\ Cardinality(T) \in Nat
  <2> SUFFICES ASSUME NEW T \in SUBSET S
               PROVE  IsFiniteSet(T) /\ Cardinality(T) \in Nat
    OBVIOUS
  <2>1. IsFiniteSet(T)
    BY FS_Subset
  <2>2. QED
    BY <2>1, FS_CardinalityType
<1>2. SUFFICES ASSUME S \notin P
               PROVE  FALSE
  OBVIOUS
<1>3. Sizes \subseteq Nat /\ Sizes # {}
  BY <1>1, <1>2
<1>4. PICK n \in Sizes : \A m \in Sizes : n <= m
  BY <1>3, LeastElement
<1>5. PICK T \in Bad : n = Cardinality(T)
  BY <1>4
<1>6. T \in SUBSET S /\ T \notin P /\ T # {}
  BY <1>5
<1>7. PICK x \in T : T \ {x} \in P => T \in P
  BY <1>6
<1>8. T \ {x} \in Bad
  BY <1>6, <1>7
<1>9. Cardinality(T \ {x}) = n - 1
  <2>1. IsFiniteSet(T)
    BY <1>1, <1>6
  <2>2. Cardinality(T \ {x}) = Cardinality(T) - 1
    BY <2>1, FS_RemoveElement
  <2>3. QED
    BY <1>5, <2>2
<1>10. n - 1 \in Sizes
  BY <1>8, <1>9
<1> HIDE DEF Sizes
<1>11. n \in Nat /\ n <= n - 1
  BY <1>3, <1>4, <1>10
<1>12. QED
  BY <1>11

\* The units of the numbers g[x] of the elements of T, one by one.
Units(g, T) == {u \in T \X (Nat \ {0}) : u[2] <= g[u[1]]}

\* An element of T has as many units as its number says, and they are not those of others.
LEMMA UnitsOfOne ==
  ASSUME NEW T, NEW x \in T, NEW g, g[x] \in Nat
  PROVE  LET own == {x} \X (1..g[x]) IN
         /\ IsFiniteSet(own) /\ Cardinality(own) = g[x]
         /\ Units(g, T) = Units(g, T \ {x}) \cup own
         /\ Units(g, T \ {x}) \cap own = {}
<1> DEFINE own == {x} \X (1..g[x])
<1>1. IsFiniteSet({x}) /\ Cardinality({x}) = 1
  BY FS_Singleton
<1>2. IsFiniteSet(1..g[x]) /\ Cardinality(1..g[x]) = g[x]
  <2>1. \A n \in Nat : IsFiniteSet(1..n) /\ Cardinality(1..n) = n
    BY FS_Interval
  <2>2. QED
    BY <2>1, Zenon
<1>3. IsFiniteSet(own) /\ Cardinality(own) = Cardinality({x}) * Cardinality(1..g[x])
  BY <1>1, <1>2, FS_Product
<1> HIDE DEF own
<1>4. Cardinality(own) = g[x]
  BY <1>1, <1>2, <1>3
<1>5. Units(g, T) = Units(g, T \ {x}) \cup own
  BY DEF Units, own
<1>6. Units(g, T \ {x}) \cap own = {}
  BY DEF Units, own
<1>7. QED
  BY <1>3, <1>4, <1>5, <1>6 DEF own

\* Numbers of finitely many elements have finitely many units.
LEMMA UnitsFinite ==
  ASSUME NEW S, IsFiniteSet(S), NEW g, \A x \in S : g[x] \in Nat
  PROVE  IsFiniteSet(Units(g, S))
<1> DEFINE P == {T \in SUBSET S : IsFiniteSet(Units(g, T))}
<1>1. {} \in P
  <2>1. Units(g, {}) = {}
    BY DEF Units
  <2>2. QED
    BY <2>1, FS_EmptySet
<1>2. ASSUME NEW T \in SUBSET S, T # {}
      PROVE  \E x \in T : (T \ {x} \in P => T \in P)
  <2>1. PICK x \in T : TRUE
    BY <1>2
  <2>2. g[x] \in Nat
    OBVIOUS
  <2> DEFINE own == {x} \X (1..g[x])
  <2>3. IsFiniteSet(own) /\ Units(g, T) = Units(g, T \ {x}) \cup own
    BY <2>2, UnitsOfOne
  <2> HIDE DEF own
  <2>4. IsFiniteSet(Units(g, T \ {x})) => IsFiniteSet(Units(g, T))
    BY <2>3, FS_Union
  <2>5. QED
    BY <2>4
<1> HIDE DEF P
<1>3. S \in P
  BY <1>1, <1>2, FiniteSteps
<1>4. QED
  BY <1>3 DEF P

\* A sum counts the units of its numbers.
LEMMA SumOfUnits ==
  ASSUME NEW S, IsFiniteSet(S), NEW g, \A x \in S : g[x] \in Nat
  PROVE  SumFunctionOnSet(g, S) = Cardinality(Units(g, S))
<1> DEFINE pick(s) == CHOOSE x \in s : TRUE
           iter == CHOOSE iter : iter = [s \in SUBSET S |-> IF s = {} THEN 0
                                            ELSE g[CHOOSE x \in s : TRUE] + iter[s \ {CHOOSE x \in s : TRUE}]]
           count == [s \in SUBSET S |-> Cardinality(Units(g, s))]
<1>1. SumFunctionOnSet(g, S) = iter[S]
  BY DEF SumFunctionOnSet, FoldFunctionOnSet, MapThenFoldSet
<1>2. count[{}] = 0
  <2>1. Units(g, {}) = {}
    BY DEF Units
  <2>2. QED
    BY <2>1, FS_EmptySet
<1>3. ASSUME NEW s \in SUBSET S, s # {}
      PROVE  pick(s) \in s /\ count[s] = g[pick(s)] + count[s \ {pick(s)}]
  <2> DEFINE x == pick(s)
             own == {x} \X (1..g[x])
  <2>1. x \in s
    BY <1>3
  <2> HIDE DEF x
  <2>2. g[x] \in Nat
    BY <2>1
  <2>3. /\ IsFiniteSet(own) /\ Cardinality(own) = g[x]
        /\ Units(g, s) = Units(g, s \ {x}) \cup own
        /\ Units(g, s \ {x}) \cap own = {}
    BY <2>1, <2>2, UnitsOfOne
  <2>4. IsFiniteSet(Units(g, s \ {x}))
    <3>1. s \ {x} \in SUBSET S /\ \A y \in s \ {x} : g[y] \in Nat
      OBVIOUS
    <3>2. IsFiniteSet(s \ {x})
      BY <3>1, FS_Subset
    <3>3. QED
      BY <3>1, <3>2, UnitsFinite
  <2> HIDE DEF own
  <2>5. Cardinality(Units(g, s)) = Cardinality(Units(g, s \ {x})) + g[x]
    BY <2>3, <2>4, SplitSize
  <2>6. Cardinality(Units(g, s \ {x})) \in Nat
    BY <2>4, FS_CardinalityType
  <2>7. count[s] = Cardinality(Units(g, s)) /\ count[s \ {x}] = Cardinality(Units(g, s \ {x}))
    OBVIOUS
  <2> HIDE DEF count
  <2>8. count[s] = g[x] + count[s \ {x}]
    BY <2>2, <2>5, <2>6, <2>7
  <2>9. QED
    BY <2>1, <2>8 DEF x
<1> HIDE DEF count
<1>4. \A s \in SUBSET S : count[s] = IF s = {} THEN 0
                                     ELSE g[CHOOSE x \in s : TRUE] + count[s \ {CHOOSE x \in s : TRUE}]
  BY <1>2, <1>3
<1>5. count = [s \in SUBSET S |-> IF s = {} THEN 0
                                  ELSE g[CHOOSE x \in s : TRUE] + count[s \ {CHOOSE x \in s : TRUE}]]
  <2>1. count = [s \in SUBSET S |-> count[s]]
    BY DEF count
  <2>2. QED
    BY <1>4, <2>1, Zenon
<1>6. iter = [s \in SUBSET S |-> IF s = {} THEN 0
                                 ELSE g[CHOOSE x \in s : TRUE] + iter[s \ {CHOOSE x \in s : TRUE}]]
  BY <1>5
<1> HIDE DEF iter
<1>7. \A s \in SUBSET S : iter[s] = IF s = {} THEN 0
                                    ELSE g[CHOOSE x \in s : TRUE] + iter[s \ {CHOOSE x \in s : TRUE}]
  BY <1>6, Zenon
<1> DEFINE P == {s \in SUBSET S : iter[s] = count[s]}
<1>8. {} \in P
  BY <1>4, <1>7
<1>9. ASSUME NEW s \in SUBSET S, s # {}
      PROVE  \E x \in s : (s \ {x} \in P => s \in P)
  <2>1. pick(s) \in s
    BY <1>9
  <2>2. iter[s] = g[pick(s)] + iter[s \ {pick(s)}] /\ count[s] = g[pick(s)] + count[s \ {pick(s)}]
    BY <1>4, <1>7, <1>9
  <2> HIDE DEF pick
  <2>3. s \ {pick(s)} \in P => s \in P
    BY <2>2
  <2>4. QED
    BY <2>1, <2>3
<1> HIDE DEF P
<1>10. S \in P
  BY <1>8, <1>9, FiniteSteps
<1>11. QED
  BY <1>1, <1>10 DEF P, count

\* A sum over two sets without a common element is the sum of their sums.
LEMMA SumSplit ==
  ASSUME NEW S, NEW T, IsFiniteSet(S), IsFiniteSet(T), S \cap T = {},
         NEW g, \A x \in S \cup T : g[x] \in Nat
  PROVE  /\ SumFunctionOnSet(g, S) \in Nat
         /\ SumFunctionOnSet(g, T) \in Nat
         /\ SumFunctionOnSet(g, S \cup T) = SumFunctionOnSet(g, S) + SumFunctionOnSet(g, T)
<1>1. IsFiniteSet(Units(g, S)) /\ IsFiniteSet(Units(g, T))
  BY UnitsFinite
<1>2. Units(g, S) \cap Units(g, T) = {} /\ Units(g, S \cup T) = Units(g, S) \cup Units(g, T)
  BY DEF Units
<1>3. Cardinality(Units(g, S \cup T)) = Cardinality(Units(g, S)) + Cardinality(Units(g, T))
  BY <1>1, <1>2, SplitSize
<1>4. IsFiniteSet(S \cup T)
  BY FS_Union
<1>5. /\ SumFunctionOnSet(g, S) = Cardinality(Units(g, S))
      /\ SumFunctionOnSet(g, T) = Cardinality(Units(g, T))
      /\ SumFunctionOnSet(g, S \cup T) = Cardinality(Units(g, S \cup T))
  BY <1>4, SumOfUnits
<1>6. Cardinality(Units(g, S)) \in Nat /\ Cardinality(Units(g, T)) \in Nat
  BY <1>1, FS_CardinalityType
<1>7. QED
  BY <1>3, <1>5, <1>6

\* A sum over more is no smaller.
LEMMA SumGrows ==
  ASSUME NEW T, IsFiniteSet(T), NEW S \in SUBSET T, NEW g, \A x \in T : g[x] \in Nat
  PROVE  SumFunctionOnSet(g, S) <= SumFunctionOnSet(g, T)
<1>1. IsFiniteSet(S) /\ \A x \in S : g[x] \in Nat
  BY FS_Subset
<1>2. Units(g, S) \in SUBSET Units(g, T)
  BY DEF Units
<1>3. IsFiniteSet(Units(g, T))
  BY UnitsFinite
<1>4. Cardinality(Units(g, S)) <= Cardinality(Units(g, T))
  BY <1>2, <1>3, FS_Subset
<1>5. QED
  BY <1>1, <1>4, SumOfUnits

----------------------------------------------------------------------------
(* The pages of every list *)

\* Rows sorted by a number, the ties by their ids, are sorted by the number.
LEMMA RankedRows ==
  ASSUME NEW S, IsFiniteSet(S), S \subseteq Nat, NEW key, \A x \in S : key[x] \in Int
  PROVE  Ranked(S, key) \in Orders(S, key, "DESC")
<1> DEFINE R == {p \in S \X S : key[p[1]] > key[p[2]] \/ (key[p[1]] = key[p[2]] /\ p[1] < p[2])}
<1>1. \A x, y \in S : <<x, y>> \in R <=> key[x] > key[y] \/ (key[x] = key[y] /\ x < y)
  OBVIOUS
<1> HIDE DEF R
<1>2. InLine(S, R)
  <2>1. \A x, y \in S : x \in Nat /\ y \in Nat /\ key[x] \in Int /\ key[y] \in Int
    OBVIOUS
  <2>2. \A x, y \in S : x # y => <<x, y>> \in R \/ <<y, x>> \in R
    BY <1>1, <2>1
  <2>3. ASSUME NEW x \in S, NEW y \in S
        PROVE  ~(<<x, y>> \in R /\ <<y, x>> \in R)
    <3> DEFINE k == key[x]
               m == key[y]
    <3>1. x \in Nat /\ y \in Nat /\ k \in Int /\ m \in Int
      BY <2>1
    <3>2. /\ <<x, y>> \in R <=> k > m \/ (k = m /\ x < y)
          /\ <<y, x>> \in R <=> m > k \/ (m = k /\ y < x)
      BY <1>1
    <3> HIDE DEF k, m
    <3>3. QED
      BY <3>1, <3>2
  <2>4. \A x, y, z \in S : <<x, y>> \in R /\ <<y, z>> \in R => <<x, z>> \in R
    BY <1>1, <2>1
  <2>5. QED
    BY <2>2, <2>3, <2>4 DEF InLine
<1>3. PICK s \in SetToSeqs(S) : \A i, j \in DOMAIN s : i < j => <<s[i], s[j]>> \in R
  BY <1>2, SortedExists
<1>4. DOMAIN s = 1..Len(s) /\ Len(s) \in Nat /\ \A i \in DOMAIN s : s[i] \in S
  BY SeqsOfSet
<1>5. \A i, j \in DOMAIN s : i < j => key[s[i]] >= key[s[j]] /\ (key[s[i]] = key[s[j]] => s[i] < s[j])
  <2> SUFFICES ASSUME NEW i \in DOMAIN s, NEW j \in DOMAIN s, i < j
               PROVE  key[s[i]] >= key[s[j]] /\ (key[s[i]] = key[s[j]] => s[i] < s[j])
    OBVIOUS
  <2>1. <<s[i], s[j]>> \in R /\ s[i] \in S /\ s[j] \in S
    BY <1>3, <1>4
  <2> DEFINE x == s[i]
             y == s[j]
             k == key[x]
             m == key[y]
  <2>2. x \in Nat /\ y \in Nat /\ k \in Int /\ m \in Int
    BY <2>1
  <2>3. k > m \/ (k = m /\ x < y)
    BY <1>1, <2>1
  <2> HIDE DEF x, y, k, m
  <2>4. k >= m /\ (k = m => x < y)
    BY <2>2, <2>3
  <2>5. QED
    BY <2>4 DEF x, y, k, m
<1>6. s \in Orders(S, key, "DESC")
  BY <1>5 DEF Orders
<1>7. \E o \in Orders(S, key, "DESC") : \A i, j \in DOMAIN o : i < j /\ key[o[i]] = key[o[j]] => o[i] < o[j]
  BY <1>5, <1>6
<1>8. QED
  BY <1>7 DEF Ranked

\* Any rows can be sorted by any number, in either direction.
LEMMA OrdersExist ==
  ASSUME NEW S, IsFiniteSet(S), S \subseteq Nat, NEW key, \A x \in S : key[x] \in Int,
         NEW direction
  PROVE  Orders(S, key, direction) # {}
<1>1. Ranked(S, key) \in Orders(S, key, "DESC")
  BY RankedRows
<1>2. CASE direction = "ASC"
  <2>1. Reverse(Ranked(S, key)) \in Orders(S, key, "ASC")
    BY <1>1, ReversedOrder
  <2>2. QED
    BY <1>2, <2>1
<1>3. CASE direction # "ASC"
  <2>1. Ranked(S, key) \in Orders(S, key, direction)
    BY <1>1, <1>3 DEF Orders
  <2>2. QED
    BY <2>1
<1>4. QED
  BY <1>2, <1>3

\* Rows that differ in the number they are sorted by can be sorted in one way only.
LEMMA OrdersOnce ==
  ASSUME NEW S, IsFiniteSet(S), NEW key, \A x \in S : key[x] \in Int,
         \A x, y \in S : key[x] = key[y] => x = y,
         NEW direction, NEW s \in Orders(S, key, direction), NEW u \in Orders(S, key, direction)
  PROVE  s = u
<1> DEFINE R == {p \in S \X S : IF direction = "ASC" THEN key[p[1]] < key[p[2]] ELSE key[p[1]] > key[p[2]]}
<1>1. \A x, y \in S : <<x, y>> \in R <=> IF direction = "ASC" THEN key[x] < key[y] ELSE key[x] > key[y]
  OBVIOUS
<1> HIDE DEF R
<1>2. InLine(S, R)
  <2>1. \A x, y \in S : key[x] \in Int /\ key[y] \in Int /\ (key[x] = key[y] => x = y)
    OBVIOUS
  <2>2. CASE direction = "ASC"
    <3>1. \A x, y \in S : <<x, y>> \in R <=> key[x] < key[y]
      BY <1>1, <2>2
    <3>2. QED
      BY <2>1, <3>1 DEF InLine
  <2>3. CASE direction # "ASC"
    <3>1. \A x, y \in S : <<x, y>> \in R <=> key[x] > key[y]
      BY <1>1, <2>3
    <3>2. QED
      BY <2>1, <3>1 DEF InLine
  <2>4. QED
    BY <2>2, <2>3
<1>3. ASSUME NEW o \in Orders(S, key, direction)
      PROVE  o \in SetToSeqs(S) /\ \A i, j \in DOMAIN o : i < j => <<o[i], o[j]>> \in R
  <2>1. o \in SetToSeqs(S)
    BY DEF Orders
  <2>2. /\ DOMAIN o = 1..Len(o) /\ Len(o) \in Nat /\ \A i \in DOMAIN o : o[i] \in S
        /\ \A i, j \in DOMAIN o : o[i] = o[j] => i = j
    BY <2>1, SeqsOfSet
  <2>3. ASSUME NEW i \in DOMAIN o, NEW j \in DOMAIN o, i < j
        PROVE  <<o[i], o[j]>> \in R
    <3>1. o[i] \in S /\ o[j] \in S /\ o[i] # o[j]
      BY <2>2, <2>3
    <3>2. key[o[i]] \in Int /\ key[o[j]] \in Int /\ key[o[i]] # key[o[j]]
      BY <3>1
    <3>3. IF direction = "ASC" THEN key[o[i]] <= key[o[j]] ELSE key[o[i]] >= key[o[j]]
      BY <2>3 DEF Orders
    <3>4. IF direction = "ASC" THEN key[o[i]] < key[o[j]] ELSE key[o[i]] > key[o[j]]
      BY <3>2, <3>3
    <3>5. QED
      BY <1>1, <3>1, <3>4
  <2>4. QED
    BY <2>1, <2>3
<1>4. QED
  BY <1>2, <1>3, SortedOnce

\* The first page of a list is empty when the list is.
LEMMA FirstPage ==
  ASSUME NEW X, NEW s \in Seq(X), NEW limit \in Nat \ {0}
  PROVE  /\ PageOf(s, 1, limit) \in Seq(X)
         /\ Len(PageOf(s, 1, limit)) = 0 <=> Len(s) = 0
<1>1. /\ PageOf(s, 1, limit) \in Seq(X)
      /\ Len(PageOf(s, 1, limit)) = LET low == (1 - 1) * limit
                                        high == IF 1 * limit < Len(s) THEN 1 * limit ELSE Len(s)
                                    IN  IF low < high THEN high - low ELSE 0
  BY PageRows
<1>2. (1 - 1) * limit = 0 /\ 1 * limit = limit /\ Len(s) \in Nat
  OBVIOUS
<1>3. QED
  BY <1>1, <1>2

\* The pages show every row once, and as many as there are.
LEMMA ListedOnce ==
  ASSUME NEW S, IsFiniteSet(S), NEW s \in SetToSeqs(S), NEW limit \in Nat \ {0}
  PROVE  LET all == FlattenSeq([p \in 1..(Cardinality(S) + 1) |-> PageOf(s, p, limit)])
         IN  Len(all) = Cardinality(S) /\ IsInjective(all)
<1>1. s \in Seq(S) /\ Len(s) = Cardinality(S) /\ \A i, j \in DOMAIN s : s[i] = s[j] => i = j
  BY SeqsOfSet
<1>2. FlattenSeq([p \in 1..(Len(s) + 1) |-> PageOf(s, p, limit)]) = s
  BY <1>1, PagesMakeList
<1>3. QED
  BY <1>1, <1>2 DEF IsInjective

\* Asked limits are positive numbers.
LEMMA LimitsPositive == Limit \subseteq Nat \ {0} /\ Page \subseteq Nat \ {0}
<1>1. \A n \in Int : n >= 1 => n \in Nat \ {0}
  OBVIOUS
<1>2. \A n \in Limit : n \in Int /\ n >= 1
  BY AskedAssumption DEF Limit
<1>3. \A n \in Page : n \in Int /\ n >= 1
  BY AskedAssumption DEF Page
<1>4. QED
  BY <1>1, <1>2, <1>3

\* What an account has of a token is a number.
LEMMA PositionsTyped ==
  ASSUME DbInv, NEW t \in Listed, NEW a \in Account
  PROVE  /\ t \in Token
         /\ BalanceInfo(t, a).balance \in Nat /\ BalanceInfo(t, a).lp_balance \in Nat
         /\ BalanceInfo(t, a).total_balance \in Nat
<1>1. t \in Token
  BY DEF Listed, DbInv, TablesOK
<1>2. balance[t][a] \in Nat
  BY <1>1 DEF DbInv, TablesOK
<1>3. LpBalance(t, a) \in Nat
  BY PositionsFollow DEF PositionsMatch
<1>4. QED
  BY <1>1, <1>2, <1>3 DEF BalanceInfo

\* The holders of a token are listed each once.
LEMMA HoldersListed ==
  ASSUME DbInv, NEW t \in Listed
  PROVE  IsFiniteSet(HolderSet(t)) /\ HolderRows(t) \in SetToSeqs(HolderSet(t))
<1> DEFINE S == HolderSet(t)
           s == HolderRows(t)
<1>1. IsFiniteSet(S) /\ S \subseteq Nat
  <2>1. S \in SUBSET Account
    BY DEF HolderSet
  <2>2. QED
    BY <2>1, AddressAssumption, FS_Subset
<1>2. s \in SetToSeqs(S)
  <2> DEFINE key == [a \in Account |-> BalanceInfo(t, a).total_balance]
  <2>1. t \in DOMAIN market
    BY DEF Listed
  <2>2. \A a \in S : key[a] \in Int
    <3>1. S \subseteq Account
      BY DEF HolderSet
    <3>2. \A a \in Account : BalanceInfo(t, a).total_balance \in Nat
      BY PositionsTyped
    <3>3. QED
      BY <3>1, <3>2
  <2> HIDE DEF key
  <2>3. Ranked(S, key) \in Orders(S, key, "DESC")
    BY <1>1, <2>2, RankedRows
  <2>4. s = Ranked(S, key)
    BY <2>1 DEF HolderRows, key
  <2>5. QED
    BY <2>3, <2>4 DEF Orders
<1>3. QED
  BY <1>1, <1>2

\* The pages of the holders of a token hold each of them once (fetch_holders_by_token,
\* fetch_token_holder_count).
LEMMA HoldersPaged ==
  ASSUME DbInv, NEW limit \in Limit
  PROVE  HolderPages(limit)
<1> SUFFICES ASSUME NEW t \in Listed
             PROVE  LET rows(p, n) == Ids(Holders(t, p, n).rows, LAMBDA r : r.account_id)
                    IN  EachOnce(rows, Holders(t, 1, limit).total_count, limit)
  BY DEF HolderPages
<1> DEFINE S == HolderSet(t)
           s == HolderRows(t)
<1>1. limit \in Nat \ {0}
  BY LimitsPositive
<1>2. IsFiniteSet(S)
  BY HoldersListed
<1>3. s \in SetToSeqs(S)
  BY HoldersListed
<1>4. s \in Seq(S) /\ Len(s) = Cardinality(S) /\ Len(s) \in Nat
  BY <1>2, <1>3, SeqsOfSet
<1>5. ASSUME NEW p \in Nat \ {0}
      PROVE  Ids(Holders(t, p, limit).rows, LAMBDA r : r.account_id) = PageOf(s, p, limit)
  <2> DEFINE page == PageOf(s, p, limit)
             shown == [i \in DOMAIN page |-> [account_id |-> page[i], balance_info |-> BalanceInfo(t, page[i])]]
  <2>1. page \in Seq(S)
    BY <1>1, <1>4, PageRows
  <2>2. Holders(t, p, limit).rows = shown
    BY DEF Holders, Counted
  <2> HIDE DEF page
  <2>3. Ids(shown, LAMBDA r : r.account_id) = [i \in DOMAIN page |-> page[i]]
    BY DEF Ids
  <2>4. page = [i \in DOMAIN page |-> page[i]]
    BY <2>1
  <2>5. QED
    BY <2>2, <2>3, <2>4 DEF page
<1>6. Holders(t, 1, limit).total_count = Cardinality(S)
  <2> DEFINE page == PageOf(s, 1, limit)
             shown == [i \in DOMAIN page |-> [account_id |-> page[i], balance_info |-> BalanceInfo(t, page[i])]]
  <2>1. page \in Seq(S) /\ (Len(page) = 0 <=> Len(s) = 0)
    BY <1>1, <1>4, FirstPage
  <2>2. Holders(t, 1, limit).total_count = IF shown = <<>> THEN 0 ELSE Cardinality(S)
    BY DEF Holders, Counted, HolderCount
  <2> HIDE DEF page
  <2>3. shown = <<>> <=> Len(page) = 0
    BY <2>1
  <2>4. QED
    BY <1>4, <2>1, <2>2, <2>3
<1>7. [p \in 1..(Cardinality(S) + 1) |-> Ids(Holders(t, p, limit).rows, LAMBDA r : r.account_id)]
      = [p \in 1..(Cardinality(S) + 1) |-> PageOf(s, p, limit)]
  <2> DEFINE n == Cardinality(S)
  <2>1. \A p \in 1..(n + 1) : p \in Nat \ {0}
    BY <1>4
  <2>2. QED
    BY <1>5, <2>1, Zenon
<1>8. QED
  BY <1>1, <1>2, <1>3, <1>6, <1>7, ListedOnce DEF EachOnce

\* Sorted by a number, the rows of a set are listed each once.
LEMMA RankedListed ==
  ASSUME NEW S, IsFiniteSet(S), S \subseteq Nat, NEW key, \A x \in S : key[x] \in Int
  PROVE  Ranked(S, key) \in SetToSeqs(S)
<1>1. Ranked(S, key) \in Orders(S, key, "DESC")
  BY RankedRows
<1>2. QED
  BY <1>1 DEF Orders

\* What a list counts when it has no count of its own for an empty page.
LEMMA CountOfPage ==
  ASSUME NEW S, IsFiniteSet(S), NEW s \in SetToSeqs(S), NEW limit \in Nat \ {0}, NEW shown,
         NEW page, page = PageOf(s, 1, limit),
         shown = <<>> <=> page = <<>>
  PROVE  (IF shown = <<>> THEN 0 ELSE Cardinality(S)) = Cardinality(S)
<1>1. s \in Seq(S) /\ Len(s) = Cardinality(S) /\ Len(s) \in Nat
  BY SeqsOfSet
<1>2. page \in Seq(S) /\ (Len(page) = 0 <=> Len(s) = 0)
  BY <1>1, FirstPage
<1>3. page = <<>> <=> Len(page) = 0
  BY <1>2
<1>4. QED
  BY <1>1, <1>2, <1>3

\* A page of a list, when a row is given more columns, and the ids of the rows again.
LEMMA IdsOfPage ==
  ASSUME NEW S, NEW s \in Seq(S), NEW limit \in Nat \ {0}, NEW p \in Nat \ {0}
  PROVE  LET page == PageOf(s, p, limit) IN
         /\ page \in Seq(S)
         /\ page = [i \in DOMAIN page |-> page[i]]
         /\ \A f : DOMAIN f = DOMAIN page => (f = <<>> <=> page = <<>>)
<1> DEFINE page == PageOf(s, p, limit)
<1>1. page \in Seq(S)
  BY PageRows
<1> HIDE DEF page
<1>2. page = [i \in DOMAIN page |-> page[i]]
  BY <1>1
<1>3. QED
  BY <1>1, <1>2 DEF page

\* The tokens an account holds are listed each once.
LEMMA HoldingsListed ==
  ASSUME DbInv, NEW a \in Account
  PROVE  IsFiniteSet(HeldSet(a)) /\ HoldingRows(a) \in SetToSeqs(HeldSet(a)) /\ HeldSet(a) \subseteq Listed
<1> DEFINE S == HeldSet(a)
           s == HoldingRows(a)
<1>1. IsFiniteSet(S) /\ S \subseteq Nat /\ S \subseteq Listed
  <2>1. S \subseteq Listed
    BY DEF HeldSet
  <2>2. Listed \subseteq Token
    BY DEF Listed, DbInv, TablesOK
  <2>3. S \in SUBSET Token
    BY <2>1, <2>2
  <2>4. QED
    BY <2>1, <2>3, AddressAssumption, FS_Subset
<1>2. s \in SetToSeqs(S)
  <2> DEFINE key == [t \in Listed |-> BalanceInfo(t, a).total_balance * market[t].price]
  <2>1. \A t \in S : key[t] \in Int
    <3> SUFFICES ASSUME NEW t \in S
                 PROVE  key[t] \in Int
      OBVIOUS
    <3>1. t \in Listed /\ t \in DOMAIN market
      BY <1>1 DEF Listed
    <3>2. BalanceInfo(t, a).total_balance \in Nat
      BY <3>1, PositionsTyped
    <3>3. market[t].price \in Nat
      BY <3>1 DEF DbInv, TablesOK
    <3>4. \A m, k \in Nat : m * k \in Int
      OBVIOUS
    <3>5. key[t] = BalanceInfo(t, a).total_balance * market[t].price
      BY <3>1
    <3> HIDE DEF key
    <3>6. QED
      BY <3>2, <3>3, <3>4, <3>5, Zenon
  <2>2. s = Ranked(S, key)
    BY DEF HoldingRows
  <2> HIDE DEF key
  <2>3. QED
    BY <1>1, <2>1, <2>2, RankedListed
<1>3. QED
  BY <1>1, <1>2

\* The pages of the holdings of an account hold each of them once
\* (get_hold_token_by_account, get_total_count_by_hold_token).
LEMMA HoldingsPaged ==
  ASSUME DbInv, NEW limit \in Limit
  PROVE  HoldingPages(limit)
<1> SUFFICES ASSUME NEW a \in Account
             PROVE  LET rows(p, n) == Ids(Holdings(a, p, n).rows, LAMBDA r : r.token.token_info.token_id)
                    IN  EachOnce(rows, Holdings(a, 1, limit).total_count, limit)
  BY DEF HoldingPages
<1> DEFINE S == HeldSet(a)
           s == HoldingRows(a)
           Row(t) == [token |-> TokenMetadata(t), balance_info |-> BalanceInfo(t, a)]
<1>1. limit \in Nat \ {0}
  BY LimitsPositive
<1>2. IsFiniteSet(S)
  BY HoldingsListed
<1>3. s \in SetToSeqs(S)
  BY HoldingsListed
<1>4. s \in Seq(S) /\ Cardinality(S) \in Nat
  BY <1>2, <1>3, SeqsOfSet
<1>5. ASSUME NEW p \in Nat \ {0}
      PROVE  Ids(Holdings(a, p, limit).rows, LAMBDA r : r.token.token_info.token_id) = PageOf(s, p, limit)
  <2> DEFINE page == PageOf(s, p, limit)
             shown == [i \in DOMAIN page |-> Row(page[i])]
  <2>1. page = [i \in DOMAIN page |-> page[i]]
    BY <1>1, <1>4, IdsOfPage
  <2>2. Holdings(a, p, limit).rows = shown
    BY DEF Holdings, Counted
  <2> HIDE DEF page
  <2>3. Ids(shown, LAMBDA r : r.token.token_info.token_id) = [i \in DOMAIN page |-> page[i]]
    BY DEF Ids, TokenMetadata, TokenInfo
  <2>4. QED
    BY <2>1, <2>2, <2>3 DEF page
<1>6. Holdings(a, 1, limit).total_count = Cardinality(S)
  <2> DEFINE shown == Holdings(a, 1, limit).rows
             page == PageOf(s, 1, limit)
  <2>1. Holdings(a, 1, limit).total_count = IF shown = <<>> THEN 0 ELSE Cardinality(S)
    BY DEF Holdings, Counted, HoldingCount
  <2>2. page \in Seq(S)
    <3>1. 1 \in Nat \ {0}
      OBVIOUS
    <3>2. QED
      BY <1>1, <1>4, <3>1, IdsOfPage
  <2>3. page = <<>> <=> shown = <<>>
    <3>1. shown = [i \in DOMAIN page |-> Row(page[i])]
      BY DEF Holdings, Counted
    <3> HIDE DEF shown, page
    <3>2. QED
      BY <2>2, <3>1
  <2> HIDE DEF shown
  <2>4. QED
    BY <1>1, <1>2, <1>3, <2>1, <2>3, CountOfPage
<1>7. [p \in 1..(Cardinality(S) + 1) |->
            Ids(Holdings(a, p, limit).rows, LAMBDA r : r.token.token_info.token_id)]
      = [p \in 1..(Cardinality(S) + 1) |-> PageOf(s, p, limit)]
  <2>1. \A p \in 1..(Cardinality(S) + 1) : p \in Nat \ {0}
    BY <1>4
  <2>2. QED
    BY <1>5, <2>1, Zenon
<1>8. QED
  BY <1>1, <1>2, <1>3, <1>6, <1>7, ListedOnce DEF EachOnce

\* A token was created at some time.
LEMMA CreationTimes ==
  ASSUME DbInv, NEW t \in DOMAIN token
  PROVE  CreatedAt[t] \in Int
<1>1. token[t].created_at \in 0..Clock
  BY DEF DbInv, TablesOK
<1>2. QED
  BY <1>1 DEF CreatedAt

\* The pages of the tokens an account made or provides for add up.
LEMMA CreationsPaged ==
  ASSUME DbInv, NEW limit \in Limit
  PROVE  CreatedPages(limit)
<1> SUFFICES ASSUME NEW a \in Account
             PROVE  LET rows(p, n) == Ids(CreatedTokens(a, p, n).rows, LAMBDA r : r.token.token_info.token_id)
                    IN  EachOnce(rows, CreatedTokens(a, 1, limit).total_count, limit)
  BY DEF CreatedPages
<1> DEFINE S == MemberSet(a) \cap DOMAIN market
           s == CreatedRows(a)
           Row(t) == [token |-> TokenMetadata(t), balance_info |-> BalanceInfo(t, a)]
<1>1. limit \in Nat \ {0}
  BY LimitsPositive
<1>2. IsFiniteSet(S) /\ S \subseteq Nat /\ S \subseteq DOMAIN token /\ S = MemberSet(a) \cap Listed
  <2>1. DOMAIN market \subseteq DOMAIN token /\ DOMAIN token \subseteq Token
    BY DEF DbInv, TablesOK
  <2>2. S \in SUBSET Token
    BY <2>1
  <2>3. QED
    BY <2>1, <2>2, AddressAssumption, FS_Subset DEF Listed
<1>3. s \in SetToSeqs(S)
  <2>1. \A t \in S : CreatedAt[t] \in Int
    BY <1>2, CreationTimes
  <2>2. s = Ranked(S, CreatedAt)
    BY DEF CreatedRows
  <2>3. QED
    BY <1>2, <2>1, <2>2, RankedListed
<1>4. s \in Seq(S) /\ Cardinality(S) \in Nat
  BY <1>2, <1>3, SeqsOfSet
<1>5. ASSUME NEW p \in Nat \ {0}
      PROVE  Ids(CreatedTokens(a, p, limit).rows, LAMBDA r : r.token.token_info.token_id) = PageOf(s, p, limit)
  <2> DEFINE page == PageOf(s, p, limit)
             shown == [i \in DOMAIN page |-> Row(page[i])]
  <2>1. page = [i \in DOMAIN page |-> page[i]]
    BY <1>1, <1>4, IdsOfPage
  <2>2. CreatedTokens(a, p, limit).rows = shown
    BY DEF CreatedTokens
  <2> HIDE DEF page
  <2>3. Ids(shown, LAMBDA r : r.token.token_info.token_id) = [i \in DOMAIN page |-> page[i]]
    BY DEF Ids, TokenMetadata, TokenInfo
  <2>4. QED
    BY <2>1, <2>2, <2>3 DEF page
<1>6. CreatedTokens(a, 1, limit).total_count = Cardinality(S)
  BY <1>2 DEF CreatedTokens, CreatedCount
<1>7. [p \in 1..(Cardinality(S) + 1) |->
            Ids(CreatedTokens(a, p, limit).rows, LAMBDA r : r.token.token_info.token_id)]
      = [p \in 1..(Cardinality(S) + 1) |-> PageOf(s, p, limit)]
  <2>1. \A p \in 1..(Cardinality(S) + 1) : p \in Nat \ {0}
    BY <1>4
  <2>2. QED
    BY <1>5, <2>1, Zenon
<1> HIDE DEF S, s
<1>8. FlattenSeq([p \in 1..(Cardinality(S) + 1) |->
          Ids(CreatedTokens(a, p, limit).rows, LAMBDA r : r.token.token_info.token_id)])
      = FlattenSeq([p \in 1..(Cardinality(S) + 1) |-> PageOf(s, p, limit)])
  BY <1>7, Zenon
<1>9. LET all == FlattenSeq([p \in 1..(Cardinality(S) + 1) |-> PageOf(s, p, limit)])
      IN  Len(all) = Cardinality(S) /\ IsInjective(all)
  BY <1>1, <1>2, <1>3, ListedOnce
<1>10. QED
  BY <1>6, <1>8, <1>9, Zenon DEF EachOnce

\* Trades are listed in the order of the table, or against it, each once.
LEMMA SwapsListed ==
  ASSUME DbInv, NEW S, S \subseteq DOMAIN swap, NEW direction
  PROVE  IsFiniteSet(S) /\ InSwapOrder(S, direction) \in SetToSeqs(S)
<1>1. IsFiniteSet(S)
  <2>1. S \in SUBSET DOMAIN swap
    OBVIOUS
  <2>2. QED
    BY <2>1, SwapsFinite, FS_Subset
<1>2. \A i \in S : i \in Nat /\ SwapIds[i] \in Int
  <2>1. DOMAIN swap = 1..Len(swap)
    BY DEF DbInv, RowsOK
  <2>2. \A i \in S : i \in 1..Len(swap)
    BY <2>1
  <2>3. QED
    BY <2>2 DEF SwapIds
<1>3. Orders(S, SwapIds, direction) # {}
  BY <1>1, <1>2, OrdersExist
<1>4. InSwapOrder(S, direction) \in Orders(S, SwapIds, direction)
  BY <1>3 DEF InSwapOrder
<1>5. QED
  BY <1>1, <1>4 DEF Orders

\* The pages of a token's trades add up, whatever the filters.
LEMMA TokenSwapsArePaged ==
  ASSUME DbInv, NEW limit \in Limit
  PROVE  SwapPages(limit)
<1> SUFFICES ASSUME NEW t \in Listed, NEW q \in SwapQueries, q.limit = limit, q.page = 1
             PROVE  LET rows(p, n) == TokenSwaps(t, [q EXCEPT !.page = p]).rows
                    IN  EachOnce(rows, TokenSwaps(t, q).total_count, limit)
  BY DEF SwapPages
<1> DEFINE S == {i \in DOMAIN swap : SwapMatches(i, t, q)}
           s == TokenSwapRows(t, q)
<1>1. limit \in Nat \ {0}
  BY LimitsPositive
<1>2. q \in SwapQuery
  BY SwapQueriesAssumption
<1>3. IsFiniteSet(S) /\ s \in SetToSeqs(S)
  <2>1. S \subseteq DOMAIN swap
    OBVIOUS
  <2>2. s = InSwapOrder(S, q.direction)
    BY DEF TokenSwapRows
  <2> HIDE DEF S, s
  <2>3. QED
    BY <2>1, <2>2, SwapsListed
<1>4. s \in Seq(S) /\ Cardinality(S) \in Nat
  BY <1>3, SeqsOfSet
<1>5. ASSUME NEW p \in Nat \ {0}
      PROVE  TokenSwaps(t, [q EXCEPT !.page = p]).rows = PageOf(s, p, limit)
  <2> DEFINE r == [q EXCEPT !.page = p]
  <2>1. /\ r.page = p /\ r.limit = limit /\ r.direction = q.direction /\ r.trade_type = q.trade_type
        /\ r.volume_ranges = q.volume_ranges /\ r.account_id = q.account_id
    BY <1>2 DEF SwapQuery
  <2> HIDE DEF r
  <2>2. \A i : SwapMatches(i, t, r) <=> SwapMatches(i, t, q)
    BY <2>1 DEF SwapMatches
  <2>3. TokenSwapRows(t, r) = s
    BY <2>1, <2>2 DEF TokenSwapRows
  <2>4. TokenSwaps(t, r).rows = PageOf(TokenSwapRows(t, r), r.page, r.limit)
    BY DEF TokenSwaps, Counted
  <2>5. QED
    BY <2>1, <2>3, <2>4 DEF r
<1>6. TokenSwaps(t, q).total_count = Cardinality(S)
  <2> DEFINE page == PageOf(s, 1, limit)
  <2>1. t \in Token /\ q.trade_type \in TradeType
    BY <1>2 DEF SwapQuery, Listed, DbInv, TablesOK
  <2>2. TokenSwapCount(t, q) = Cardinality(S)
    BY <2>1, FiltersFollow DEF FiltersAgree
  <2>3. TokenSwaps(t, q).total_count = IF page = <<>> THEN 0 ELSE Cardinality(S)
    BY <2>2 DEF TokenSwaps, Counted
  <2> HIDE DEF S, s
  <2>4. (IF page = <<>> THEN 0 ELSE Cardinality(S)) = Cardinality(S)
    BY <1>1, <1>3, CountOfPage
  <2>5. QED
    BY <2>3, <2>4
<1> HIDE DEF S, s
<1>7. FlattenSeq([p \in 1..(Cardinality(S) + 1) |-> TokenSwaps(t, [q EXCEPT !.page = p]).rows])
      = FlattenSeq([p \in 1..(Cardinality(S) + 1) |-> PageOf(s, p, limit)])
  <2>1. \A p \in 1..(Cardinality(S) + 1) : p \in Nat \ {0}
    BY <1>4
  <2>2. \A p \in 1..(Cardinality(S) + 1) : TokenSwaps(t, [q EXCEPT !.page = p]).rows = PageOf(s, p, limit)
    BY <1>5, <2>1
  <2>3. QED
    BY <2>2, Zenon
<1>8. LET all == FlattenSeq([p \in 1..(Cardinality(S) + 1) |-> PageOf(s, p, limit)])
      IN  Len(all) = Cardinality(S) /\ IsInjective(all)
  BY <1>1, <1>3, ListedOnce
<1>9. QED
  BY <1>6, <1>7, <1>8, Zenon DEF EachOnce

\* The pages of an account's trades add up.
LEMMA AccountSwapsArePaged ==
  ASSUME DbInv, NEW limit \in Limit
  PROVE  AccountSwapsPaged(limit)
<1> SUFFICES ASSUME NEW a \in Account
             PROVE  LET rows(p, n) == PageOf(AccountSwapRows(a), p, n)
                    IN  EachOnce(rows, SwapHistory(a, 1, limit).total_count, limit)
  BY DEF AccountSwapsPaged
<1> DEFINE S == {i \in DOMAIN swap : swap[i].account = a}
           s == AccountSwapRows(a)
           page == PageOf(s, 1, limit)
<1>1. limit \in Nat \ {0}
  BY LimitsPositive
<1>2. IsFiniteSet(S) /\ s \in SetToSeqs(S)
  <2>1. S \subseteq DOMAIN swap
    OBVIOUS
  <2>2. s = InSwapOrder(S, "DESC")
    BY DEF AccountSwapRows
  <2> HIDE DEF S, s
  <2>3. QED
    BY <2>1, <2>2, SwapsListed
<1>3. SwapHistory(a, 1, limit).total_count
        = IF <<>> \in Orders(ToSet(page), SwapTimes, "DESC") THEN 0 ELSE Cardinality(S)
  BY DEF SwapHistory, AccountSwapCount, AccountSwapPages
<1> HIDE DEF S, s
<1>4. s \in Seq(S) /\ Cardinality(S) \in Nat /\ Len(s) = Cardinality(S)
  BY <1>2, SeqsOfSet
<1>5. SwapHistory(a, 1, limit).total_count = Cardinality(S)
  <2> SUFFICES ASSUME <<>> \in Orders(ToSet(page), SwapTimes, "DESC")
               PROVE  Cardinality(S) = 0
    BY <1>3
  <2>1. page \in Seq(S) /\ (Len(page) = 0 <=> Len(s) = 0)
    BY <1>1, <1>4, FirstPage
  <2> HIDE DEF page
  <2>2. ToSet(page) \in SUBSET S
    BY <2>1 DEF ToSet
  <2>3. IsFiniteSet(ToSet(page))
    BY <1>2, <2>2, FS_Subset
  <2>4. \A x \in ToSet(page) : \E i \in DOMAIN <<>> : <<>>[i] = x
    BY <2>3, OrderRows
  <2>5. ToSet(page) = {}
    BY <2>4
  <2>6. Len(page) = 0
    BY <2>1, <2>5 DEF ToSet
  <2>7. QED
    BY <1>4, <2>1, <2>6
<1>6. LET all == FlattenSeq([p \in 1..(Cardinality(S) + 1) |-> PageOf(s, p, limit)])
      IN  Len(all) = Cardinality(S) /\ IsInjective(all)
  BY <1>1, <1>2, ListedOnce
<1>7. QED
  BY <1>5, <1>6, Zenon DEF EachOnce, s

\* A finite set has finitely many lists.
LEMMA ListsFinite ==
  ASSUME NEW S, IsFiniteSet(S)
  PROVE  IsFiniteSet(SetToSeqs(S))
<1> DEFINE n == Cardinality(S)
           Pairs == (1..n) \X S
           graph == [f \in SetToSeqs(S) |-> {<<i, f[i]>> : i \in 1..n}]
<1>1. n \in Nat
  BY FS_CardinalityType
<1>2. IsFiniteSet(1..n)
  BY <1>1, FS_Interval
<1>3. IsFiniteSet(Pairs)
  BY <1>2, FS_Product
<1>4. IsFiniteSet(SUBSET Pairs)
  BY <1>3, FS_SUBSET
<1>5. \A f \in SetToSeqs(S) : f \in [1..n -> S]
  BY DEF SetToSeqs
<1> HIDE DEF n
<1>6. graph \in [SetToSeqs(S) -> SUBSET Pairs]
  <2>1. \A f \in SetToSeqs(S) : \A i \in 1..n : <<i, f[i]>> \in Pairs
    BY <1>5
  <2> HIDE DEF Pairs
  <2>2. \A f \in SetToSeqs(S) : {<<i, f[i]>> : i \in 1..n} \in SUBSET Pairs
    BY <2>1
  <2>3. QED
    BY <2>2
<1>7. ASSUME NEW f \in SetToSeqs(S), NEW g \in SetToSeqs(S), graph[f] = graph[g]
      PROVE  f = g
  <2>1. graph[f] = {<<i, f[i]>> : i \in 1..n} /\ graph[g] = {<<i, g[i]>> : i \in 1..n}
    OBVIOUS
  <2>2. \A i \in 1..n : <<i, f[i]>> \in {<<j, g[j]>> : j \in 1..n}
    BY <1>7, <2>1
  <2>3. \A i \in 1..n : f[i] = g[i]
    BY <2>2
  <2>4. f = [i \in 1..n |-> f[i]] /\ g = [i \in 1..n |-> g[i]]
    BY <1>5
  <2>5. QED
    BY <2>3, <2>4, Zenon
<1> HIDE DEF graph
<1>8. graph \in Injection(SetToSeqs(S), SUBSET Pairs)
  <2>1. IsInjective(graph)
    BY <1>6, <1>7 DEF IsInjective
  <2>2. QED
    BY <1>6, <2>1 DEF Injection
<1>9. QED
  BY <1>4, <1>8, FS_Injection

\* The numbers by which order lists are sorted.
LEMMA OrderKeys ==
  ASSUME DbInv, NEW type \in OrderType, NEW is_nsfw \in BOOLEAN
  PROVE  /\ Ordered(type, is_nsfw) \in SUBSET Listed
         /\ IsFiniteSet(Ordered(type, is_nsfw))
         /\ Ordered(type, is_nsfw) \subseteq Nat
         /\ \E key : /\ \A t \in Ordered(type, is_nsfw) : key[t] \in Int
                     /\ \A direction \in {"ASC", "DESC"} :
                            OrderLists(type, direction, is_nsfw) = Orders(Ordered(type, is_nsfw), key, direction)
<1> DEFINE S == Ordered(type, is_nsfw)
<1>1. S \in SUBSET Listed
  BY DEF Ordered, Shown
<1>2. Listed \in SUBSET Token
  BY DEF Listed, DbInv, TablesOK
<1>3. S \in SUBSET Token
  BY <1>1, <1>2
<1>4. IsFiniteSet(S) /\ S \subseteq Nat
  BY <1>3, AddressAssumption, FS_Subset
<1>5. CASE type = "market_cap"
  <2>1. \A t \in S : MarketCap[t] \in Int
    <3> SUFFICES ASSUME NEW t \in DOMAIN market
                 PROVE  MarketCap[t] \in Int
      BY <1>1 DEF Listed
    <3>1. market[t].price \in Nat
      BY DEF DbInv, TablesOK
    <3>2. QED
      BY <3>1 DEF MarketCap
  <2>2. S = Shown(is_nsfw)
    BY <1>5 DEF Ordered
  <2>3. \A direction : OrderLists(type, direction, is_nsfw) = Orders(S, MarketCap, direction)
    BY <1>5, <2>2 DEF OrderLists, MarketCapOrders
  <2>4. QED
    BY <1>1, <1>4, <2>1, <2>3
<1>6. CASE type = "creation_time"
  <2>1. \A t \in S : CreatedAt[t] \in Int
    BY <1>1, CreationTimes DEF Listed
  <2>2. S = Shown(is_nsfw)
    BY <1>6 DEF Ordered
  <2>3. \A direction : OrderLists(type, direction, is_nsfw) = Orders(S, CreatedAt, direction)
    BY <1>6, <2>2 DEF OrderLists, CreationTimeOrders
  <2>4. QED
    BY <1>1, <1>4, <2>1, <2>3
<1>7. CASE type = "latest_trade"
  <2> DEFINE key == [t \in S |-> LastTradeAt(t)]
  <2>1. S = {t \in Shown(is_nsfw) : QualifyingTrades(t) # {}}
    BY <1>7 DEF Ordered
  <2>2. \A direction : OrderLists(type, direction, is_nsfw) = Orders(S, key, direction)
    BY <1>7, <2>1 DEF OrderLists, LatestTradeOrders
  <2>3. ASSUME NEW t \in S
        PROVE  key[t] \in Int
    <3> DEFINE Times == {Second(swap[i].block) : i \in QualifyingTrades(t)}
    <3>1. \A i \in QualifyingTrades(t) : Clock \in Nat /\ Second(swap[i].block) \in 1..Clock
      BY SwapTimeBounds DEF QualifyingTrades, SwapAt
    <3>2. QualifyingTrades(t) # {}
      BY <2>1
    <3>3. Clock \in Nat /\ Times \subseteq 0..Clock /\ Times # {}
      BY <3>1, <3>2
    <3>4. \E at \in Times : \A other \in Times : other <= at
      BY <3>3, GreatestElement
    <3>5. \E at \in Times : \A i \in QualifyingTrades(t) : Second(swap[i].block) <= at
      BY <3>4
    <3>6. LastTradeAt(t) \in Times
      BY <3>5 DEF LastTradeAt
    <3>7. key[t] = LastTradeAt(t)
      OBVIOUS
    <3> HIDE DEF key, Times
    <3>8. \A at \in Times : at \in Int
      BY <3>3
    <3>9. QED
      BY <3>6, <3>7, <3>8, Zenon
  <2> HIDE DEF key
  <2>4. QED
    BY <1>1, <1>4, <2>2, <2>3
<1>8. QED
  BY <1>5, <1>6, <1>7 DEF OrderType

\* The pages of an order list without ties add up.
LEMMA OrderListsPaged ==
  ASSUME DbInv, NEW limit \in Limit
  PROVE  OrderPaged(limit)
<1> SUFFICES ASSUME NEW type \in OrderType, NEW is_nsfw \in BOOLEAN
             PROVE  LET orders == OrderLists(type, "DESC", is_nsfw)
                        n == Len(CHOOSE s \in orders : TRUE)
                        rows(p, l) ==
                            Ids(CHOOSE s \in Order(type, "DESC", is_nsfw, p, l).tokens : TRUE,
                                LAMBDA r : r.metadata.token_info.token_id)
                    IN  /\ Cardinality(orders) = 1 => EachOnce(rows, n, limit)
                        /\ n <= OrderCount(is_nsfw)
                        /\ OrderLists(type, "ASC", is_nsfw) = {Reverse(s) : s \in orders}
  BY DEF OrderPaged
<1> DEFINE S == Ordered(type, is_nsfw)
           orders == OrderLists(type, "DESC", is_nsfw)
           s == CHOOSE s \in orders : TRUE
           RowsAt(p) == CHOOSE u \in Order(type, "DESC", is_nsfw, p, limit).tokens : TRUE
<1>1. limit \in Nat \ {0}
  BY LimitsPositive
<1>2. PICK key : (\A t \in S : key[t] \in Int) /\ orders = Orders(S, key, "DESC")
  BY OrderKeys
<1>3. S \in SUBSET Listed /\ IsFiniteSet(S) /\ S \subseteq Nat
  BY OrderKeys
<1>4. orders # {}
  BY <1>2, <1>3, OrdersExist
<1>5. s \in orders
  BY <1>4
<1>6. s \in SetToSeqs(S)
  BY <1>2, <1>5 DEF Orders
<1>7. OrdersComplete
  <2>1. TokensFinite
    <3>1. DOMAIN token \in SUBSET Token
      BY DEF DbInv, TablesOK
    <3>2. QED
      BY <3>1, AddressAssumption, FS_Subset DEF TokensFinite
  <2>2. QED
    BY <2>1, OrdersFollow
<1>8. Len(s) <= OrderCount(is_nsfw) /\ OrderLists(type, "ASC", is_nsfw) = {Reverse(u) : u \in orders}
  BY <1>5, <1>7 DEF OrdersComplete
<1>9. s \in Seq(S) /\ Cardinality(S) \in Nat /\ Len(s) = Cardinality(S)
  BY <1>3, <1>6, SeqsOfSet
<1>10. ASSUME Cardinality(orders) = 1
       PROVE  orders = {s}
  <2>1. orders \in SUBSET SetToSeqs(S)
    BY <1>2 DEF Orders
  <2>2. IsFiniteSet(orders)
    BY <1>3, <2>1, ListsFinite, FS_Subset
  <2> HIDE DEF orders, s
  <2>3. \E u : orders = {u}
    BY <1>10, <2>2, FS_Singleton
  <2>4. QED
    BY <1>5, <2>3
<1> HIDE DEF s
<1>11. ASSUME orders = {s}, NEW p \in Nat \ {0}
       PROVE  Ids(RowsAt(p), LAMBDA r : r.metadata.token_info.token_id) = PageOf(s, p, limit)
  <2> DEFINE page == PageOf(s, p, limit)
             shown == [i \in DOMAIN page |-> OrderToken(page[i])]
  <2>1. page = [i \in DOMAIN page |-> page[i]]
    BY <1>1, <1>9, IdsOfPage
  <2>2. Order(type, "DESC", is_nsfw, p, limit).tokens
          = {LET rows == PageOf(o, p, limit) IN [i \in DOMAIN rows |-> OrderToken(rows[i])] : o \in {s}}
    BY <1>11, Zenon DEF Order
  <2>3. Order(type, "DESC", is_nsfw, p, limit).tokens = {shown}
    BY <2>2
  <2>4. RowsAt(p) = shown
    BY <2>3
  <2> HIDE DEF page, RowsAt
  <2>5. Ids(shown, LAMBDA r : r.metadata.token_info.token_id) = [i \in DOMAIN page |-> page[i]]
    BY DEF Ids, OrderToken, TokenMetadata, TokenInfo
  <2> HIDE DEF shown
  <2>6. QED
    BY <2>1, <2>4, <2>5, Zenon DEF page
<1> HIDE DEF orders, S, RowsAt
<1>12. ASSUME orders = {s}
       PROVE  FlattenSeq([p \in 1..(Len(s) + 1) |->
                                    Ids(RowsAt(p), LAMBDA r : r.metadata.token_info.token_id)])
              = FlattenSeq([p \in 1..(Len(s) + 1) |-> PageOf(s, p, limit)])
  <2>1. \A p \in 1..(Len(s) + 1) : p \in Nat \ {0}
    BY <1>9
  <2>2. QED
    BY <1>11, <1>12, <2>1, Zenon
<1>13. LET all == FlattenSeq([p \in 1..(Cardinality(S) + 1) |-> PageOf(s, p, limit)])
       IN  Len(all) = Cardinality(S) /\ IsInjective(all)
  BY <1>1, <1>3, <1>6, ListedOnce
<1>14. ASSUME Cardinality(orders) = 1
       PROVE  LET all == FlattenSeq([p \in 1..(Len(s) + 1) |->
                                    Ids(RowsAt(p), LAMBDA r : r.metadata.token_info.token_id)])
              IN  Len(all) = Len(s) /\ IsInjective(all)
  BY <1>9, <1>10, <1>12, <1>13, <1>14, Zenon
<1>15. QED
  BY <1>8, <1>14, Zenon DEF EachOnce, orders, s, RowsAt

\* The volume of some trades is a number, and those of others are added to it.
LEMMA Volumes ==
  ASSUME DbInv, NEW S, S \subseteq DOMAIN swap
  PROVE  /\ SumQuote(S) \in Nat
         /\ \A T \in SUBSET DOMAIN swap : S \cap T = {} => SumQuote(S \cup T) = SumQuote(S) + SumQuote(T)
         /\ \A T \in SUBSET S : SumQuote(T) <= SumQuote(S)
<1> DEFINE quote == [i \in DOMAIN swap |-> swap[i].quote]
<1>1. \A i \in DOMAIN swap : quote[i] \in Nat
  BY SwapsFinite DEF SwapRow
<1>2. \A T \in SUBSET DOMAIN swap : IsFiniteSet(T)
  BY SwapsFinite, FS_Subset
<1>3. \A T : SumQuote(T) = SumFunctionOnSet(quote, T)
  BY DEF SumQuote
<1> HIDE DEF quote
<1>4. SumQuote(S) \in Nat
  <2>1. IsFiniteSet(S) /\ IsFiniteSet({}) /\ S \cap {} = {} /\ \A i \in S \cup {} : quote[i] \in Nat
    BY <1>1, <1>2
  <2>2. SumFunctionOnSet(quote, S) \in Nat
    BY <2>1, SumSplit
  <2>3. QED
    BY <1>3, <2>2
<1>5. ASSUME NEW T \in SUBSET DOMAIN swap, S \cap T = {}
      PROVE  SumQuote(S \cup T) = SumQuote(S) + SumQuote(T)
  <2>1. IsFiniteSet(S) /\ IsFiniteSet(T) /\ \A i \in S \cup T : quote[i] \in Nat
    BY <1>1, <1>2
  <2>2. SumFunctionOnSet(quote, S \cup T) = SumFunctionOnSet(quote, S) + SumFunctionOnSet(quote, T)
    BY <1>5, <2>1, SumSplit
  <2>3. QED
    BY <1>3, <2>2
<1>6. ASSUME NEW T \in SUBSET S
      PROVE  SumQuote(T) <= SumQuote(S)
  <2>1. IsFiniteSet(S) /\ \A i \in S : quote[i] \in Nat
    BY <1>1, <1>2
  <2>2. SumFunctionOnSet(quote, T) <= SumFunctionOnSet(quote, S)
    BY <2>1, SumGrows
  <2>3. QED
    BY <1>3, <2>2
<1>7. QED
  BY <1>4, <1>5, <1>6

\* There are finitely many traders, and a profit is a number.
LEMMA Profits ==
  ASSUME DbInv
  PROVE  /\ DOMAIN Pnl = Traders
         /\ IsFiniteSet(Traders) /\ Traders \subseteq Account /\ Traders \subseteq Nat
         /\ \A a \in Traders : Pnl[a] \in Int
<1>1. DOMAIN Pnl = Traders
  BY DEF Pnl, Traders
<1>2. Traders \subseteq Account
  BY SwapsFinite DEF Traders, SwapRow
<1>3. Traders \in SUBSET Account
  BY <1>2
<1>4. IsFiniteSet(Traders) /\ Traders \subseteq Nat
  BY <1>3, AddressAssumption, FS_Subset
<1>5. ASSUME NEW a \in Traders
      PROVE  Pnl[a] \in Int
  <2> DEFINE sold == SumQuote({i \in DOMAIN swap : swap[i].account = a /\ ~swap[i].is_buy})
             bought == SumQuote({i \in DOMAIN swap : swap[i].account = a /\ swap[i].is_buy})
  <2>1. sold \in Nat /\ bought \in Nat
    BY Volumes
  <2>2. Pnl[a] = sold - bought
    BY DEF Pnl, Traders
  <2> HIDE DEF sold, bought
  <2>3. QED
    BY <2>1, <2>2
<1>6. QED
  BY <1>1, <1>2, <1>4, <1>5

\* The pages of a leaderboard without ties add up.
LEMMA BoardIsPaged ==
  ASSUME DbInv, NEW limit \in Limit
  PROVE  BoardPaged(limit)
<1> DEFINE S == DOMAIN Pnl
           Board(p) == CHOOSE b \in Leaderboard(p, limit) : TRUE
<1> SUFFICES ASSUME \A x, y \in S : Pnl[x] = Pnl[y] => x = y
             PROVE  LET all == FlattenSeq([p \in 1..(Board(1).total_count + 1) |->
                                    Ids(Board(p).ranks, LAMBDA r : r.account_id)])
                    IN  Len(all) = Board(1).total_count /\ IsInjective(all)
  BY DEF BoardPaged, Distinct, EachOnce
<1>1. limit \in Nat \ {0}
  BY LimitsPositive
<1>2. IsFiniteSet(S) /\ S \subseteq Nat /\ \A a \in S : Pnl[a] \in Int
  BY Profits
<1> HIDE DEF S
<1>3. PICK s \in Orders(S, Pnl, "DESC") : TRUE
  BY <1>2, OrdersExist
<1>4. Orders(S, Pnl, "DESC") = {s}
  <2>1. \A u \in Orders(S, Pnl, "DESC") : u = s
    BY <1>2, <1>3, OrdersOnce
  <2>2. QED
    BY <1>3, <2>1
<1>5. s \in SetToSeqs(S)
  BY <1>3 DEF Orders
<1>6. s \in Seq(S) /\ Cardinality(S) \in Nat
  BY <1>2, <1>5, SeqsOfSet
<1>7. ASSUME NEW p \in Nat \ {0}
      PROVE  /\ Ids(Board(p).ranks, LAMBDA r : r.account_id) = PageOf(s, p, limit)
             /\ Board(p).total_count = IF PageOf(s, p, limit) = <<>> THEN 0 ELSE Cardinality(S)
  <2> DEFINE page == PageOf(s, p, limit)
             ranked == [i \in DOMAIN page |-> [rank |-> (p - 1) * limit + i + (p - 1) * limit,
                                               account_id |-> page[i]]]
  <2>1. page = [i \in DOMAIN page |-> page[i]] /\ page \in Seq(S)
    BY <1>1, <1>6, IdsOfPage
  <2>2. Leaderboard(p, limit) = {[ranks |-> ranked, total_count |-> IF ranked = <<>> THEN 0 ELSE Cardinality(S)]}
    BY <1>4 DEF Leaderboard, S
  <2> HIDE DEF page
  <2>3. Ids(ranked, LAMBDA r : r.account_id) = [i \in DOMAIN page |-> page[i]]
    BY DEF Ids
  <2>4. ranked = <<>> <=> page = <<>>
    BY <2>1
  <2> HIDE DEF ranked
  <2>5. Board(p) = [ranks |-> ranked, total_count |-> IF ranked = <<>> THEN 0 ELSE Cardinality(S)]
    BY <2>2
  <2> HIDE DEF Board
  <2>6. Board(p).ranks = ranked /\ Board(p).total_count = IF page = <<>> THEN 0 ELSE Cardinality(S)
    BY <2>4, <2>5
  <2>7. QED
    BY <2>1, <2>3, <2>6, Zenon DEF page
<1> HIDE DEF Board
<1>8. Board(1).total_count = Cardinality(S)
  <2> DEFINE page == PageOf(s, 1, limit)
  <2>1. 1 \in Nat \ {0}
    OBVIOUS
  <2>2. Board(1).total_count = IF page = <<>> THEN 0 ELSE Cardinality(S)
    BY <1>7, <2>1
  <2>3. (IF page = <<>> THEN 0 ELSE Cardinality(S)) = Cardinality(S)
    BY <1>1, <1>2, <1>5, CountOfPage
  <2>4. QED
    BY <2>2, <2>3
<1>9. FlattenSeq([p \in 1..(Cardinality(S) + 1) |-> Ids(Board(p).ranks, LAMBDA r : r.account_id)])
      = FlattenSeq([p \in 1..(Cardinality(S) + 1) |-> PageOf(s, p, limit)])
  <2>1. \A p \in 1..(Cardinality(S) + 1) : p \in Nat \ {0}
    BY <1>6
  <2>2. QED
    BY <1>7, <2>1, Zenon
<1>10. LET all == FlattenSeq([p \in 1..(Cardinality(S) + 1) |-> PageOf(s, p, limit)])
       IN  Len(all) = Cardinality(S) /\ IsInjective(all)
  BY <1>1, <1>2, <1>5, ListedOnce
<1>11. QED
  BY <1>8, <1>9, <1>10, Zenon

\* Tokens that all have places of their own are shown in the order of the places.
LEMMA ShownByPlace ==
  ASSUME DbInv, NEW place, DOMAIN place = DOMAIN token,
         \A t \in DOMAIN token : place[t] \in Nat,
         \A t, u \in DOMAIN token : place[t] = place[u] => t = u
  PROVE  \E shown \in SetToSeqs(Listed) :
            /\ TrendTokens(place) = {Ids(shown, OrderToken)}
            /\ \A i, j \in DOMAIN shown : i < j => place[shown[i]] < place[shown[j]]
<1>1. Listed \subseteq DOMAIN token /\ Listed \in SUBSET Token
  BY DEF DbInv, TablesOK, Listed
<1>2. IsFiniteSet(Listed) /\ Listed \subseteq Nat
  BY <1>1, AddressAssumption, FS_Subset
<1>3. /\ \A t \in Listed : place[t] \in Int
      /\ \A t, u \in Listed : place[t] = place[u] => t = u
  BY <1>1
<1>4. DOMAIN place \cap Listed = Listed
  BY <1>1
<1>5. PICK shown \in Orders(Listed, place, "ASC") : TRUE
  <2>1. \A t \in Listed : place[t] \in Int
    BY <1>3
  <2>2. Orders(Listed, place, "ASC") # {}
    BY <1>2, <2>1, OrdersExist
  <2>3. QED
    BY <2>2
<1>6. \A s \in Orders(Listed, place, "ASC") : s = shown
  BY <1>2, <1>3, <1>5, OrdersOnce
<1>7. Orders(Listed, place, "ASC") = {shown}
  BY <1>5, <1>6
<1>8. TrendTokens(place) = {Ids(shown, OrderToken)}
  BY <1>4, <1>7 DEF TrendTokens, Ids
<1>9. shown \in SetToSeqs(Listed) /\ \A i, j \in DOMAIN shown : i < j => place[shown[i]] <= place[shown[j]]
  BY <1>5 DEF Orders
<1>10. /\ DOMAIN shown = 1..Len(shown) /\ Len(shown) \in Nat
       /\ \A i \in DOMAIN shown : shown[i] \in Listed
       /\ \A i, j \in DOMAIN shown : shown[i] = shown[j] => i = j
  BY <1>2, <1>9, SeqsOfSet
<1>11. ASSUME NEW i \in DOMAIN shown, NEW j \in DOMAIN shown, i < j
       PROVE  place[shown[i]] < place[shown[j]]
  <2>1. shown[i] # shown[j] /\ shown[i] \in Listed /\ shown[j] \in Listed
    BY <1>10, <1>11
  <2>2. place[shown[i]] \in Int /\ place[shown[j]] \in Int /\ place[shown[i]] # place[shown[j]]
    BY <1>3, <2>1
  <2>3. place[shown[i]] <= place[shown[j]]
    BY <1>9, <1>11
  <2>4. QED
    BY <2>2, <2>3
<1>12. QED
  BY <1>8, <1>9, <1>11

\* The trend list shows its tokens in the order they were inserted.
LEMMA TrendIsOrdered ==
  ASSUME DbInv
  PROVE  TrendOrdered
<1> SUFFICES ASSUME NEW s \in SetToSeqs(DOMAIN token)
             PROVE  LET place == [t \in DOMAIN token |-> CHOOSE n \in DOMAIN s : s[n] = t]
                    IN  \E shown \in SetToSeqs(Listed) :
                            /\ TrendTokens(place) = {Ids(shown, OrderToken)}
                            /\ \A i, j \in DOMAIN shown : i < j => place[shown[i]] < place[shown[j]]
  BY DEF TrendOrdered
<1> DEFINE place == [t \in DOMAIN token |-> CHOOSE n \in DOMAIN s : s[n] = t]
<1>1. IsFiniteSet(DOMAIN token)
  <2>1. DOMAIN token \in SUBSET Token
    BY DEF DbInv, TablesOK
  <2>2. QED
    BY <2>1, AddressAssumption, FS_Subset
<1>2. DOMAIN place = DOMAIN token
  OBVIOUS
<1>3. /\ \A t \in DOMAIN token : place[t] \in Nat
      /\ \A t, u \in DOMAIN token : place[t] = place[u] => t = u
  <2>1. DOMAIN s = 1..Len(s) /\ Len(s) \in Nat /\ \A x \in DOMAIN token : \E i \in DOMAIN s : s[i] = x
    BY <1>1, SeqsOfSet
  <2>2. \A t \in DOMAIN token : place[t] \in DOMAIN s /\ s[place[t]] = t
    BY <2>1
  <2> HIDE DEF place
  <2>3. QED
    BY <2>1, <2>2
<1> HIDE DEF place
<1>4. \E shown \in SetToSeqs(Listed) :
        /\ TrendTokens(place) = {Ids(shown, OrderToken)}
        /\ \A i, j \in DOMAIN shown : i < j => place[shown[i]] < place[shown[j]]
  BY <1>2, <1>3, ShownByPlace, Zenon
<1>5. QED
  BY <1>4, Zenon DEF place

\* The first rows of a list of a set are as many as the limit allows.
LEMMA FirstFound ==
  ASSUME NEW S, IsFiniteSet(S), NEW s \in SetToSeqs(S), NEW limit \in Nat \ {0},
         NEW n, n = (IF Cardinality(S) < limit THEN Cardinality(S) ELSE limit)
  PROVE  /\ PageOf(s, 1, limit) \in SetToSeqs(ToSet(PageOf(s, 1, limit)))
         /\ Len(PageOf(s, 1, limit)) = n /\ n \in Nat
         /\ ToSet(PageOf(s, 1, limit)) \in SUBSET S
         /\ IsFiniteSet(ToSet(PageOf(s, 1, limit)))
         /\ Cardinality(ToSet(PageOf(s, 1, limit))) = n
<1> DEFINE u == PageOf(s, 1, limit)
           T == ToSet(u)
<1>1. s \in Seq(S) /\ Len(s) = Cardinality(S) /\ Len(s) \in Nat /\ DOMAIN s = 1..Len(s)
      /\ \A i, j \in DOMAIN s : s[i] = s[j] => i = j
  BY SeqsOfSet
<1>2. /\ u \in Seq(S)
      /\ Len(u) = LET low == (1 - 1) * limit
                      high == IF 1 * limit < Len(s) THEN 1 * limit ELSE Len(s)
                  IN  IF low < high THEN high - low ELSE 0
      /\ \A j \in 1..Len(u) : u[j] = s[(1 - 1) * limit + j]
  <2>1. 1 \in Nat \ {0}
    OBVIOUS
  <2>2. QED
    BY <1>1, <2>1, PageRows
<1> HIDE DEF u
<1>3. (1 - 1) * limit = 0 /\ 1 * limit = limit
  OBVIOUS
<1>4. Len(u) = n /\ n \in Nat /\ n <= Len(s)
  BY <1>1, <1>2, <1>3
<1>5. \A j \in 1..n : u[j] = s[j] /\ u[j] \in S /\ j \in DOMAIN s
  <2>1. \A j \in 1..n : j \in 1..Len(s) /\ 0 + j = j
    BY <1>1, <1>4
  <2>2. QED
    BY <1>1, <1>2, <1>3, <1>4, <2>1
<1>6. DOMAIN u = 1..n /\ u = [j \in 1..n |-> u[j]]
  BY <1>2, <1>4
<1>7. \A i, j \in 1..n : u[i] = u[j] => i = j
  BY <1>1, <1>5
<1>8. T \in SUBSET S /\ \A j \in 1..n : u[j] \in T
  BY <1>5, <1>6 DEF ToSet
<1>9. u \in Surjection(1..n, T) /\ u \in Injection(1..n, T)
  <2>1. u \in [1..n -> T]
    BY <1>6, <1>8
  <2>2. \A x \in T : \E j \in 1..n : u[j] = x
    BY <1>6 DEF ToSet
  <2>3. IsInjective(u)
    BY <1>6, <1>7 DEF IsInjective
  <2>4. QED
    BY <2>1, <2>2, <2>3 DEF Surjection, Injection
<1>10. IsFiniteSet(1..n) /\ Cardinality(1..n) = n
  <2>1. \A m \in Nat : IsFiniteSet(1..m) /\ Cardinality(1..m) = m
    BY FS_Interval
  <2>2. QED
    BY <1>4, <2>1, Zenon
<1>11. IsFiniteSet(T) /\ Cardinality(T) = n
  BY <1>9, <1>10, FS_Surjection
<1>12. u \in SetToSeqs(T)
  <2>1. u \in [1..n -> T] /\ \A i, j \in 1..n : i # j => u[i] # u[j]
    BY <1>7, <1>9 DEF Injection
  <2> HIDE DEF T
  <2>2. QED
    BY <1>11, <2>1 DEF SetToSeqs
<1>13. QED
  BY <1>4, <1>8, <1>11, <1>12 DEF u

\* A search by nickname finds some account where there is one.
LEMMA AccountsFound ==
  ASSUME Account # {}
  PROVE  \E s \in SearchAccounts(Account) : TRUE
<1>1. IsFiniteSet(Account) /\ Account \subseteq Nat
  BY AddressAssumption
<1> DEFINE key == [a \in Account |-> 0]
           n == IF Cardinality(Account) < MaxFound THEN Cardinality(Account) ELSE MaxFound
<1>2. PICK s \in Orders(Account, key, "ASC") : TRUE
  <2>1. \A a \in Account : key[a] \in Int
    OBVIOUS
  <2> HIDE DEF key
  <2>2. Orders(Account, key, "ASC") # {}
    BY <1>1, <2>1, OrdersExist
  <2>3. QED
    BY <2>2
<1>3. s \in SetToSeqs(Account) /\ MaxFound \in Nat \ {0}
  BY <1>2, BoundAssumption DEF Orders
<1> DEFINE u == PageOf(s, 1, MaxFound)
<1>4. u \in SetToSeqs(ToSet(u)) /\ Len(u) = n /\ ToSet(u) \in SUBSET Account
  BY <1>1, <1>3, FirstFound
<1> HIDE DEF u
<1>5. u \in SearchAccounts(Account)
  BY <1>4 DEF SearchAccounts
<1>6. QED
  BY <1>5

\* An account that is found is one of the answer.
LEMMA FoundAccounts ==
  ASSUME Account # {}, NEW s \in SearchAccounts(Account)
  PROVE  s # <<>>
<1> DEFINE n == Cardinality(Account)
<1>1. n \in Nat /\ n # 0
  BY AddressAssumption, FS_CardinalityType, FS_EmptySet
<1>2. Len(s) = IF n < MaxFound THEN n ELSE MaxFound
  BY DEF SearchAccounts
<1> HIDE DEF n
<1>3. Len(s) # 0
  BY <1>1, <1>2, BoundAssumption
<1>4. QED
  BY <1>3

\* What a search by address finds.
LEMMA AddressFinds ==
  ASSUME NEW t \in Listed
  PROVE  SearchAddress(t).tokens = <<TokenMetadata(t)>>
<1> DEFINE T == {u \in Listed : u = t}
           f == SetToSeq(T)
<1>1. T = {t}
  OBVIOUS
<1>2. Cardinality(T) = 1
  BY <1>1, FS_Singleton
<1>3. 1..1 = {1}
  OBVIOUS
<1>4. f = CHOOSE g \in [1..1 -> {t}] : IsInjective(g)
  BY <1>1, <1>2, Zenon DEF SetToSeq
<1>5. \E g \in [1..1 -> {t}] : IsInjective(g)
  <2>1. [i \in 1..1 |-> t] \in [1..1 -> {t}] /\ IsInjective([i \in 1..1 |-> t])
    BY <1>3 DEF IsInjective
  <2>2. QED
    BY <2>1
<1>6. f \in [1..1 -> {t}]
  BY <1>4, <1>5
<1> HIDE DEF f, T
<1>7. DOMAIN f = 1..1 /\ f[1] = t
  BY <1>3, <1>6
<1>8. SearchAddress(t).tokens = [i \in DOMAIN f |-> TokenMetadata(f[i])]
  BY DEF SearchAddress, SearchResults, f, T
<1>9. [i \in DOMAIN f |-> TokenMetadata(f[i])] = [i \in 1..1 |-> TokenMetadata(t)]
  BY <1>3, <1>7
<1>10. [i \in 1..1 |-> TokenMetadata(t)] = <<TokenMetadata(t)>>
  BY <1>3
<1>11. QED
  BY <1>8, <1>9, <1>10

\* The pages of a kept search answer make it up, and a search by address agrees with it.
LEMMA SearchIsPaged ==
  ASSUME DbInv, NEW limit \in Limit
  PROVE  SearchPaged(limit)
<1> DEFINE Cap(S) == Orders(S \cap Listed, MarketCap, "DESC")
<1> SUFFICES ASSUME NEW bySymbol \in SUBSET Listed, NEW byName \in SUBSET Listed,
                    NEW found \in SearchTokens(bySymbol, byName)
             PROVE  LET kept == SearchResults(found, CHOOSE s \in SearchAccounts(Account) : TRUE)
                        pages == [p \in 1..(Len(found) + 1) |-> SearchHit(kept, p, limit)]
                        shown(hits) == FlattenSeq([p \in DOMAIN hits |-> (CHOOSE hit \in hits[p] : TRUE).tokens])
                    IN  /\ found # <<>> => shown(pages) = kept.tokens /\ Len(shown(pages)) = kept.token_count
                        /\ found = <<>> => \A p \in DOMAIN pages : pages[p] = {}
                        /\ Cardinality(bySymbol \cap byName) >= MaxFound => Len(found) >= MaxFound
                        /\ \A t \in ToSet(found) : SearchAddress(t).tokens = <<TokenMetadata(t)>>
  BY DEF SearchPaged
<1>1. limit \in Nat \ {0} /\ MaxFound \in Nat \ {0}
  BY LimitsPositive, BoundAssumption
<1>2. IsFiniteSet(Listed) /\ Listed \subseteq Token
  <2>1. Listed \in SUBSET Token
    BY DEF DbInv, TablesOK, Listed
  <2>2. QED
    BY <2>1, AddressAssumption, FS_Subset
<1>3. PICK s \in Cap(bySymbol), u \in Cap(byName) :
        found \in Orders(ToSet(PageOf(s, 1, MaxFound)) \cup ToSet(PageOf(u, 1, MaxFound)), MarketCap, "DESC")
  <2> DEFINE rows(S) == {ToSet(PageOf(s, 1, MaxFound)) : s \in Cap(S)}
  <2>1. SearchTokens(bySymbol, byName)
        = UNION {Orders(S \cup N, MarketCap, "DESC") : S \in rows(bySymbol), N \in rows(byName)}
    BY DEF SearchTokens
  <2> HIDE DEF rows
  <2>2. PICK S \in rows(bySymbol), N \in rows(byName) : found \in Orders(S \cup N, MarketCap, "DESC")
    BY <2>1
  <2>3. \E s \in Cap(bySymbol) : S = ToSet(PageOf(s, 1, MaxFound))
    BY <2>2 DEF rows
  <2>4. \E u \in Cap(byName) : N = ToSet(PageOf(u, 1, MaxFound))
    BY <2>2 DEF rows
  <2>5. QED
    BY <2>2, <2>3, <2>4, Zenon
<1> DEFINE A == ToSet(PageOf(s, 1, MaxFound))
           B == ToSet(PageOf(u, 1, MaxFound))
           F == A \cup B
<1>4. s \in SetToSeqs(bySymbol) /\ u \in SetToSeqs(byName) /\ IsFiniteSet(bySymbol) /\ IsFiniteSet(byName)
  <2>1. bySymbol \cap Listed = bySymbol /\ byName \cap Listed = byName
    OBVIOUS
  <2>2. IsFiniteSet(bySymbol) /\ IsFiniteSet(byName)
    BY <1>2, FS_Subset
  <2>3. QED
    BY <2>1, <2>2 DEF Orders
<1>5. /\ A \in SUBSET bySymbol /\ IsFiniteSet(A)
      /\ Cardinality(A) = IF Cardinality(bySymbol) < MaxFound THEN Cardinality(bySymbol) ELSE MaxFound
  BY <1>1, <1>4, FirstFound
<1>6. B \in SUBSET byName /\ IsFiniteSet(B)
  BY <1>1, <1>4, FirstFound
<1>7. IsFiniteSet(F) /\ F \in SUBSET Listed
  BY <1>5, <1>6, FS_Union
<1> HIDE DEF A, B
<1>8. found \in SetToSeqs(F)
  BY <1>3 DEF Orders, A, B
<1>9. /\ found \in Seq(F) /\ Len(found) = Cardinality(F) /\ Len(found) \in Nat /\ DOMAIN found = 1..Len(found)
      /\ \A i \in DOMAIN found : found[i] \in F
  BY <1>7, <1>8, SeqsOfSet
<1>10. ASSUME Cardinality(bySymbol \cap byName) >= MaxFound
       PROVE  Len(found) >= MaxFound
  <2>1. bySymbol \cap byName \in SUBSET bySymbol /\ A \in SUBSET F
    OBVIOUS
  <2>2. Cardinality(bySymbol \cap byName) <= Cardinality(bySymbol)
    BY <1>4, <2>1, FS_Subset
  <2>3. Cardinality(A) <= Cardinality(F)
    BY <1>7, <2>1, FS_Subset
  <2> DEFINE k == Cardinality(bySymbol \cap byName)
             m == Cardinality(bySymbol)
             c == Cardinality(A)
  <2>4. k \in Nat /\ m \in Nat /\ c \in Nat
    <3>1. IsFiniteSet(bySymbol \cap byName)
      BY <1>4, <2>1, FS_Subset
    <3>2. QED
      BY <1>4, <1>5, <3>1, FS_CardinalityType
  <2>5. k >= MaxFound /\ k <= m /\ c <= Len(found) /\ c = (IF m < MaxFound THEN m ELSE MaxFound)
    BY <1>5, <1>9, <1>10, <2>2, <2>3
  <2> HIDE DEF k, m, c
  <2>6. QED
    BY <1>1, <1>9, <2>4, <2>5
<1>11. \A t \in ToSet(found) : SearchAddress(t).tokens = <<TokenMetadata(t)>>
  <2>1. ToSet(found) \subseteq Listed
    BY <1>7, <1>9 DEF ToSet
  <2>2. QED
    BY <2>1, AddressFinds
<1> HIDE DEF F
<1> DEFINE accounts == CHOOSE a \in SearchAccounts(Account) : TRUE
           rows == [i \in DOMAIN found |-> TokenMetadata(found[i])]
           kept == SearchResults(found, accounts)
           Cut(p) == SearchHit(kept, p, limit)
           pages == [p \in 1..(Len(found) + 1) |-> Cut(p)]
<1>12. /\ kept = [tokens |-> rows, token_count |-> Len(found), accounts |-> accounts,
                  account_count |-> Len(accounts)]
       /\ kept.tokens = rows /\ kept.token_count = Len(found) /\ kept.accounts = accounts
  BY DEF SearchResults
<1>13. rows \in Seq({TokenMetadata(t) : t \in F}) /\ Len(rows) = Len(found) /\ (rows = <<>> <=> found = <<>>)
  <2> DEFINE X == {TokenMetadata(t) : t \in F}
  <2>1. \A i \in DOMAIN found : TokenMetadata(found[i]) \in X
    BY <1>9
  <2> HIDE DEF X
  <2>2. rows \in [1..Len(found) -> X]
    BY <1>9, <2>1
  <2>3. rows \in Seq(X) /\ Len(rows) = Len(found)
    BY <1>9, <2>2
  <2> HIDE DEF rows
  <2>4. rows = <<>> <=> found = <<>>
    BY <1>9, <2>3
  <2>5. QED
    BY <2>3, <2>4 DEF X
<1>14. ASSUME found = <<>>
       PROVE  \A p \in DOMAIN pages : pages[p] = {}
  <2>1. \A p : Cut(p) = {}
    BY <1>12, <1>13, <1>14 DEF SearchHit
  <2> HIDE DEF Cut
  <2>2. QED
    BY <2>1
<1> HIDE DEF rows, accounts, kept
<1>15. ASSUME found # <<>>
       PROVE  FlattenSeq([p \in DOMAIN pages |-> (CHOOSE hit \in pages[p] : TRUE).tokens]) = rows
  <2>1. F # {}
    BY <1>9, <1>15
  <2>2. Account # {}
    <3>1. PICK t \in Listed : TRUE
      BY <1>7, <2>1
    <3>2. token[t] \in [creator : Account, created_at : 0..Clock, is_nsfw : BOOLEAN]
      BY DEF DbInv, TablesOK, Listed
    <3>3. QED
      BY <3>2
  <2>3. accounts # <<>>
    <3>1. accounts \in SearchAccounts(Account)
      BY <2>2, AccountsFound DEF accounts
    <3>2. QED
      BY <2>2, <3>1, FoundAccounts
  <2>4. \A p : Cut(p) = {[kept EXCEPT !.tokens = PageOf(@, p, limit), !.accounts = PageOf(@, p, limit)]}
    BY <1>12, <1>13, <1>15, <2>3 DEF SearchHit
  <2>5. \A p : (CHOOSE hit \in Cut(p) : TRUE).tokens = PageOf(rows, p, limit)
    <3> SUFFICES ASSUME NEW p
                 PROVE  (CHOOSE hit \in Cut(p) : TRUE).tokens = PageOf(rows, p, limit)
      OBVIOUS
    <3> DEFINE hit == [kept EXCEPT !.tokens = PageOf(@, p, limit), !.accounts = PageOf(@, p, limit)]
    <3>1. hit.tokens = PageOf(rows, p, limit)
      BY <1>12
    <3>2. Cut(p) = {hit}
      BY <2>4
    <3> HIDE DEF hit, Cut
    <3>3. QED
      BY <3>1, <3>2
  <2> HIDE DEF Cut
  <2>6. \A p \in 1..(Len(found) + 1) : (CHOOSE hit \in pages[p] : TRUE).tokens = PageOf(rows, p, limit)
    BY <2>5
  <2>7. DOMAIN pages = 1..(Len(found) + 1)
    OBVIOUS
  <2> HIDE DEF pages
  <2>8. [p \in DOMAIN pages |-> (CHOOSE hit \in pages[p] : TRUE).tokens]
        = [p \in 1..(Len(rows) + 1) |-> PageOf(rows, p, limit)]
    BY <1>13, <2>6, <2>7, Zenon
  <2>9. FlattenSeq([p \in 1..(Len(rows) + 1) |-> PageOf(rows, p, limit)]) = rows
    BY <1>1, <1>13, PagesMakeList
  <2>10. QED
    BY <2>8, <2>9, Zenon
<1>16. QED
  <2>1. ASSUME found # <<>>
        PROVE  LET shown == FlattenSeq([p \in DOMAIN pages |-> (CHOOSE hit \in pages[p] : TRUE).tokens])
               IN  shown = kept.tokens /\ Len(shown) = kept.token_count
    BY <1>12, <1>13, <1>15, <2>1, Zenon
  <2>2. QED
    BY <1>10, <1>11, <1>14, <2>1, Zenon DEF accounts, kept

-----------------------------------------------------------------------------
(* One row after the other *)

\* The rows of price_history are in the order of block and transaction, and the last
\* row of a token has the price of its market.
PricesInOrder ==
    /\ \A i, j \in DOMAIN price : i < j => RowBefore(price[i], price[j])
    /\ \A i \in DOMAIN price : RowBefore(price[i], Now)
    /\ \A t \in DOMAIN market : \E i \in PriceRows(t) :
        price[i].price = market[t].price /\ \A j \in PriceRows(t) : j <= i

\* Rows r and q are of one transaction.
SameTx(r, q) == r.block = q.block /\ r.tx = q.tx

\* A transaction trades once, or changes the liquidity of a pool once.
OneRowATx ==
    /\ \A r, q \in RowsOf(swap) : SameTx(r, q) => r = q
    /\ \A r, q \in RowsOf(liquidity) : SameTx(r, q) => r = q
    /\ \A r \in RowsOf(swap), q \in RowsOf(liquidity) : ~SameTx(r, q)

\* Nobody holds a token before it has a market.
NoneUnlisted == \A t \in Token \ DOMAIN market : \A a \in Account : balance[t][a] = 0

\* What the tables say about the order of their rows.
RowsApart == PricesInOrder /\ OneRowATx /\ NoneUnlisted

\* A new price leaves price_history in order.
LEMMA PricedInOrder ==
  ASSUME DbInv, PricesInOrder, Index, NEW t \in DOMAIN market', Priced(t, market'[t].price),
         market'[t].price \in Nat, t \in Token,
         \A u \in DOMAIN market' : u # t => u \in DOMAIN market /\ market'[u].price = market[u].price
  PROVE  PricesInOrder'
<1> DEFINE row == [token |-> t, price |-> market'[t].price, block |-> block, tx |-> tx]
           n == Len(price)
<1>1. block \in Nat /\ tx \in Nat /\ block' = block /\ tx' = tx + 1
  BY AddressAssumption DEF DbInv, TablesOK, Index
<1>2. price \in Seq(PriceRow) /\ price' = Append(price, row)
  BY DEF DbInv, RowsOK, Priced
<1>3. /\ row.token = t /\ row.price = market'[t].price /\ row.block = block /\ row.tx = tx
      /\ row \in PriceRow
  BY <1>1 DEF PriceRow
<1> HIDE DEF row
<1>4. /\ n \in Nat /\ DOMAIN price = 1..n /\ DOMAIN price' = 1..(n + 1)
      /\ \A i \in 1..n : price'[i] = price[i] /\ price[i] \in PriceRow
      /\ price'[n + 1] = row
  BY <1>2, <1>3
<1> HIDE DEF n
<1>5. \A i \in 1..(n + 1) : i \in 1..n \/ i = n + 1
  BY <1>4
<1>6. \A i \in 1..n : /\ price[i].block \in Nat /\ price[i].tx \in Nat
                      /\ RowBefore(price[i], Now) /\ i < n + 1
  <2>1. \A i \in 1..n : price[i].block \in Nat /\ price[i].tx \in Nat
    BY <1>4 DEF PriceRow
  <2>2. \A i \in 1..n : RowBefore(price[i], Now) /\ i < n + 1
    BY <1>4 DEF PricesInOrder
  <2>3. QED
    BY <2>1, <2>2
<1>7. \A i \in 1..n : RowBefore(price[i], row) /\ RowBefore(price[i], Now')
  BY <1>1, <1>3, <1>6 DEF RowBefore, Now
<1>8. RowBefore(row, Now')
  BY <1>1, <1>3 DEF RowBefore, Now
<1>9. \A i, j \in DOMAIN price' : i < j => RowBefore(price'[i], price'[j])
  <2> SUFFICES ASSUME NEW i \in 1..(n + 1), NEW j \in 1..(n + 1), i < j
               PROVE  RowBefore(price'[i], price'[j])
    BY <1>4
  <2>1. i \in 1..n
    BY <1>4
  <2>2. CASE j = n + 1
    BY <1>4, <1>7, <2>1, <2>2
  <2>3. CASE j \in 1..n
    BY <1>4, <2>1, <2>3 DEF PricesInOrder
  <2>4. QED
    BY <1>5, <2>2, <2>3
<1>10. \A i \in DOMAIN price' : RowBefore(price'[i], Now')
  BY <1>4, <1>5, <1>7, <1>8
<1>11. ASSUME NEW u \in DOMAIN market'
       PROVE  \E i \in PriceRows(u)' : price'[i].price = market'[u].price /\ \A j \in PriceRows(u)' : j <= i
  <2>1. CASE u = t
    <3>1. n + 1 \in PriceRows(u)'
      BY <1>3, <1>4, <2>1 DEF PriceRows
    <3>2. \A j \in PriceRows(u)' : j <= n + 1
      BY <1>4 DEF PriceRows
    <3>3. QED
      BY <1>3, <1>4, <2>1, <3>1, <3>2
  <2>2. CASE u # t
    <3>1. PICK i \in PriceRows(u) : price[i].price = market[u].price /\ \A j \in PriceRows(u) : j <= i
      BY <2>2 DEF PricesInOrder
    <3>2. PriceRows(u)' = PriceRows(u)
      BY <1>3, <1>4, <1>5, <2>2 DEF PriceRows
    <3>3. i \in 1..n
      BY <1>4 DEF PriceRows
    <3>4. QED
      BY <1>4, <2>2, <3>1, <3>2, <3>3
  <2>3. QED
    BY <2>1, <2>2
<1>12. QED
  BY <1>9, <1>10, <1>11 DEF PricesInOrder

\* A step that writes no price leaves price_history in order.
LEMMA OrderOfPricesStands ==
  ASSUME DbInv, PricesInOrder, UNCHANGED price, DOMAIN market' = DOMAIN market,
         \A u \in DOMAIN market : market'[u].price = market[u].price,
         \/ block' = block /\ tx' = tx + 1
         \/ block' = block + 1 /\ tx' = 0
  PROVE  PricesInOrder'
<1>1. block \in Nat /\ tx \in Nat
  BY AddressAssumption DEF DbInv, TablesOK
<1>2. \A i \in DOMAIN price : price[i].block \in Nat /\ price[i].tx \in Nat
  <2>1. \A i \in DOMAIN price : price[i] \in PriceRow
    BY DEF DbInv, RowsOK
  <2>2. QED
    BY <2>1 DEF PriceRow
<1>3. \A i \in DOMAIN price : RowBefore(price[i], Now')
  BY <1>1, <1>2, RowBeforeLater DEF PricesInOrder
<1>4. \A u : PriceRows(u)' = PriceRows(u)
  BY DEF PriceRows
<1>5. QED
  BY <1>3, <1>4 DEF PricesInOrder

\* Every step of the indexer leaves price_history in order.
LEMMA PricesStayInOrder ==
  ASSUME DbInv, DbInv', PricesInOrder, [DbNext]_db
  PROVE  PricesInOrder'
<1>1. ASSUME Index
      PROVE  block' = block /\ tx' = tx + 1
  BY <1>1 DEF Index
<1>2. ASSUME NEW t \in Token, NEW a \in Account, NEW is_buy, NEW tok, NEW quo, Trade(t, a, is_buy, tok, quo)
      PROVE  PricesInOrder'
  <2>1. Index /\ t \in DOMAIN market /\ Priced(t, market'[t].price)
    BY <1>2 DEF Trade
  <2>2. DOMAIN market' = DOMAIN market /\ \A u \in DOMAIN market' : u # t => market'[u].price = market[u].price
    BY <1>2 DEF Trade
  <2>3. market'[t].price \in Nat
    BY <2>1, <2>2 DEF DbInv, TablesOK
  <2>4. QED
    BY <2>1, <2>2, <2>3, PricedInOrder
<1>3. ASSUME NEW t \in Token, OpenMarket(t)
      PROVE  PricesInOrder'
  <2>1. Index /\ Priced(t, 1)
    BY <1>3 DEF OpenMarket
  <2>2. /\ DOMAIN market' = DOMAIN market \cup {t} /\ market'[t].price = 1
        /\ \A u \in DOMAIN market : u # t => market'[u].price = market[u].price
    BY <1>3 DEF OpenMarket
  <2>3. QED
    BY <2>1, <2>2, PricedInOrder
<1>4. ASSUME NEW t \in Token, Graduate(t)
      PROVE  PricesInOrder'
  <2>1. Index /\ UNCHANGED price /\ t \in DOMAIN market /\ market' = [market EXCEPT ![t].market_type = "DEX"]
    BY <1>4 DEF Graduate
  <2>2. \A u \in DOMAIN market : market[u] \in [market_type : MarketType, price : Nat]
    BY DEF DbInv, TablesOK
  <2>3. DOMAIN market' = DOMAIN market /\ \A u \in DOMAIN market : market'[u].price = market[u].price
    BY <2>1, <2>2
  <2>4. QED
    BY <1>1, <2>1, <2>3, OrderOfPricesStands
<1>5. ASSUME UNCHANGED <<price, market>>, Index \/ Commit
      PROVE  PricesInOrder'
  BY <1>1, <1>5, OrderOfPricesStands DEF Commit
<1>6. CASE UNCHANGED db
  BY <1>6 DEF db, PricesInOrder, PriceRows, Now
<1>7. QED
  <2>1. CASE \E t \in Token, a \in Account, tok \in Amount : Buy(t, a, tok) \/ Sell(t, a, tok)
    BY <1>2, <2>1 DEF Buy, Sell
  <2>2. CASE \E t \in Token, a \in Account, kind \in {"mint", "burn"} : Provide(t, a, kind)
    BY <1>5, <2>2 DEF Provide
  <2>3. CASE \E t \in Token, a \in Account, nsfw \in BOOLEAN : CreateToken(t, a, nsfw)
    BY <1>5, <2>3 DEF CreateToken
  <2>4. CASE Commit
    BY <1>5, <2>4 DEF Commit
  <2>5. QED
    BY <1>3, <1>4, <1>6, <2>1, <2>2, <2>3, <2>4 DEF DbNext

\* No row of a trade or a change of liquidity is of the transaction being indexed.
LEMMA NoRowIsNow ==
  ASSUME DbInv
  PROVE  \A r \in RowsOf(swap) \cup RowsOf(liquidity) : ~SameTx(r, Now)
<1>1. block \in Nat /\ tx \in Nat
  BY AddressAssumption DEF DbInv, TablesOK
<1>2. RowsOf(swap) \subseteq SwapRow /\ RowsOf(liquidity) \subseteq LiquidityRow
  BY RowsTyped DEF DbInv, RowsOK
<1>3. \A r \in RowsOf(swap) \cup RowsOf(liquidity) : r.block \in Nat /\ r.tx \in Nat /\ RowBefore(r, Now)
  BY <1>2 DEF DbInv, RowsOK, SwapRow, LiquidityRow
<1>4. QED
  BY <1>1, <1>3 DEF RowBefore, Now, SameTx

\* Every step of the indexer gives a transaction one row at most.
LEMMA RowsStayApart ==
  ASSUME DbInv, OneRowATx, [DbNext]_db
  PROVE  OneRowATx'
<1>1. TablesOK /\ swap \in Seq(SwapRow) /\ liquidity \in Seq(LiquidityRow)
  BY DEF DbInv, RowsOK
<1>2. ASSUME NEW t \in Token, NEW a \in Account, NEW is_buy \in BOOLEAN, NEW tok \in Amount, NEW quo \in Nat,
             Trade(t, a, is_buy, tok, quo)
      PROVE  OneRowATx'
  <2>1. PICK moved \in PoolRow :
          /\ swap' = Append(swap, TradeRow(t, a, is_buy, tok, quo, moved))
          /\ TradeRow(t, a, is_buy, tok, quo, moved) \in SwapRow
    BY <1>1, <1>2, TradeShape
  <2> DEFINE row == TradeRow(t, a, is_buy, tok, quo, moved)
  <2>2. row.block = Now.block /\ row.tx = Now.tx
    BY DEF TradeRow, Now
  <2> HIDE DEF row
  <2>3. RowsOf(swap') = RowsOf(swap) \cup {row} /\ liquidity' = liquidity
    BY <1>1, <1>2, <2>1, AppendedRows DEF row, Trade
  <2>4. \A r \in RowsOf(swap) \cup RowsOf(liquidity) : ~SameTx(r, row) /\ ~SameTx(row, r)
    BY <2>2, NoRowIsNow DEF SameTx
  <2>5. QED
    BY <2>3, <2>4 DEF OneRowATx
<1>3. ASSUME NEW t \in Token, NEW a \in Account, NEW kind \in {"mint", "burn"}, Provide(t, a, kind)
      PROVE  OneRowATx'
  <2>1. PICK moved :
          /\ liquidity' = Append(liquidity, ProvideRow(t, a, kind, moved))
          /\ ProvideRow(t, a, kind, moved) \in LiquidityRow
    BY <1>1, <1>3, ProvideShape
  <2> DEFINE row == ProvideRow(t, a, kind, moved)
  <2>2. row.block = Now.block /\ row.tx = Now.tx
    BY DEF ProvideRow, Now
  <2> HIDE DEF row
  <2>3. RowsOf(liquidity') = RowsOf(liquidity) \cup {row} /\ swap' = swap
    BY <1>1, <1>3, <2>1, AppendedRows DEF row, Provide
  <2>4. \A r \in RowsOf(swap) \cup RowsOf(liquidity) : ~SameTx(r, row) /\ ~SameTx(row, r)
    BY <2>2, NoRowIsNow DEF SameTx
  <2>5. QED
    BY <2>3, <2>4 DEF OneRowATx
<1>4. ASSUME UNCHANGED <<swap, liquidity>>
      PROVE  OneRowATx'
  BY <1>4 DEF OneRowATx
<1>5. QED
  <2>1. \A tok \in Amount : tok \in Nat /\ tok \div 2 \in Nat
    BY AddressAssumption
  <2>2. CASE \E t \in Token, a \in Account, tok \in Amount : Buy(t, a, tok) \/ Sell(t, a, tok)
    BY <1>2, <2>1, <2>2 DEF Buy, Sell
  <2>3. CASE \E t \in Token, a \in Account, kind \in {"mint", "burn"} : Provide(t, a, kind)
    BY <1>3, <2>3
  <2>4. CASE \/ UNCHANGED db \/ Commit
             \/ \E t \in Token : OpenMarket(t) \/ Graduate(t) \/ \E a \in Account, nsfw \in BOOLEAN : CreateToken(t, a, nsfw)
    BY <1>4, <2>4 DEF db, Commit, OpenMarket, Graduate, CreateToken
  <2>5. QED
    BY <2>2, <2>3, <2>4 DEF DbNext

\* Only a token with a market is traded.
LEMMA UnlistedStayUnheld ==
  ASSUME DbInv, NoneUnlisted, [DbNext]_db
  PROVE  NoneUnlisted'
<1>1. ASSUME UNCHANGED balance, DOMAIN market \subseteq DOMAIN market'
      PROVE  NoneUnlisted'
  BY <1>1 DEF NoneUnlisted
<1>2. ASSUME NEW t \in Token, NEW a \in Account, NEW is_buy, NEW tok, NEW quo, Trade(t, a, is_buy, tok, quo)
      PROVE  NoneUnlisted'
  <2>1. t \in DOMAIN market /\ DOMAIN market' = DOMAIN market
    BY <1>2 DEF Trade
  <2>2. balance' = [balance EXCEPT ![t][a] = IF is_buy THEN @ + tok ELSE @ - tok]
    BY <1>2 DEF Trade
  <2>3. balance \in [Token -> [Account -> Nat]]
    BY DEF DbInv, TablesOK
  <2>4. \A u \in Token : u # t => balance'[u] = balance[u]
    BY <2>2, <2>3
  <2>5. QED
    BY <2>1, <2>4 DEF NoneUnlisted
<1>3. QED
  <2>1. CASE \E t \in Token, a \in Account, tok \in Amount : Buy(t, a, tok) \/ Sell(t, a, tok)
    BY <1>2, <2>1 DEF Buy, Sell
  <2>2. CASE \/ UNCHANGED db \/ Commit
             \/ \E t \in Token, a \in Account :
                    \/ \E nsfw \in BOOLEAN : CreateToken(t, a, nsfw)
                    \/ \E kind \in {"mint", "burn"} : Provide(t, a, kind)
    <3>1. UNCHANGED db \/ Commit => UNCHANGED <<balance, market>>
      BY DEF db, Commit
    <3>2. \A t \in Token, a \in Account, nsfw \in BOOLEAN :
            CreateToken(t, a, nsfw) => UNCHANGED <<balance, market>>
      BY DEF CreateToken
    <3>3. \A t \in Token, a \in Account, kind \in {"mint", "burn"} :
            Provide(t, a, kind) => UNCHANGED <<balance, market>>
      BY DEF Provide
    <3>4. UNCHANGED <<balance, market>>
      BY <2>2, <3>1, <3>2, <3>3, Zenon
    <3>5. QED
      BY <1>1, <3>4
  <2>3. CASE \E t \in Token : OpenMarket(t)
    <3>1. UNCHANGED balance /\ DOMAIN market \subseteq DOMAIN market'
      BY <2>3 DEF OpenMarket
    <3>2. QED
      BY <1>1, <3>1
  <2>4. CASE \E t \in Token : Graduate(t)
    <3>1. UNCHANGED balance /\ DOMAIN market \subseteq DOMAIN market'
      BY <2>4 DEF Graduate
    <3>2. QED
      BY <1>1, <3>1
  <2>5. QED
    BY <2>1, <2>2, <2>3, <2>4 DEF DbNext

\* The first price is the only row.
LEMMA RowsStartApart == DbInit => RowsApart
<1> SUFFICES ASSUME DbInit
             PROVE  RowsApart
  OBVIOUS
<1>1. PICK first \in Token, m \in MarketType :
        /\ block = 1 /\ tx = 0
        /\ market = [t \in {first} |-> [market_type |-> m, price |-> 2]]
        /\ swap = <<>> /\ liquidity = <<>>
        /\ price = <<[token |-> first, price |-> 2, block |-> 0, tx |-> 0]>>
        /\ balance = [t \in Token |-> [b \in Account |-> 0]]
  BY DEF DbInit
<1>2. DOMAIN price = {1} /\ price[1] = [token |-> first, price |-> 2, block |-> 0, tx |-> 0]
  BY <1>1
<1>3. DOMAIN market = {first} /\ market[first].price = 2
  BY <1>1
<1>4. PriceRows(first) = {1}
  BY <1>2 DEF PriceRows
<1>5. RowBefore(price[1], Now)
  BY <1>1, <1>2 DEF RowBefore, Now
<1>6. PricesInOrder
  <2>1. price[1].price = 2
    BY <1>2
  <2>2. QED
    BY <1>2, <1>3, <1>4, <1>5, <2>1 DEF PricesInOrder
<1>7. RowsOf(swap) = {} /\ RowsOf(liquidity) = {}
  BY <1>1 DEF RowsOf
<1>8. QED
  BY <1>1, <1>6, <1>7 DEF RowsApart, OneRowATx, NoneUnlisted

\* A transaction of the indexer writes one row, in the order of block and transaction,
\* so the order the queries sort by has no ties; nobody holds what has no market.
THEOREM RowsAreApart == DbSpec => []RowsApart
<1>1. DbInv /\ DbInv' /\ RowsApart /\ [DbNext]_db => RowsApart'
  BY PricesStayInOrder, RowsStayApart, UnlistedStayUnheld DEF RowsApart
<1>2. QED
  BY <1>1, RowsStartApart, DbInvariance, PTL DEF DbSpec

-----------------------------------------------------------------------------
(* The pages of the feed *)

\* The values of a function of finitely many elements are finitely many.
LEMMA ValuesFinite ==
  ASSUME NEW S, IsFiniteSet(S), NEW f, DOMAIN f = S
  PROVE  IsFiniteSet({f[x] : x \in S})
<1> DEFINE T == {f[x] : x \in S}
           g == [x \in S |-> f[x]]
<1>1. g \in Surjection(S, T)
  BY DEF Surjection
<1>2. QED
  BY <1>1, FS_Surjection

\* The row of which an event is made.
MadeOf(e, r) ==
    \/ r \in RowsOf(swap) /\ e = SwapEvent(r)
    \/ r \in RowsOf(liquidity) /\ e = LiquidityEvent(IF r.kind = "mint" THEN "join" ELSE "exit", r)

\* Every event is made of a row of one of its blocks.
LEMMA EventsAreMade ==
  ASSUME DbInv, NEW from \in Nat, NEW to \in Nat, NEW e \in EventSet(from, to)
  PROVE  \E r \in RowsOf(swap) \cup RowsOf(liquidity) :
            /\ MadeOf(e, r) /\ e.block = r.block /\ e.txn_index = r.tx
            /\ r.block \in Nat /\ r.tx \in Nat /\ InBlocks(r, from, to)
<1>1. RowsOf(swap) \subseteq SwapRow /\ RowsOf(liquidity) \subseteq LiquidityRow
  BY RowsTyped DEF DbInv, RowsOK
<1>2. \A r \in RowsOf(swap) \cup RowsOf(liquidity) : r.block \in Nat /\ r.tx \in Nat
  BY <1>1 DEF SwapRow, LiquidityRow
<1>3. CASE \E r \in SwapsShown(from, to) : e = SwapEvent(r)
  <2>1. PICK r \in SwapsShown(from, to) : e = SwapEvent(r)
    BY <1>3
  <2>2. e.block = r.block /\ e.txn_index = r.tx
    BY <2>1 DEF SwapEvent
  <2>3. r \in RowsOf(swap) /\ InBlocks(r, from, to)
    BY DEF SwapsShown
  <2>4. QED
    BY <1>2, <2>1, <2>2, <2>3 DEF MadeOf
<1>4. ASSUME NEW kind \in {"mint", "burn"}, NEW r \in LiquidityShown(kind, from, to),
             e = LiquidityEvent(IF kind = "mint" THEN "join" ELSE "exit", r)
      PROVE  \E q \in RowsOf(swap) \cup RowsOf(liquidity) :
                /\ MadeOf(e, q) /\ e.block = q.block /\ e.txn_index = q.tx
                /\ q.block \in Nat /\ q.tx \in Nat /\ InBlocks(q, from, to)
  <2>1. e.block = r.block /\ e.txn_index = r.tx
    BY <1>4 DEF LiquidityEvent
  <2>2. r \in RowsOf(liquidity) /\ InBlocks(r, from, to) /\ r.kind = kind
    BY DEF LiquidityShown
  <2>3. MadeOf(e, r)
    BY <1>4, <2>2 DEF MadeOf
  <2>4. QED
    BY <1>2, <2>1, <2>2, <2>3
<1>5. QED
  <2>1. \/ \E r \in SwapsShown(from, to) : e = SwapEvent(r)
        \/ \E r \in LiquidityShown("mint", from, to) : e = LiquidityEvent("join", r)
        \/ \E r \in LiquidityShown("burn", from, to) : e = LiquidityEvent("exit", r)
    BY EventRows DEF EventsAreOfRows
  <2>2. CASE \E r \in LiquidityShown("mint", from, to) : e = LiquidityEvent("join", r)
    BY <1>4, <2>2
  <2>3. CASE \E r \in LiquidityShown("burn", from, to) : e = LiquidityEvent("exit", r)
    BY <1>4, <2>3
  <2>4. QED
    BY <1>3, <2>1, <2>2, <2>3

\* There are finitely many events.
LEMMA EventsFinite ==
  ASSUME DbInv, NEW from \in Nat, NEW to \in Nat
  PROVE  IsFiniteSet(EventSet(from, to))
<1>1. IsFiniteSet(DOMAIN swap) /\ IsFiniteSet(DOMAIN liquidity)
  <2>1. DOMAIN liquidity = 1..Len(liquidity) /\ Len(liquidity) \in Nat
    BY DEF DbInv, RowsOK
  <2>2. QED
    BY <2>1, SwapsFinite, FS_Interval
<1>2. /\ IsFiniteSet(FeedSwaps(from, to))
      /\ \A kind : IsFiniteSet(FeedLiquidity(kind, from, to))
  <2>1. FeedSwaps(from, to) \in SUBSET DOMAIN swap
    BY DEF FeedSwaps
  <2>2. \A kind : FeedLiquidity(kind, from, to) \in SUBSET DOMAIN liquidity
    BY DEF FeedLiquidity
  <2>3. QED
    BY <1>1, <2>1, <2>2, FS_Subset
<1>3. IsFiniteSet({SwapEvent(swap[i]) : i \in FeedSwaps(from, to)})
  <2> DEFINE f == [i \in FeedSwaps(from, to) |-> SwapEvent(swap[i])]
  <2>1. IsFiniteSet({f[i] : i \in FeedSwaps(from, to)})
    BY <1>2, ValuesFinite
  <2>2. {f[i] : i \in FeedSwaps(from, to)} = {SwapEvent(swap[i]) : i \in FeedSwaps(from, to)}
    OBVIOUS
  <2>3. QED
    BY <2>1, <2>2
<1>4. ASSUME NEW kind, NEW k
      PROVE  IsFiniteSet({LiquidityEvent(k, liquidity[i]) : i \in FeedLiquidity(kind, from, to)})
  <2> DEFINE S == FeedLiquidity(kind, from, to)
             f == [i \in S |-> LiquidityEvent(k, liquidity[i])]
  <2>1. IsFiniteSet({f[i] : i \in S})
    BY <1>2, ValuesFinite
  <2>2. {f[i] : i \in S} = {LiquidityEvent(k, liquidity[i]) : i \in S}
    OBVIOUS
  <2>3. QED
    BY <2>1, <2>2
<1>5. \A S, T : IsFiniteSet(S) /\ IsFiniteSet(T) => IsFiniteSet(S \cup T)
  BY FS_Union
<1>6. /\ IsFiniteSet({LiquidityEvent("join", liquidity[i]) : i \in FeedMints(from, to)})
      /\ IsFiniteSet({LiquidityEvent("exit", liquidity[i]) : i \in FeedBurns(from, to)})
  BY <1>4 DEF FeedMints, FeedBurns
<1>7. QED
  BY <1>3, <1>5, <1>6, Zenon DEF EventSet

\* The order of the feed, as a relation.
EventLine(S) == {p \in S \X S : Before(p[1], p[2])}

\* No two events of the feed are tied.
LEMMA EventsInLine ==
  ASSUME DbInv, OneRowATx, NEW from \in Nat, NEW to \in Nat
  PROVE  InLine(EventSet(from, to), EventLine(EventSet(from, to)))
<1> DEFINE S == EventSet(from, to)
<1>1. \A e \in S : e.block \in Nat /\ e.txn_index \in Nat
  BY EventsAreMade
<1>2. ASSUME NEW e \in S, NEW f \in S, e.block = f.block, e.txn_index = f.txn_index
      PROVE  e = f
  <2>1. PICK r \in RowsOf(swap) \cup RowsOf(liquidity) :
          MadeOf(e, r) /\ e.block = r.block /\ e.txn_index = r.tx
    BY EventsAreMade
  <2>2. PICK q \in RowsOf(swap) \cup RowsOf(liquidity) :
          MadeOf(f, q) /\ f.block = q.block /\ f.txn_index = q.tx
    BY EventsAreMade
  <2>3. SameTx(r, q) /\ SameTx(q, r)
    BY <1>2, <2>1, <2>2 DEF SameTx
  <2>4. r = q
    BY <2>3 DEF OneRowATx
  <2>5. SameTx(r, r)
    BY <2>3, <2>4
  <2>6. ~(r \in RowsOf(swap) /\ r \in RowsOf(liquidity))
    BY <2>5 DEF OneRowATx
  <2>7. QED
    BY <2>1, <2>2, <2>4, <2>6 DEF MadeOf
<1> HIDE DEF S
<1>3. \A e, f \in S : e # f => Before(e, f) \/ Before(f, e)
  BY <1>1, <1>2 DEF Before
<1>4. \A e, f \in S : ~(Before(e, f) /\ Before(f, e))
  BY <1>1 DEF Before
<1>5. \A e, f, g \in S : Before(e, f) /\ Before(f, g) => Before(e, g)
  BY <1>1 DEF Before
<1>6. \A e, f \in S : <<e, f>> \in EventLine(S) <=> Before(e, f)
  BY DEF EventLine
<1>7. InLine(S, EventLine(S))
  BY <1>3, <1>4, <1>5, <1>6 DEF InLine
<1>8. QED
  BY <1>7 DEF S

\* The feed lists its events by block and transaction, which can be done in one way.
LEMMA EventsListed ==
  ASSUME DbInv, OneRowATx, NEW from \in Nat, NEW to \in Nat
  PROVE  LET S == EventSet(from, to) IN
         /\ Events(from, to) \in SetToSeqs(S)
         /\ \A i, j \in DOMAIN Events(from, to) : i < j => Before(Events(from, to)[i], Events(from, to)[j])
         /\ \A u \in SetToSeqs(S) :
                (\A i, j \in DOMAIN u : i < j => Before(u[i], u[j])) => u = Events(from, to)
<1> DEFINE S == EventSet(from, to)
           R == EventLine(S)
           e == Events(from, to)
           Good(s) == \A i, j \in DOMAIN s : i < j => ~Before(s[j], s[i])
<1>1. IsFiniteSet(S) /\ InLine(S, R)
  BY EventsFinite, EventsInLine
<1>2. e = CHOOSE s \in SetToSeqs(S) : Good(s)
  BY DEF Events, InOrder
<1> HIDE DEF e, S
<1>3. \A x, y \in S : <<x, y>> \in R <=> Before(x, y)
  BY DEF EventLine
<1> HIDE DEF R
<1>4. \A x, y \in S : Before(x, y) => ~Before(y, x)
  BY <1>1, <1>3 DEF InLine
<1>5. ASSUME NEW s \in SetToSeqs(S)
      PROVE  \A i \in DOMAIN s : s[i] \in S
  BY <1>1, SeqsOfSet
<1>6. PICK s \in SetToSeqs(S) : \A i, j \in DOMAIN s : i < j => <<s[i], s[j]>> \in R
  BY <1>1, SortedExists
<1>7. Good(s)
  BY <1>3, <1>4, <1>5, <1>6
<1>8. e \in SetToSeqs(S) /\ Good(e)
  <2> HIDE DEF Good
  <2>1. QED
    BY <1>2, <1>7
<1>9. \A i, j \in DOMAIN e : i < j => <<e[i], e[j]>> \in R
  <2> SUFFICES ASSUME NEW i \in DOMAIN e, NEW j \in DOMAIN e, i < j
               PROVE  <<e[i], e[j]>> \in R
    OBVIOUS
  <2>1. e[i] \in S /\ e[j] \in S /\ e[i] # e[j]
    <3>1. \A k, l \in DOMAIN e : e[k] = e[l] => k = l
      BY <1>1, <1>8, SeqsOfSet
    <3>2. DOMAIN e = 1..Len(e)
      BY <1>1, <1>8, SeqsOfSet
    <3>3. i # j
      BY <3>2
    <3>4. QED
      BY <1>5, <1>8, <3>1, <3>3
  <2>2. ~Before(e[j], e[i])
    BY <1>8
  <2>3. QED
    BY <1>1, <1>3, <2>1, <2>2 DEF InLine
<1>10. ASSUME NEW u \in SetToSeqs(S), \A i, j \in DOMAIN u : i < j => Before(u[i], u[j])
       PROVE  u = e
  <2>1. \A i, j \in DOMAIN u : i < j => <<u[i], u[j]>> \in R
    BY <1>3, <1>5, <1>10
  <2>2. QED
    BY <1>1, <1>8, <1>9, <2>1, SortedOnce
<1>11. \A i, j \in DOMAIN e : i < j => Before(e[i], e[j])
  BY <1>3, <1>5, <1>8, <1>9
<1>12. QED
  BY <1>8, <1>10, <1>11 DEF S, e

\* The list of a set, then that of another, is a list of both.
LEMMA ListsJoined ==
  ASSUME NEW S, NEW T, IsFiniteSet(S), IsFiniteSet(T), S \cap T = {},
         NEW s \in SetToSeqs(S), NEW u \in SetToSeqs(T)
  PROVE  s \o u \in SetToSeqs(S \cup T)
<1> DEFINE m == Len(s)
           n == Len(u)
           w == s \o u
<1>1. /\ s \in Seq(S) /\ m = Cardinality(S) /\ m \in Nat /\ DOMAIN s = 1..m
      /\ \A i \in 1..m : s[i] \in S
      /\ \A i, j \in DOMAIN s : s[i] = s[j] => i = j
  BY SeqsOfSet
<1>2. /\ u \in Seq(T) /\ n = Cardinality(T) /\ n \in Nat /\ DOMAIN u = 1..n
      /\ \A i \in 1..n : u[i] \in T
      /\ \A i, j \in DOMAIN u : u[i] = u[j] => i = j
  BY SeqsOfSet
<1>3. Cardinality(S \cup T) = m + n
  <2>1. Cardinality(S \cup T) = Cardinality(S) + Cardinality(T)
    BY SplitSize
  <2>2. QED
    BY <1>1, <1>2, <2>1, Zenon
<1>4. s \in Seq(S \cup T) /\ u \in Seq(S \cup T)
  BY <1>1, <1>2
<1>5. w \in Seq(S \cup T) /\ Len(w) = m + n
  BY <1>4
<1>6. /\ \A i \in 1..m : w[i] = s[i]
      /\ \A i \in (m + 1)..(m + n) : w[i] = u[i - m]
  BY <1>4, <1>1, <1>2
<1> HIDE DEF m, n, w
<1>7. w \in [1..(m + n) -> S \cup T]
  BY <1>5
<1>8. \A i \in 1..(m + n) : \/ i \in 1..m /\ w[i] = s[i] /\ w[i] \in S
                            \/ i - m \in 1..n /\ w[i] = u[i - m] /\ w[i] \in T
  <2> SUFFICES ASSUME NEW i \in 1..(m + n)
               PROVE  \/ i \in 1..m /\ w[i] = s[i] /\ w[i] \in S
                      \/ i - m \in 1..n /\ w[i] = u[i - m] /\ w[i] \in T
    OBVIOUS
  <2>1. CASE i \in 1..m
    BY <1>1, <1>6, <2>1
  <2>2. CASE i \notin 1..m
    <3>1. i \in (m + 1)..(m + n) /\ i - m \in 1..n
      BY <1>1, <1>2, <2>2
    <3>2. QED
      BY <1>2, <1>6, <3>1
  <2>3. QED
    BY <2>1, <2>2
<1>9. ASSUME NEW i \in 1..(m + n), NEW j \in 1..(m + n), w[i] = w[j]
      PROVE  i = j
  <2>1. \/ i \in 1..m /\ j \in 1..m /\ s[i] = s[j]
        \/ i - m \in 1..n /\ j - m \in 1..n /\ u[i - m] = u[j - m]
    BY <1>8, <1>9
  <2>2. i \in Int /\ j \in Int /\ m \in Int
    BY <1>1, <1>2
  <2>3. i = j \/ i - m = j - m
    BY <1>1, <1>2, <2>1
  <2>4. QED
    BY <2>2, <2>3
<1>10. \A i, j \in 1..(m + n) : i # j => w[i] # w[j]
  BY <1>9
<1>11. w \in SetToSeqs(S \cup T)
  BY <1>3, <1>7, <1>10 DEF SetToSeqs
<1>12. QED
  BY <1>11 DEF w

\* The events of the blocks up to k are those of the blocks before it and of block k.
LEMMA EventsUpTo ==
  ASSUME DbInv, NEW k \in Nat, k >= 2
  PROVE  EventSet(1, k) = EventSet(1, k - 1) \cup EventSet(k, k)
<1>1. RowsOf(swap) \subseteq SwapRow /\ RowsOf(liquidity) \subseteq LiquidityRow
  BY RowsTyped DEF DbInv, RowsOK
<1>2. \A r \in RowsOf(swap) \cup RowsOf(liquidity) : r.block \in Nat
  BY <1>1 DEF SwapRow, LiquidityRow
<1>3. 1 \in Nat /\ k - 1 \in Nat
  OBVIOUS
<1>4. \A r \in RowsOf(swap) \cup RowsOf(liquidity) :
        InBlocks(r, 1, k) <=> InBlocks(r, 1, k - 1) \/ InBlocks(r, k, k)
  BY <1>2 DEF InBlocks
<1>5. SwapsShown(1, k) = SwapsShown(1, k - 1) \cup SwapsShown(k, k)
  BY <1>4 DEF SwapsShown
<1>6. \A kind : LiquidityShown(kind, 1, k) = LiquidityShown(kind, 1, k - 1) \cup LiquidityShown(kind, k, k)
  BY <1>4 DEF LiquidityShown
<1>7. \A from, to \in Nat :
        EventSet(from, to) =
            {SwapEvent(r) : r \in SwapsShown(from, to)}
            \cup {LiquidityEvent("join", r) : r \in LiquidityShown("mint", from, to)}
            \cup {LiquidityEvent("exit", r) : r \in LiquidityShown("burn", from, to)}
  BY EventRows DEF EventsAreOfRows
<1>8. QED
  BY <1>3, <1>5, <1>6, <1>7

\* An event is of one of the blocks that were asked for.
LEMMA EventsInRange ==
  ASSUME DbInv, NEW from \in Nat, NEW to \in Nat, NEW e \in EventSet(from, to)
  PROVE  e.block \in Nat /\ from <= e.block /\ e.block <= to
BY EventsAreMade DEF InBlocks

\* The feed up to block k is the feed before it and then that of block k.
LEMMA FeedUpTo ==
  ASSUME DbInv, OneRowATx, NEW k \in Nat, k >= 2
  PROVE  Events(1, k) = Events(1, k - 1) \o Events(k, k)
<1> DEFINE S == EventSet(1, k - 1)
           T == EventSet(k, k)
           s == Events(1, k - 1)
           u == Events(k, k)
           w == s \o u
<1>1. 1 \in Nat /\ k - 1 \in Nat
  OBVIOUS
<1>2. IsFiniteSet(S) /\ IsFiniteSet(T) /\ EventSet(1, k) = S \cup T
  BY <1>1, EventsFinite, EventsUpTo
<1>3. /\ \A e \in S : e.block \in Nat /\ e.block <= k - 1
      /\ \A e \in T : e.block \in Nat /\ e.block = k
  <2>1. \A e \in T : e.block \in Nat /\ k <= e.block /\ e.block <= k
    BY EventsInRange
  <2>2. \A e \in S : e.block \in Nat /\ e.block <= k - 1
    BY <1>1, EventsInRange
  <2> HIDE DEF S, T
  <2>3. QED
    BY <2>1, <2>2
<1>4. /\ s \in SetToSeqs(S) /\ u \in SetToSeqs(T)
      /\ \A i, j \in DOMAIN s : i < j => Before(s[i], s[j])
      /\ \A i, j \in DOMAIN u : i < j => Before(u[i], u[j])
  BY <1>1, EventsListed
<1>5. \A v \in SetToSeqs(S \cup T) :
        (\A i, j \in DOMAIN v : i < j => Before(v[i], v[j])) => v = Events(1, k)
  BY <1>1, <1>2, EventsListed
<1> HIDE DEF S, T, s, u
<1>6. S \cap T = {} /\ \A e \in S, f \in T : Before(e, f)
  BY <1>3 DEF Before
<1>7. w \in SetToSeqs(S \cup T)
  BY <1>2, <1>4, <1>6, ListsJoined
<1>8. /\ s \in Seq(S) /\ Len(s) \in Nat /\ DOMAIN s = 1..Len(s) /\ \A i \in 1..Len(s) : s[i] \in S
      /\ u \in Seq(T) /\ Len(u) \in Nat /\ DOMAIN u = 1..Len(u) /\ \A i \in 1..Len(u) : u[i] \in T
  BY <1>2, <1>4, SeqsOfSet
<1> DEFINE m == Len(s)
           n == Len(u)
<1>9. s \in Seq(S \cup T) /\ u \in Seq(S \cup T)
  BY <1>8
<1>10. /\ DOMAIN w = 1..(m + n)
       /\ \A i \in 1..m : w[i] = s[i]
       /\ \A i \in (m + 1)..(m + n) : w[i] = u[i - m]
  BY <1>8, <1>9
<1> HIDE DEF m, n, w
<1>11. m \in Nat /\ n \in Nat /\ DOMAIN s = 1..m /\ DOMAIN u = 1..n
  BY <1>8 DEF m, n
<1>12. ASSUME NEW i \in DOMAIN w, NEW j \in DOMAIN w, i < j
       PROVE  Before(w[i], w[j])
  <2>1. i \in 1..(m + n) /\ j \in 1..(m + n)
    BY <1>10
  <2>2. CASE i \in 1..m /\ j \in 1..m
    BY <1>4, <1>10, <1>11, <1>12, <2>2
  <2>3. CASE i \in 1..m /\ j \notin 1..m
    <3>1. j \in (m + 1)..(m + n) /\ j - m \in 1..n
      BY <1>11, <2>1, <2>3
    <3>2. w[i] \in S /\ w[j] \in T
      BY <1>8, <1>10, <1>11, <2>3, <3>1
    <3>3. QED
      BY <1>6, <3>2
  <2>4. CASE i \notin 1..m
    <3>1. /\ i \in (m + 1)..(m + n) /\ j \in (m + 1)..(m + n)
          /\ i - m \in 1..n /\ j - m \in 1..n /\ i - m < j - m
      BY <1>11, <1>12, <2>1, <2>4
    <3>2. w[i] = u[i - m] /\ w[j] = u[j - m]
      BY <1>10, <3>1
    <3>3. QED
      BY <1>4, <1>11, <3>1, <3>2
  <2>5. QED
    BY <2>2, <2>3, <2>4
<1>13. w = Events(1, k)
  BY <1>5, <1>7, <1>12
<1>14. QED
  BY <1>13 DEF w, s, u

\* The events of the blocks, one after the other, are those of the range.
LEMMA EventsInBlocks ==
  ASSUME DbInv, OneRowATx, NEW b \in Nat \ {0}
  PROVE  FlattenSeq([c \in 1..b |-> Events(c, c)]) = Events(1, b)
<1>1. b \in Nat \ {0}
  OBVIOUS
<1> DEFINE X == UNION {EventSet(1, c) \cup EventSet(c, c) : c \in 1..b}
           T == [c \in 1..b |-> Events(c, c)]
           F == [c \in 1..b |-> Events(1, c)]
<1>2. \A c \in 1..b : c \in Nat
  BY <1>1
<1>3. \A c \in 1..b : Events(c, c) \in Seq(X) /\ Events(1, c) \in Seq(X)
  <2>1. \A from, to \in Nat : Events(from, to) \in Seq(EventSet(from, to))
    <3> SUFFICES ASSUME NEW from \in Nat, NEW to \in Nat
                 PROVE  Events(from, to) \in Seq(EventSet(from, to))
      OBVIOUS
    <3>1. IsFiniteSet(EventSet(from, to)) /\ Events(from, to) \in SetToSeqs(EventSet(from, to))
      BY EventsFinite, EventsListed
    <3>2. QED
      BY <3>1, SeqsOfSet
  <2>2. \A c \in 1..b : EventSet(c, c) \subseteq X /\ EventSet(1, c) \subseteq X
    OBVIOUS
  <2>3. \A c \in 1..b : Seq(EventSet(c, c)) \subseteq Seq(X) /\ Seq(EventSet(1, c)) \subseteq Seq(X)
    <3> HIDE DEF X
    <3>1. QED
      BY <2>2
  <2>4. 1 \in Nat
    OBVIOUS
  <2> HIDE DEF X
  <2>5. QED
    BY <1>2, <2>1, <2>3, <2>4
<1> HIDE DEF X
<1>4. T \in [1..b -> Seq(X)] /\ F \in [1..b -> Seq(X)]
  BY <1>2, <1>3
<1>5. F[1] = T[1]
  BY <1>1, <1>2
<1>6. \A k \in 1..b : k # 1 => F[k] = F[k - 1] \o T[k]
  <2> SUFFICES ASSUME NEW k \in 1..b, k # 1
               PROVE  F[k] = F[k - 1] \o T[k]
    OBVIOUS
  <2>1. k \in Nat /\ k >= 2 /\ k - 1 \in 1..b
    BY <1>1
  <2>2. Events(1, k) = Events(1, k - 1) \o Events(k, k)
    BY <2>1, FeedUpTo
  <2>3. QED
    BY <1>2, <2>1, <2>2
<1> HIDE DEF T, F
<1>7. FlattenSeq(T) = F[b]
  BY <1>1, <1>4, <1>5, <1>6, FlattenOf
<1>8. F[b] = Events(1, b)
  BY <1>1 DEF F
<1>9. QED
  BY <1>7, <1>8 DEF T

\* The rows of blocks 1 .. b that have no price are those of one of the blocks.
LEMMA UnpricedByBlock ==
  ASSUME DbInv, NEW b \in Nat
  PROVE  Unpriced(1, b) <=> \E c \in 1..b : Unpriced(c, c)
<1>1. \A r \in RowsOf(swap) : r.block \in Nat \ {0}
  <2>1. RowsOf(swap) \subseteq SwapRow
    BY RowsTyped DEF DbInv, RowsOK
  <2>2. QED
    BY <2>1 DEF SwapRow
<1>2. ASSUME NEW r \in RowsOf(swap)
      PROVE  /\ InBlocks(r, 1, b) => r.block \in 1..b /\ InBlocks(r, r.block, r.block)
             /\ \A c \in 1..b : InBlocks(r, c, c) => InBlocks(r, 1, b)
  BY <1>1 DEF InBlocks
<1>3. ASSUME NEW r \in SwapsShown(1, b), PriceFails(r)
      PROVE  \E c \in 1..b : Unpriced(c, c)
  <2>1. r.block \in 1..b /\ r \in SwapsShown(r.block, r.block)
    BY <1>2 DEF SwapsShown
  <2>2. QED
    BY <1>3, <2>1, UnpricedRows
<1>4. ASSUME NEW c \in 1..b, NEW r \in SwapsShown(c, c), PriceFails(r)
      PROVE  Unpriced(1, b)
  <2>1. r \in SwapsShown(1, b)
    BY <1>2 DEF SwapsShown
  <2>2. QED
    BY <1>4, <2>1, UnpricedRows
<1>5. QED
  BY <1>3, <1>4, UnpricedRows

\* Asked block by block the feed is the same as asked at once.
LEMMA FeedIsPaged ==
  ASSUME DbInv, OneRowATx
  PROVE  FeedPaged
<1> SUFFICES ASSUME NEW b \in 1..MaxBlock, ValidRange(1, b)
             PROVE  /\ GetEvents(1, b) # {} <=> \A c \in 1..b : GetEvents(c, c) # {}
                    /\ \A feed \in GetEvents(1, b) :
                        feed = FlattenSeq([c \in 1..b |-> CHOOSE s \in GetEvents(c, c) : TRUE])
  BY DEF FeedPaged
<1>1. b \in Nat \ {0}
  BY AddressAssumption
<1>2. ASSUME NEW c \in 1..b
      PROVE  c \in Nat /\ GetEvents(c, c) = (IF Unpriced(c, c) THEN {} ELSE {Events(c, c)})
  BY <1>1, RangeAssumption DEF GetEvents, ValidRange
<1>3. GetEvents(1, b) = (IF Unpriced(1, b) THEN {} ELSE {Events(1, b)})
  BY DEF GetEvents
<1>4. GetEvents(1, b) # {} <=> \A c \in 1..b : GetEvents(c, c) # {}
  BY <1>1, <1>2, <1>3, UnpricedByBlock
<1>5. ASSUME NEW feed \in GetEvents(1, b)
      PROVE  feed = FlattenSeq([c \in 1..b |-> CHOOSE s \in GetEvents(c, c) : TRUE])
  <2>1. feed = Events(1, b) /\ ~Unpriced(1, b)
    BY <1>3
  <2>2. \A c \in 1..b : GetEvents(c, c) = {Events(c, c)}
    BY <1>1, <1>2, <2>1, UnpricedByBlock
  <2>3. \A c \in 1..b : (CHOOSE s \in GetEvents(c, c) : TRUE) = Events(c, c)
    BY <2>2
  <2>4. [c \in 1..b |-> CHOOSE s \in GetEvents(c, c) : TRUE] = [c \in 1..b |-> Events(c, c)]
    BY <2>3
  <2>5. QED
    BY <1>1, <2>1, <2>4, EventsInBlocks
<1>6. QED
  BY <1>4, <1>5

\* Whatever the page length, the pages of every list hold each row once and as many as
\* the total says, for any number of tokens, accounts, trades and blocks (controllers/
\* trading, controllers/token, controllers/search).
THEOREM PagesAreComplete == DbSpec => []PagesAddUp
<1>1. DbInv /\ RowsApart => PagesAddUp
  <2> SUFFICES ASSUME DbInv, RowsApart
               PROVE  PagesAddUp
    OBVIOUS
  <2>1. ASSUME NEW limit \in Limit
        PROVE  /\ HolderPages(limit) /\ HoldingPages(limit) /\ CreatedPages(limit)
               /\ SwapPages(limit) /\ AccountSwapsPaged(limit)
               /\ OrderPaged(limit) /\ BoardPaged(limit) /\ SearchPaged(limit)
    BY HoldersPaged, HoldingsPaged, CreationsPaged, TokenSwapsArePaged, AccountSwapsArePaged,
       OrderListsPaged, BoardIsPaged, SearchIsPaged
  <2>2. TrendOrdered
    BY TrendIsOrdered
  <2>3. QED
    BY <2>1, <2>2 DEF PagesAddUp
<1>2. QED
  BY <1>1, DbInvariance, RowsAreApart, PTL

\* Asked block by block or for many blocks at once, the feed delivers the same events, and
\* a range has an answer exactly if each of its blocks has one, for any number of tokens,
\* trades and blocks (services/terminal, get_events).
THEOREM FeedIsComplete == DbSpec => []FeedPaged
<1>1. DbInv /\ RowsApart => FeedPaged
  BY FeedIsPaged DEF RowsApart
<1>2. QED
  BY <1>1, DbInvariance, RowsAreApart, PTL

\* An event that is delivered is one of the whole feed, and has a price if it is a swap.
LEMMA DeliveredEvents ==
  ASSUME DbInv, OneRowATx, NEW e \in Delivered
  PROVE  /\ e \in EventSet(1, MaxBlock)
         /\ e.kind = "swap" => \E r \in SwapRow : e = SwapEvent(r) /\ ~PriceFails(r)
<1>1. PICK b \in 1..MaxBlock : \E feed \in GetEvents(b, b) : e \in ToSet(feed)
  BY DEF Delivered
<1>2. MaxBlock \in Nat /\ b \in Nat
  BY AddressAssumption
<1>3. e \in ToSet(Events(b, b)) /\ ~Unpriced(b, b)
  BY <1>1 DEF GetEvents
<1>4. e \in EventSet(b, b)
  <2>1. IsFiniteSet(EventSet(b, b)) /\ Events(b, b) \in SetToSeqs(EventSet(b, b))
    BY <1>2, EventsFinite, EventsListed
  <2>2. \A i \in DOMAIN Events(b, b) : Events(b, b)[i] \in EventSet(b, b)
    BY <2>1, SeqsOfSet
  <2>3. QED
    BY <1>3, <2>2 DEF ToSet
<1>5. \A r : InBlocks(r, b, b) /\ r.block \in Nat => InBlocks(r, 1, MaxBlock)
  BY <1>2 DEF InBlocks
<1>6. /\ RowsOf(swap) \subseteq SwapRow
      /\ \A r \in RowsOf(swap) \cup RowsOf(liquidity) : r.block \in Nat
  <2>1. RowsOf(swap) \subseteq SwapRow /\ RowsOf(liquidity) \subseteq LiquidityRow
    BY RowsTyped DEF DbInv, RowsOK
  <2>2. QED
    BY <2>1 DEF SwapRow, LiquidityRow
<1>7. /\ SwapsShown(b, b) \subseteq SwapsShown(1, MaxBlock)
      /\ \A kind : LiquidityShown(kind, b, b) \subseteq LiquidityShown(kind, 1, MaxBlock)
  BY <1>5, <1>6 DEF SwapsShown, LiquidityShown
<1>8. /\ EventSet(b, b) = {SwapEvent(r) : r \in SwapsShown(b, b)}
                          \cup {LiquidityEvent("join", r) : r \in LiquidityShown("mint", b, b)}
                          \cup {LiquidityEvent("exit", r) : r \in LiquidityShown("burn", b, b)}
      /\ EventSet(1, MaxBlock) = {SwapEvent(r) : r \in SwapsShown(1, MaxBlock)}
                          \cup {LiquidityEvent("join", r) : r \in LiquidityShown("mint", 1, MaxBlock)}
                          \cup {LiquidityEvent("exit", r) : r \in LiquidityShown("burn", 1, MaxBlock)}
  BY <1>2, EventRows DEF EventsAreOfRows
<1>9. e \in EventSet(1, MaxBlock)
  BY <1>4, <1>7, <1>8
<1>10. ASSUME e.kind = "swap"
       PROVE  \E r \in SwapRow : e = SwapEvent(r) /\ ~PriceFails(r)
  <2>1. \A r : LiquidityEvent("join", r).kind # "swap" /\ LiquidityEvent("exit", r).kind # "swap"
    BY LiquidityEventFields
  <2>2. PICK r \in SwapsShown(b, b) : e = SwapEvent(r)
    BY <1>4, <1>8, <1>10, <2>1
  <2>3. ~PriceFails(r)
    BY <1>3, UnpricedRows
  <2>4. QED
    BY <1>6, <2>2, <2>3 DEF SwapsShown
<1>11. QED
  BY <1>9, <1>10

\* A swap that has a price moves some of asset0.
LEMMA DeliveredLegs ==
  ASSUME NEW r \in SwapRow, NEW e, e = SwapEvent(r), ~PriceFails(r)
  PROVE  Leg0(e) # 0
<1>1. Leg0(e) = (IF QuoteIsAsset0(r.token) THEN r.quote ELSE r.tok)
  BY LegsOfSwap
<1>2. QED
  BY <1>1 DEF PriceFails

\* Every event the feed delivers names one pair with assets that resolve, a swap goes one
\* way and has a price, in the order of the pair, and the newest event of a pair carries
\* the reserves its pool has, for any market (convert_swap_event, convert_mint_event,
\* convert_burn_event, get_pair, get_asset).
THEOREM EventsResolve == DbSpec => []PairsResolve
<1>1. DbInv /\ RowsApart => PairsResolve
  <2> SUFFICES ASSUME DbInv, RowsApart, Committed, NEW e \in Delivered
               PROVE  /\ Cardinality(GetPair(e.pair_id)) = 1
                      /\ \A id \in {PairOf(e).asset0, PairOf(e).asset1}, onchain \in BOOLEAN :
                            Asset(id, onchain) # {}
                      /\ PairOf(e).asset0 < PairOf(e).asset1
                      /\ e.kind = "swap" =>
                          /\ (e.asset0_in = Absent) # (e.asset0_out = Absent)
                          /\ (e.asset1_in = Absent) # (e.asset1_out = Absent)
                          /\ (e.asset0_in = Absent) # (e.asset1_in = Absent)
                          /\ e.price_native = <<Leg1(e), Leg0(e)>> /\ Leg0(e) # 0
                      /\ (\A f \in EventSet(1, MaxBlock) : f.pair_id = e.pair_id => ~Before(e, f)) =>
                          \E t \in DOMAIN pool :
                              /\ {pool[t].token0, pool[t].token1} = {PairOf(e).asset0, PairOf(e).asset1}
                              /\ e.reserve0 = pool[t].reserve0
                              /\ e.reserve1 = pool[t].reserve1
    BY DEF PairsResolve
  <2>1. /\ e \in EventSet(1, MaxBlock)
        /\ e.kind = "swap" => \E r \in SwapRow : e = SwapEvent(r) /\ ~PriceFails(r)
    BY DeliveredEvents DEF RowsApart
  <2>2. e.kind = "swap" => Leg0(e) # 0
    BY <2>1, DeliveredLegs
  <2>3. QED
    BY <2>1, <2>2, PairFollows
<1>2. QED
  BY <1>1, DbInvariance, RowsAreApart, PTL

-----------------------------------------------------------------------------
(* Two answers about the same thing *)

\* A page as long as the list is the list.
LEMMA WholePage ==
  ASSUME NEW X, NEW s \in Seq(X)
  PROVE  PageOf(s, 1, Len(s)) = s
<1>1. Len(s) \in Nat /\ (1 - 1) * Len(s) + 1 = 1 /\ 1 * Len(s) = Len(s)
  OBVIOUS
<1>2. PageOf(s, 1, Len(s)) = SubSeq(s, 1, Len(s))
  BY <1>1 DEF PageOf
<1>3. SubSeq(s, 1, Len(s)) = s
  OBVIOUS
<1>4. QED
  BY <1>2, <1>3

\* All holders of a token, with what they hold.
LEMMA HoldersOf ==
  ASSUME DbInv, NEW t \in Listed
  PROVE  ToSet(Holders(t, 1, HolderCount(t)).rows)
            = {[account_id |-> a, balance_info |-> BalanceInfo(t, a)] : a \in HolderSet(t)}
<1> DEFINE S == HolderSet(t)
           s == HolderRows(t)
           Row(a) == [account_id |-> a, balance_info |-> BalanceInfo(t, a)]
<1>1. IsFiniteSet(S) /\ s \in SetToSeqs(S)
  BY HoldersListed
<1>2. s \in Seq(S) /\ Len(s) = Cardinality(S) /\ \A x \in S : \E i \in DOMAIN s : s[i] = x
  BY <1>1, SeqsOfSet
<1>3. PageOf(s, 1, HolderCount(t)) = s
  BY <1>2, WholePage DEF HolderCount
<1>4. Holders(t, 1, HolderCount(t)).rows = [i \in DOMAIN s |-> Row(s[i])]
  BY <1>3 DEF Holders, Counted
<1> HIDE DEF S, s, Row
<1>5. ToSet([i \in DOMAIN s |-> Row(s[i])]) = {Row(a) : a \in S}
  BY <1>2 DEF ToSet
<1>6. QED
  BY <1>4, <1>5 DEF Row, S

\* All an account holds.
LEMMA HoldingsOf ==
  ASSUME DbInv, NEW a \in Account
  PROVE  ToSet(Holdings(a, 1, HoldingCount(a)).rows)
            = {[token |-> TokenMetadata(t), balance_info |-> BalanceInfo(t, a)] : t \in HeldSet(a)}
<1> DEFINE S == HeldSet(a)
           s == HoldingRows(a)
           Row(t) == [token |-> TokenMetadata(t), balance_info |-> BalanceInfo(t, a)]
<1>1. IsFiniteSet(S) /\ s \in SetToSeqs(S)
  BY HoldingsListed
<1>2. s \in Seq(S) /\ Len(s) = Cardinality(S) /\ \A x \in S : \E i \in DOMAIN s : s[i] = x
  BY <1>1, SeqsOfSet
<1>3. PageOf(s, 1, HoldingCount(a)) = s
  BY <1>2, WholePage DEF HoldingCount
<1>4. Holdings(a, 1, HoldingCount(a)).rows = [i \in DOMAIN s |-> Row(s[i])]
  BY <1>3 DEF Holdings, Counted
<1> HIDE DEF S, s, Row
<1>5. ToSet([i \in DOMAIN s |-> Row(s[i])]) = {Row(t) : t \in S}
  BY <1>2 DEF ToSet
<1>6. QED
  BY <1>4, <1>5 DEF Row, S

\* If every part of the whole takes no more than its share, so do several.
LEMMA PartsOfWhole ==
  ASSUME NEW S, IsFiniteSet(S), NEW share, NEW cut, NEW whole \in Nat, NEW amount \in Nat,
         \A x \in S : share[x] \in Nat /\ cut[x] \in Nat /\ cut[x] * whole <= share[x] * amount
  PROVE  SumFunctionOnSet(cut, S) * whole <= SumFunctionOnSet(share, S) * amount
<1> DEFINE P == {T \in SUBSET S : SumFunctionOnSet(cut, T) * whole <= SumFunctionOnSet(share, T) * amount}
<1>1. \A T \in SUBSET S : IsFiniteSet(T)
  BY FS_Subset
<1>2. {} \in P
  <2>1. IsFiniteSet({}) /\ Units(cut, {}) = {} /\ Units(share, {}) = {} /\ Cardinality({}) = 0
    BY FS_EmptySet DEF Units
  <2>2. SumFunctionOnSet(cut, {}) = 0 /\ SumFunctionOnSet(share, {}) = 0
    BY <2>1, SumOfUnits
  <2>3. QED
    BY <2>2
<1>3. ASSUME NEW T \in SUBSET S, T # {}
      PROVE  \E x \in T : (T \ {x} \in P => T \in P)
  <2>1. PICK x \in T : TRUE
    BY <1>3
  <2> DEFINE U == T \ {x}
  <2>2. IsFiniteSet(U) /\ IsFiniteSet({x}) /\ {x} \cap U = {} /\ {x} \cup U = T
    BY <1>1, FS_Singleton
  <2>3. \A y \in {x} \cup U : cut[y] \in Nat /\ share[y] \in Nat
    BY <2>2
  <2> HIDE DEF U
  <2>4. /\ SumFunctionOnSet(cut, {x}) \in Nat /\ SumFunctionOnSet(cut, U) \in Nat
        /\ SumFunctionOnSet(cut, T) = SumFunctionOnSet(cut, {x}) + SumFunctionOnSet(cut, U)
    BY <2>2, <2>3, SumSplit
  <2>5. /\ SumFunctionOnSet(share, {x}) \in Nat /\ SumFunctionOnSet(share, U) \in Nat
        /\ SumFunctionOnSet(share, T) = SumFunctionOnSet(share, {x}) + SumFunctionOnSet(share, U)
    BY <2>2, <2>3, SumSplit
  <2>6. SumFunctionOnSet(cut, {x}) = cut[x] /\ SumFunctionOnSet(share, {x}) = share[x]
    <3> SUFFICES ASSUME NEW g, g[x] \in Nat
                 PROVE  SumFunctionOnSet(g, {x}) = g[x]
      BY <2>3
    <3> DEFINE own == {x} \X (1..g[x])
    <3>1. Cardinality(own) = g[x] /\ Units(g, {x}) = Units(g, {x} \ {x}) \cup own
      BY UnitsOfOne
    <3>2. Units(g, {x} \ {x}) = {}
      BY DEF Units
    <3> HIDE DEF own
    <3>3. Units(g, {x}) = own
      BY <3>1, <3>2
    <3>4. SumFunctionOnSet(g, {x}) = Cardinality(Units(g, {x}))
      BY <2>2, SumOfUnits
    <3>5. QED
      BY <3>1, <3>3, <3>4
  <2>7. ASSUME U \in P
        PROVE  T \in P
    <3> DEFINE c == SumFunctionOnSet(cut, U)
               d == SumFunctionOnSet(share, U)
               e == cut[x]
               f == share[x]
    <3>1. c \in Nat /\ d \in Nat /\ e \in Nat /\ f \in Nat
      BY <2>3, <2>4, <2>5
    <3>2. c * whole <= d * amount /\ e * whole <= f * amount
      BY <2>7
    <3>3. SumFunctionOnSet(cut, T) = e + c /\ SumFunctionOnSet(share, T) = f + d
      BY <2>4, <2>5, <2>6
    <3> HIDE DEF c, d, e, f, P
    <3>4. (e + c) * whole <= (f + d) * amount
      <4>1. (e + c) * whole = e * whole + c * whole /\ (f + d) * amount = f * amount + d * amount
        BY <3>1
      <4>2. e * whole \in Nat /\ c * whole \in Nat /\ f * amount \in Nat /\ d * amount \in Nat
        BY <3>1
      <4>3. QED
        BY <3>2, <4>1, <4>2
    <3>5. QED
      BY <3>3, <3>4 DEF P
  <2>8. QED
    BY <2>7 DEF U
<1> HIDE DEF P
<1>4. S \in P
  BY <1>2, <1>3, FiniteSteps
<1>5. QED
  BY <1>4 DEF P

\* What the accounts have in a pool is no more than the pool has.
LEMMA PoolCoversShares ==
  ASSUME DbInv, NEW t \in DOMAIN pool
  PROVE  SumFunction([a \in Account |-> LpBalance(t, a)]) <= TokenReserve(pool[t], t)
<1> DEFINE cut == [a \in Account |-> LpBalance(t, a)]
           share == lp[t]
           whole == pool[t].total_supply
           amount == TokenReserve(pool[t], t)
<1>1. pool[t] \in PoolRow /\ (pool[t].token0 = t \/ pool[t].token1 = t) /\ t \in Token /\ t \in Listed
  <2>1. pool[t] \in PoolRow /\ t \in Token /\ t \in Listed
    BY DEF DbInv, TablesOK, Listed
  <2>2. {pool[t].token0, pool[t].token1} = {t, Quote}
    BY ReservesByAsset
  <2>3. QED
    BY <2>1, <2>2
<1>2. amount \in Nat
  BY <1>1 DEF TokenReserve, PoolRow
<1>3. whole \in Nat \ {0} /\ IsFiniteSet(Shares(t)) /\ whole = 2 + Cardinality(Shares(t))
  <2>1. IsFiniteSet(Shares(t)) /\ whole = 2 + Cardinality(Shares(t))
    BY <1>1 DEF DbInv, SharesCounted
  <2>2. Cardinality(Shares(t)) \in Nat
    BY <2>1, FS_CardinalityType
  <2>3. QED
    BY <2>1, <2>2
<1>4. \A a \in Account : share[a] \in Nat
  BY <1>1 DEF DbInv, TablesOK
<1>5. \A a \in Account : cut[a] = (share[a] * amount) \div whole
  BY <1>1, <1>3 DEF LpBalance, TokenReserve
<1>6. SumFunction(cut) = SumFunctionOnSet(cut, Account)
  BY DEF SumFunction
<1>7. Units(share, Account) = Shares(t)
  BY DEF Units, Shares
<1> HIDE DEF cut, share, whole, amount
<1>8. \A a \in Account : cut[a] \in Nat /\ cut[a] * whole <= share[a] * amount
  <2> SUFFICES ASSUME NEW a \in Account
               PROVE  cut[a] \in Nat /\ cut[a] * whole <= share[a] * amount
    OBVIOUS
  <2>1. \A n \in Nat, w \in Nat \ {0} : n \div w \in Nat /\ (n \div w) * w <= n
    OBVIOUS
  <2>2. share[a] * amount \in Nat
    BY <1>2, <1>4
  <2>3. QED
    BY <1>3, <1>5, <2>1, <2>2, Zenon
<1>9. IsFiniteSet(Account)
  BY AddressAssumption
<1>10. SumFunctionOnSet(cut, Account) * whole <= SumFunctionOnSet(share, Account) * amount
  <2>1. whole \in Nat
    BY <1>3
  <2>2. QED
    BY <1>2, <1>4, <1>8, <1>9, <2>1, PartsOfWhole
<1>11. SumFunctionOnSet(share, Account) = Cardinality(Shares(t))
  BY <1>4, <1>7, <1>9, SumOfUnits
<1>12. SumFunctionOnSet(cut, Account) \in Nat
  <2>1. SumFunctionOnSet(cut, Account) = Cardinality(Units(cut, Account)) /\ IsFiniteSet(Units(cut, Account))
    BY <1>8, <1>9, SumOfUnits, UnitsFinite
  <2>2. QED
    BY <2>1, FS_CardinalityType
<1> DEFINE c == SumFunctionOnSet(cut, Account)
           n == Cardinality(Shares(t))
<1>13. c \in Nat /\ n \in Nat /\ c * whole <= n * amount /\ whole = 2 + n
  BY <1>3, <1>10, <1>11, <1>12, FS_CardinalityType
<1> HIDE DEF c, n
<1>14. c <= amount
  <2> SUFFICES ASSUME c >= amount + 1
               PROVE  FALSE
    BY <1>2, <1>13
  <2>1. c * whole >= (amount + 1) * whole
    BY <1>2, <1>3, <1>13
  <2>2. (amount + 1) * whole = amount * n + 2 * amount + n + 2
    BY <1>2, <1>13
  <2>3. amount * n = n * amount /\ amount * n \in Nat /\ c * whole \in Nat
    BY <1>2, <1>3, <1>13
  <2>4. QED
    BY <1>2, <1>13, <2>1, <2>2, <2>3
<1>15. QED
  BY <1>6, <1>14 DEF c, cut, amount

\* Holders and holdings give the same positions, and the pools cover them.
LEMMA PositionsDoAgree ==
  ASSUME DbInv
  PROVE  PositionsAgree
<1>1. ASSUME NEW t \in Listed, NEW a \in Account
      PROVE  LET held == {r \in ToSet(Holdings(a, 1, HoldingCount(a)).rows) : r.token.token_info.token_id = t}
                 holders == {r \in ToSet(Holders(t, 1, HolderCount(t)).rows) : r.account_id = a}
             IN  {r.balance_info : r \in held} = {r.balance_info : r \in holders}
  <2> DEFINE Holds(u) == [token |-> TokenMetadata(u), balance_info |-> BalanceInfo(u, a)]
             Held(b) == [account_id |-> b, balance_info |-> BalanceInfo(t, b)]
             held == {r \in {Holds(u) : u \in HeldSet(a)} : r.token.token_info.token_id = t}
             holders == {r \in {Held(b) : b \in HolderSet(t)} : r.account_id = a}
  <2>1. \A u : Holds(u).token.token_info.token_id = u /\ Holds(u).balance_info = BalanceInfo(u, a)
    BY DEF TokenMetadata, TokenInfo
  <2>2. \A b : Held(b).account_id = b /\ Held(b).balance_info = BalanceInfo(t, b)
    OBVIOUS
  <2>3. a \in HolderSet(t) <=> t \in HeldSet(a)
    BY PositionsFollow DEF PositionsMatch
  <2> HIDE DEF Holds, Held
  <2>4. {r.balance_info : r \in held} = {BalanceInfo(u, a) : u \in {u \in HeldSet(a) : u = t}}
    BY <2>1
  <2>5. {r.balance_info : r \in holders} = {BalanceInfo(t, b) : b \in {b \in HolderSet(t) : b = a}}
    BY <2>2
  <2>6. {BalanceInfo(u, a) : u \in {u \in HeldSet(a) : u = t}}
        = {BalanceInfo(t, b) : b \in {b \in HolderSet(t) : b = a}}
    BY <2>3
  <2>7. QED
    BY <2>4, <2>5, <2>6, HoldingsOf, HoldersOf DEF Holds, Held
<1>2. QED
  BY <1>1, PoolCoversShares DEF PositionsAgree

\* A list of trades has just these trades.
LEMMA TradesOfList ==
  ASSUME DbInv, NEW S, S \subseteq DOMAIN swap, NEW direction
  PROVE  ToSet(InSwapOrder(S, direction)) = S
<1> DEFINE s == InSwapOrder(S, direction)
<1>1. IsFiniteSet(S) /\ s \in SetToSeqs(S)
  BY SwapsListed
<1> HIDE DEF s
<1>2. s \in Seq(S) /\ \A x \in S : \E i \in DOMAIN s : s[i] = x
  BY <1>1, SeqsOfSet
<1>3. ToSet(s) = S
  BY <1>2 DEF ToSet
<1>4. QED
  BY <1>3 DEF s

\* The trades a query finds.
LEMMA TradesFound ==
  ASSUME DbInv, NEW t, NEW q
  PROVE  ToSet(TokenSwapRows(t, q)) = {i \in DOMAIN swap : SwapMatches(i, t, q)}
BY TradesOfList DEF TokenSwapRows

\* Queries that leave filters out.
LEMMA FiltersLeftOut ==
  /\ \A i, t : SwapMatches(i, t, AnyTrade) <=> swap[i].token = t
  /\ \A a \in Account : \A i, t :
        SwapMatches(i, t, [AnyTrade EXCEPT !.account_id = a]) <=> swap[i].token = t /\ swap[i].account = a
  /\ \A range, i, t :
        SwapMatches(i, t, [AnyTrade EXCEPT !.volume_ranges = {range}])
            <=> swap[i].token = t /\ InRange(swap[i].quote, range)
  /\ \A type, i, t :
        SwapMatches(i, t, [AnyTrade EXCEPT !.trade_type = type]) <=> swap[i].token = t /\ OfType(i, type)
<1>1. Absent \notin Account
  BY AddressAssumption DEF Absent
<1>2. \A i : OfType(i, "ALL")
  BY DEF OfType
<1>3. /\ AnyTrade.account_id = Absent /\ AnyTrade.volume_ranges = {} /\ AnyTrade.trade_type = "ALL"
  BY DEF AnyTrade
<1>4. \A a : LET q == [AnyTrade EXCEPT !.account_id = a] IN
        q.account_id = a /\ q.volume_ranges = {} /\ q.trade_type = "ALL"
  BY DEF AnyTrade
<1>5. \A range : LET q == [AnyTrade EXCEPT !.volume_ranges = {range}] IN
        q.account_id = Absent /\ q.volume_ranges = {range} /\ q.trade_type = "ALL"
  BY DEF AnyTrade
<1>6. \A type : LET q == [AnyTrade EXCEPT !.trade_type = type] IN
        q.account_id = Absent /\ q.volume_ranges = {} /\ q.trade_type = type
  BY DEF AnyTrade
<1>7. \A i, t : SwapMatches(i, t, AnyTrade) <=> swap[i].token = t
  BY <1>1, <1>2, <1>3 DEF SwapMatches
<1>8. ASSUME NEW a \in Account, NEW i, NEW t
      PROVE  SwapMatches(i, t, [AnyTrade EXCEPT !.account_id = a]) <=> swap[i].token = t /\ swap[i].account = a
  <2> DEFINE q == [AnyTrade EXCEPT !.account_id = a]
  <2>1. q.account_id = a /\ q.volume_ranges = {} /\ q.trade_type = "ALL"
    BY <1>4
  <2> HIDE DEF q
  <2>2. SwapMatches(i, t, q) <=> swap[i].token = t /\ swap[i].account = a
    BY <1>2, <2>1 DEF SwapMatches
  <2>3. QED
    BY <2>2 DEF q
<1>9. ASSUME NEW range, NEW i, NEW t
      PROVE  SwapMatches(i, t, [AnyTrade EXCEPT !.volume_ranges = {range}])
                <=> swap[i].token = t /\ InRange(swap[i].quote, range)
  <2> DEFINE q == [AnyTrade EXCEPT !.volume_ranges = {range}]
  <2>1. q.account_id = Absent /\ q.volume_ranges = {range} /\ q.trade_type = "ALL"
    BY <1>5
  <2> HIDE DEF q
  <2>2. SwapMatches(i, t, q) <=> swap[i].token = t /\ InRange(swap[i].quote, range)
    BY <1>1, <1>2, <2>1 DEF SwapMatches
  <2>3. QED
    BY <2>2 DEF q
<1>10. ASSUME NEW type, NEW i, NEW t
       PROVE  SwapMatches(i, t, [AnyTrade EXCEPT !.trade_type = type]) <=> swap[i].token = t /\ OfType(i, type)
  <2> DEFINE q == [AnyTrade EXCEPT !.trade_type = type]
  <2>1. q.account_id = Absent /\ q.volume_ranges = {} /\ q.trade_type = type
    BY <1>6
  <2> HIDE DEF q
  <2>2. SwapMatches(i, t, q) <=> swap[i].token = t /\ OfType(i, type)
    BY <1>1, <2>1 DEF SwapMatches
  <2>3. QED
    BY <2>2 DEF q
<1>11. QED
  BY <1>7, <1>8, <1>9, <1>10

\* A set with one element.
LEMMA OneElement ==
  ASSUME NEW S, NEW x \in S, \A y \in S : y = x
  PROVE  Cardinality(S) = 1
<1>1. S = {x}
  OBVIOUS
<1>2. QED
  BY <1>1, FS_Singleton

\* The histories of accounts and tokens agree, and every trade has one range and one type.
LEMMA HistoriesDoAgree ==
  ASSUME DbInv
  PROVE  HistoriesAgree
<1> SUFFICES ASSUME NEW t \in Listed
             PROVE  LET trades(q) == ToSet(TokenSwapRows(t, q)) IN
                    /\ \A a \in Account :
                        {i \in ToSet(AccountSwapRows(a)) : swap[i].token = t}
                            = trades([AnyTrade EXCEPT !.account_id = a])
                    /\ \A i \in trades(AnyTrade) :
                        /\ Cardinality({range \in VolumeRange :
                                i \in trades([AnyTrade EXCEPT !.volume_ranges = {range}])}) = 1
                        /\ Cardinality({type \in {"BUY", "SELL"} :
                                i \in trades([AnyTrade EXCEPT !.trade_type = type])}) = 1
  BY DEF HistoriesAgree
<1> DEFINE trades(q) == ToSet(TokenSwapRows(t, q))
<1>1. \A q : trades(q) = {i \in DOMAIN swap : SwapMatches(i, t, q)}
  BY TradesFound
<1>2. t \in Token
  BY DEF Listed, DbInv, TablesOK
<1> HIDE DEF trades
<1>3. ASSUME NEW a \in Account
      PROVE  {i \in ToSet(AccountSwapRows(a)) : swap[i].token = t} = trades([AnyTrade EXCEPT !.account_id = a])
  <2> DEFINE q == [AnyTrade EXCEPT !.account_id = a]
  <2>1. ToSet(AccountSwapRows(a)) = {i \in DOMAIN swap : swap[i].account = a}
    BY TradesOfList DEF AccountSwapRows
  <2>2. \A i : SwapMatches(i, t, q) <=> swap[i].token = t /\ swap[i].account = a
    BY FiltersLeftOut
  <2> HIDE DEF q
  <2>3. {i \in ToSet(AccountSwapRows(a)) : swap[i].token = t} = trades(q)
    BY <1>1, <2>1, <2>2
  <2>4. QED
    BY <2>3 DEF q
<1>4. ASSUME NEW i \in trades(AnyTrade)
      PROVE  Cardinality({range \in VolumeRange : i \in trades([AnyTrade EXCEPT !.volume_ranges = {range}])}) = 1
  <2>1. i \in DOMAIN swap /\ swap[i].token = t
    BY <1>1, FiltersLeftOut
  <2>2. PICK range \in VolumeRange :
          /\ InRange(swap[i].quote, range)
          /\ \A other \in VolumeRange : InRange(swap[i].quote, other) => other = range
    BY <1>2, <2>1, FiltersFollow DEF FiltersAgree
  <2>3. \A other : i \in trades([AnyTrade EXCEPT !.volume_ranges = {other}]) <=> InRange(swap[i].quote, other)
    BY <1>1, <2>1, FiltersLeftOut
  <2> DEFINE S == {other \in VolumeRange : i \in trades([AnyTrade EXCEPT !.volume_ranges = {other}])}
  <2>4. range \in S /\ \A other \in S : other = range
    BY <2>2, <2>3
  <2> HIDE DEF S
  <2>5. Cardinality(S) = 1
    BY <2>4, OneElement
  <2>6. QED
    BY <2>5 DEF S
<1>5. ASSUME NEW i \in trades(AnyTrade)
      PROVE  Cardinality({type \in {"BUY", "SELL"} : i \in trades([AnyTrade EXCEPT !.trade_type = type])}) = 1
  <2>1. i \in DOMAIN swap /\ swap[i].token = t
    BY <1>1, FiltersLeftOut
  <2>2. /\ \E type \in {"BUY", "SELL"} : OfType(i, type)
        /\ ~(OfType(i, "BUY") /\ OfType(i, "SELL"))
    BY <1>2, <2>1, FiltersFollow DEF FiltersAgree
  <2>3. \A type : i \in trades([AnyTrade EXCEPT !.trade_type = type]) <=> OfType(i, type)
    BY <1>1, <2>1, FiltersLeftOut
  <2> DEFINE S == {type \in {"BUY", "SELL"} : i \in trades([AnyTrade EXCEPT !.trade_type = type])}
  <2>4. PICK type \in {"BUY", "SELL"} : OfType(i, type)
    BY <2>2
  <2>5. type \in S /\ \A other \in S : other = type
    BY <2>2, <2>3, <2>4
  <2> HIDE DEF S
  <2>6. Cardinality(S) = 1
    BY <2>5, OneElement
  <2>7. QED
    BY <2>6 DEF S
<1>6. QED
  BY <1>3, <1>4, <1>5 DEF trades

\* The newest price of a token is its price.
LEMMA NewestPriceOf ==
  ASSUME DbInv, PricesInOrder, NEW t \in Listed
  PROVE  /\ Max(PriceRows(t)) \in PriceRows(t)
         /\ \A i \in PriceRows(t) : i <= Max(PriceRows(t))
         /\ CurrentPrice(t) = market[t].price
         /\ PriceRows(t) \subseteq DOMAIN price /\ DOMAIN price \subseteq Nat
<1>1. t \in DOMAIN market
  BY DEF Listed
<1>2. PICK i \in PriceRows(t) : price[i].price = market[t].price /\ \A j \in PriceRows(t) : j <= i
  BY <1>1 DEF PricesInOrder
<1>3. PriceRows(t) \subseteq DOMAIN price /\ DOMAIN price \subseteq Nat
  BY DEF PriceRows, DbInv, RowsOK
<1>4. \E x \in PriceRows(t) : \A y \in PriceRows(t) : x >= y
  BY <1>2, <1>3
<1>5. Max(PriceRows(t)) \in PriceRows(t) /\ \A y \in PriceRows(t) : Max(PriceRows(t)) >= y
  BY <1>4 DEF Max
<1>6. Max(PriceRows(t)) = i
  BY <1>2, <1>3, <1>5
<1>7. QED
  BY <1>2, <1>3, <1>5, <1>6 DEF CurrentPrice

\* A later row of price_history is not of an earlier second, and none is of the future.
LEMMA SecondsOfPrices ==
  ASSUME DbInv, PricesInOrder
  PROVE  /\ \A i \in DOMAIN price : price[i].block \in Nat /\ price[i].tx \in Nat
                                    /\ Second(price[i].block) \in 0..Clock
         /\ \A i, j \in DOMAIN price : i <= j => Second(price[i].block) <= Second(price[j].block)
         /\ Clock \in Nat
<1>1. block \in Nat /\ tx \in Nat
  BY BlocksOfRows
<1>2. \A i \in DOMAIN price : price[i] \in PriceRow
  BY DEF DbInv, RowsOK
<1>3. \A i \in DOMAIN price : price[i].block \in Nat /\ price[i].tx \in Nat
  BY <1>2 DEF PriceRow
<1>4. \A i \in DOMAIN price : price[i].block <= block
  BY <1>1, <1>3 DEF PricesInOrder, RowBefore, Now
<1>5. \A b, c \in Nat : b <= c => Second(b) \in Nat /\ Second(c) \in Nat /\ Second(b) <= Second(c)
  BY DEF Second
<1>6. \A i \in DOMAIN price : Second(price[i].block) \in 0..Clock
  <2> SUFFICES ASSUME NEW i \in DOMAIN price
               PROVE  Second(price[i].block) \in 0..Clock
    OBVIOUS
  <2>1. Second(price[i].block) \in Nat /\ Second(block) \in Nat /\ Second(price[i].block) <= Second(block)
    BY <1>1, <1>3, <1>4, <1>5
  <2>2. QED
    BY <2>1 DEF Clock
<1>7. ASSUME NEW i \in DOMAIN price, NEW j \in DOMAIN price, i <= j
      PROVE  Second(price[i].block) <= Second(price[j].block)
  <2>1. i \in Nat /\ j \in Nat
    BY DEF DbInv, RowsOK
  <2>2. price[i].block <= price[j].block
    <3>1. CASE i = j
      BY <1>3, <3>1
    <3>2. CASE i < j
      BY <1>3, <3>2 DEF PricesInOrder, RowBefore
    <3>3. QED
      BY <1>7, <2>1, <3>1, <3>2
  <2>3. QED
    BY <1>3, <1>5, <2>2
<1>8. Clock \in Nat
  BY <1>1, <1>5 DEF Clock
<1>9. QED
  BY <1>3, <1>6, <1>7, <1>8

\* A list of one row is its own reverse.
LEMMA ReversedSingle ==
  ASSUME NEW x
  PROVE  Reverse(<<x>>) = <<x>>
<1> DEFINE s == <<x>>
<1>1. Len(s) = 1 /\ s[1] = x
  OBVIOUS
<1> HIDE DEF s
<1>2. Reverse(s) = [i \in 1..1 |-> s[(1 - i) + 1]]
  BY <1>1 DEF Reverse
<1>3. [i \in 1..1 |-> s[(1 - i) + 1]] = [i \in 1..1 |-> x]
  BY <1>1
<1>4. [i \in 1..1 |-> x] = <<x>>
  OBVIOUS
<1>5. QED
  BY <1>2, <1>3, <1>4 DEF s

\* The last candle of a second closes at the price.
LEMMA LastCandle ==
  ASSUME DbInv, PricesInOrder, NEW t \in Listed
  PROVE  LET r == [resolution |-> "1", to |-> Clock + 1, countback |-> 1, chart_type |-> "price"]
         IN  \A c \in ToSet(Chart(t, r).bars) : c.close = {CurrentPrice(t)}
<1> DEFINE r == [resolution |-> "1", to |-> Clock + 1, countback |-> 1, chart_type |-> "price"]
           S == PriceRows(t)
           m == Max(S)
           At(i) == Second(price[i].block)
           LastOf(at) == {price[i].price : i \in {i \in S : At(i) = at /\ \A j \in S : At(j) = at => j <= i}}
           Candle(at) == [time_stamp |-> at, close |-> LastOf(at)]
           Times == {At(i) : i \in S}
           All == {Candle(at) : at \in Times}
<1>1. /\ m \in S /\ \A i \in S : i <= m
      /\ S \subseteq DOMAIN price /\ DOMAIN price \subseteq Nat
  BY NewestPriceOf
<1>2. \A i \in S : At(i) \in 0..Clock
  BY <1>1, SecondsOfPrices
<1>3. Clock \in Nat /\ \A i \in S : At(i) <= At(m)
  BY <1>1, SecondsOfPrices
<1>4. Candles(t, 1) = All
  <2>1. \A i \in S : (Second(price[i].block) \div 1) * 1 = At(i)
    <3>1. \A n \in Nat : (n \div 1) * 1 = n
      OBVIOUS
    <3>2. \A i \in S : At(i) \in Nat
      BY <1>2
    <3>3. QED
      BY <3>1, <3>2
  <2>2. \A at : {price[i].price : i \in {i \in S : (Second(price[i].block) \div 1) * 1 = at
                        /\ \A j \in S : (Second(price[j].block) \div 1) * 1 = at => j <= i}} = LastOf(at)
    BY <2>1
  <2>3. {(Second(price[i].block) \div 1) * 1 : i \in S} = Times
    BY <2>1
  <2> HIDE DEF LastOf, Times
  <2>4. Candles(t, 1) = {[time_stamp |-> at, close |-> LastOf(at)] : at \in Times}
    BY <2>2, <2>3, Zenon DEF Candles
  <2>5. QED
    BY <2>4
<1>5. LastOf(At(m)) = {CurrentPrice(t)}
  <2>1. {i \in S : At(i) = At(m) /\ \A j \in S : At(j) = At(m) => j <= i} = {m}
    BY <1>1
  <2>2. QED
    BY <2>1 DEF CurrentPrice
<1>6. IsFiniteSet(S)
  <2>1. DOMAIN price = 1..Len(price) /\ Len(price) \in Nat
    BY DEF DbInv, RowsOK
  <2>2. IsFiniteSet(DOMAIN price) /\ S \in SUBSET DOMAIN price
    BY <1>1, <2>1, FS_Interval
  <2>3. QED
    BY <2>2, FS_Subset
<1>7. IsFiniteSet(All)
  <2> DEFINE f == [i \in S |-> Candle(At(i))]
  <2>1. IsFiniteSet({f[i] : i \in S})
    BY <1>6, ValuesFinite
  <2> HIDE DEF Candle, At
  <2>2. {f[i] : i \in S} = All
    OBVIOUS
  <2>3. QED
    BY <2>1, <2>2
<1>8. \A at : Candle(at).time_stamp = at /\ Candle(at).close = LastOf(at)
  OBVIOUS
<1>9. \A at \in Times : at \in Nat /\ at < Clock + 1 /\ at <= At(m)
  BY <1>2, <1>3
<1>10. At(m) \in Times
  BY <1>1
<1>11. Interval(r.resolution) = 1 /\ r.to = Clock + 1 /\ r.countback = 1
  BY DEF Interval
<1> DEFINE R == {p \in All \X All : p[1].time_stamp > p[2].time_stamp}
           all == CHOOSE s \in SetToSeqs(All) : \A i, j \in DOMAIN s : i < j => s[i].time_stamp > s[j].time_stamp
<1> HIDE DEF Candle, At, LastOf, Times, r, m, S
<1>12. {c \in All : c.time_stamp < Clock + 1} = All
  BY <1>8, <1>9
<1>13. Chart(t, r).bars = Reverse(PageOf(all, 1, 1))
  BY <1>4, <1>11, <1>12 DEF Chart
<1>14. \A c, d \in All : <<c, d>> \in R <=> c.time_stamp > d.time_stamp
  OBVIOUS
<1>15. \A c \in All : c.time_stamp \in Nat /\ c.time_stamp <= At(m) /\ c = Candle(c.time_stamp)
  BY <1>8, <1>9
<1>16. Candle(At(m)) \in All
  BY <1>10
<1> HIDE DEF R, All
<1>17. InLine(All, R)
  BY <1>14, <1>15 DEF InLine
<1>18. \E s \in SetToSeqs(All) : \A i, j \in DOMAIN s : i < j => s[i].time_stamp > s[j].time_stamp
  <2>1. PICK s \in SetToSeqs(All) : \A i, j \in DOMAIN s : i < j => <<s[i], s[j]>> \in R
    BY <1>7, <1>17, SortedExists
  <2>2. \A i \in DOMAIN s : s[i] \in All
    BY <1>7, SeqsOfSet
  <2>3. QED
    BY <1>14, <2>1, <2>2
<1>19. all \in SetToSeqs(All) /\ \A i, j \in DOMAIN all : i < j => all[i].time_stamp > all[j].time_stamp
  BY <1>18
<1> HIDE DEF all
<1>20. /\ all \in Seq(All) /\ Len(all) \in Nat /\ DOMAIN all = 1..Len(all)
       /\ \A c \in All : \E i \in DOMAIN all : all[i] = c
       /\ \A i \in DOMAIN all : all[i] \in All
  BY <1>7, <1>19, SeqsOfSet
<1>21. 1 \in DOMAIN all /\ all[1] = Candle(At(m))
  <2>1. PICK k \in DOMAIN all : all[k] = Candle(At(m))
    BY <1>16, <1>20
  <2>2. 1 \in DOMAIN all /\ k \in Nat \ {0}
    BY <1>20, <2>1
  <2>3. all[1].time_stamp \in Nat /\ all[1].time_stamp <= At(m) /\ At(m) \in Nat
    BY <1>9, <1>10, <1>15, <1>20, <2>2
  <2>4. all[k].time_stamp = At(m)
    BY <1>8, <2>1
  <2>5. ~(1 < k)
    BY <1>19, <2>2, <2>3, <2>4
  <2>6. k = 1
    BY <2>2, <2>5
  <2>7. QED
    BY <2>1, <2>2, <2>6
<1> DEFINE page == PageOf(all, 1, 1)
<1>22. page = <<all[1]>>
  <2>1. (1 - 1) * 1 + 1 = 1 /\ 1 * 1 = 1 /\ (IF 1 < Len(all) THEN 1 ELSE Len(all)) = 1
    BY <1>20, <1>21
  <2>2. page = SubSeq(all, 1, 1)
    BY <2>1 DEF PageOf
  <2>3. QED
    BY <1>20, <1>21, <2>2
<1>23. Reverse(page) = <<all[1]>>
  BY <1>22, ReversedSingle
<1>24. ToSet(Chart(t, r).bars) = {Candle(At(m))}
  BY <1>13, <1>21, <1>23 DEF ToSet
<1>25. \A c \in ToSet(Chart(t, r).bars) : c.close = {CurrentPrice(t)}
  BY <1>5, <1>8, <1>24
<1>26. QED
  BY <1>25 DEF r

\* The volume of a period is that of its trades.
LEMMA VolumeOfPeriod ==
  ASSUME DbInv, NEW t \in Token, NEW period \in Nat
  PROVE  /\ Metric(t, period).volume.total = SumQuote(Traded(t, period))
         /\ Metric(t, period).volume.total \in Nat
<1> DEFINE bought == Side(t, period, TRUE)
           sold == Side(t, period, FALSE)
<1>1. Metric(t, period).volume.total = SumQuote(bought) + SumQuote(sold)
  BY DEF Metric, Side
<1>2. bought \subseteq DOMAIN swap /\ sold \in SUBSET DOMAIN swap
  BY SidesOfTrades
<1>3. \A i \in DOMAIN swap : swap[i].is_buy \in BOOLEAN
  BY SwapsFinite DEF SwapRow
<1>4. bought \cup sold = Traded(t, period) /\ bought \cap sold = {}
  BY <1>3 DEF Side, Traded
<1> HIDE DEF bought, sold
<1>5. SumQuote(bought \cup sold) = SumQuote(bought) + SumQuote(sold)
  BY <1>2, <1>4, Volumes
<1>6. Traded(t, period) \subseteq DOMAIN swap
  BY DEF Traded
<1>7. SumQuote(Traded(t, period)) \in Nat
  BY <1>6, Volumes
<1>8. QED
  BY <1>1, <1>4, <1>5, <1>7

\* A period as long as the chain has all trades.
LEMMA WholePeriod ==
  ASSUME DbInv, NEW t \in Token
  PROVE  /\ MaxBlock + 1 \in Nat /\ MaxBlock + 1 >= Clock
         /\ Traded(t, MaxBlock + 1) = {i \in DOMAIN swap : swap[i].token = t}
<1>1. MaxBlock + 1 \in Nat /\ block \in 1..MaxBlock + 1
  BY AddressAssumption DEF DbInv, TablesOK
<1>2. Clock \in Nat /\ Clock <= block
  BY <1>1 DEF Clock, Second
<1>3. MaxBlock + 1 >= Clock
  BY <1>1, <1>2
<1>4. \A i \in DOMAIN swap : SwapAt(i) \in Nat /\ SwapAt(i) >= 1 /\ SwapAt(i) <= Clock
  BY SwapTimeBounds
<1>5. \A i \in DOMAIN swap : SwapAt(i) > Clock - (MaxBlock + 1) /\ SwapAt(i) <= Clock
  BY <1>1, <1>2, <1>3, <1>4
<1>6. QED
  BY <1>1, <1>3, <1>5 DEF Traded, InPeriod

\* The counts of the history without filters are the stored counts.
LEMMA StoredCounts ==
  ASSUME NEW t, NEW type \in TradeType
  PROVE  TokenSwapCount(t, [AnyTrade EXCEPT !.trade_type = type]) = SwapCountTable(t)[type]
<1> DEFINE q == [AnyTrade EXCEPT !.trade_type = type]
<1>1. q.account_id = Absent /\ q.volume_ranges = {} /\ q.trade_type = type
  BY DEF AnyTrade
<1>2. Absent \notin Account
  BY AddressAssumption DEF Absent
<1> HIDE DEF q
<1>3. TokenSwapCount(t, q) = SwapCountTable(t)[type]
  BY <1>1, <1>2 DEF TokenSwapCount
<1>4. QED
  BY <1>3 DEF q

\* Metrics, history, market and chart agree in tables that are in order.
LEMMA MetricsDoAgree ==
  ASSUME DbInv, PricesInOrder
  PROVE  MetricsAgree
<1> SUFFICES ASSUME NEW t \in Listed
             PROVE  LET m == Metric(t, MaxBlock + 1)
                        trades(type) == TokenSwapCount(t, [AnyTrade EXCEPT !.trade_type = type])
                    IN  /\ m.transactions.total = trades("ALL")
                        /\ m.transactions.buy = trades("BUY")
                        /\ m.volume.total = SumQuote({i \in DOMAIN swap : swap[i].token = t})
                        /\ CurrentPrice(t) = market[t].price
                        /\ m.makers.total <= m.transactions.total
                        /\ \A p \in 1..MaxBlock : Metric(t, p).volume.total <= Metric(t, p + 1).volume.total
                        /\ \A c \in ToSet(Chart(t, [resolution |-> "1", to |-> Clock + 1, countback |-> 1,
                                                    chart_type |-> "price"]).bars) :
                             c.close = {CurrentPrice(t)}
  BY DEF MetricsAgree
<1> DEFINE m == Metric(t, MaxBlock + 1)
<1>1. t \in Token
  BY DEF Listed, DbInv, TablesOK
<1>2. /\ MaxBlock + 1 \in Nat /\ MaxBlock + 1 >= Clock
      /\ Traded(t, MaxBlock + 1) = {i \in DOMAIN swap : swap[i].token = t}
  BY <1>1, WholePeriod
<1>3. /\ m.makers.buy <= m.transactions.buy
      /\ m.makers.sell <= m.transactions.sell
      /\ m.transactions.buy = SwapCountTable(t)["BUY"]
      /\ m.transactions.total = SwapCountTable(t)["ALL"]
  BY <1>1, <1>2, MetricsFollow DEF MetricsCounted
<1>4. /\ SwapCountTable(t)["ALL"] = TokenSwapCount(t, [AnyTrade EXCEPT !.trade_type = "ALL"])
      /\ SwapCountTable(t)["BUY"] = TokenSwapCount(t, [AnyTrade EXCEPT !.trade_type = "BUY"])
  <2>1. {"ALL", "BUY"} \subseteq TradeType
    BY DEF TradeType
  <2>2. QED
    BY <2>1, StoredCounts
<1>5. m.volume.total = SumQuote({i \in DOMAIN swap : swap[i].token = t})
  BY <1>1, <1>2, VolumeOfPeriod
<1>6. CurrentPrice(t) = market[t].price
  BY NewestPriceOf
<1>7. m.makers.total <= m.transactions.total
  <2>1. /\ m.makers.total = m.makers.buy + m.makers.sell
        /\ m.transactions.total = m.transactions.buy + m.transactions.sell
    BY DEF Metric
  <2>2. /\ m.makers.buy \in Nat /\ m.makers.sell \in Nat
        /\ m.transactions.buy \in Nat /\ m.transactions.sell \in Nat
    <3> DEFINE Maker(is_buy) == {swap[i].account : i \in Side(t, MaxBlock + 1, is_buy)}
    <3>1. \A is_buy \in BOOLEAN : Side(t, MaxBlock + 1, is_buy) \in SUBSET DOMAIN swap
      BY DEF Side
    <3>2. \A i \in DOMAIN swap : swap[i].account \in Account
      BY SwapsFinite DEF SwapRow
    <3>3. \A is_buy \in BOOLEAN : Maker(is_buy) \in SUBSET Account
      BY <3>1, <3>2
    <3>4. \A is_buy \in BOOLEAN : Cardinality(Side(t, MaxBlock + 1, is_buy)) \in Nat
      BY <3>1, SwapsFinite, FS_Subset, FS_CardinalityType
    <3>5. \A is_buy \in BOOLEAN : Makers(Side(t, MaxBlock + 1, is_buy)) \in Nat
      BY <3>3, AddressAssumption, FS_Subset, FS_CardinalityType DEF Makers
    <3>6. QED
      BY <3>4, <3>5, MetricFields
  <2> HIDE DEF m
  <2>3. QED
    BY <1>3, <2>1, <2>2
<1>8. ASSUME NEW p \in 1..MaxBlock
      PROVE  Metric(t, p).volume.total <= Metric(t, p + 1).volume.total
  <2>1. p \in Nat /\ p + 1 \in Nat /\ Clock \in Int
    BY <1>2, AddressAssumption, BlocksOfRows, SecondGrows DEF Clock
  <2>2. ASSUME NEW i \in DOMAIN swap, InPeriod(i, t, p)
        PROVE  InPeriod(i, t, p + 1)
    <3>1. SwapAt(i) \in Int
      BY SwapTimeBounds
    <3>2. QED
      BY <2>1, <2>2, <3>1 DEF InPeriod
  <2>3. Traded(t, p) \in SUBSET Traded(t, p + 1) /\ Traded(t, p + 1) \subseteq DOMAIN swap
    BY <2>2 DEF Traded
  <2>4. SumQuote(Traded(t, p)) <= SumQuote(Traded(t, p + 1))
    BY <2>3, Volumes
  <2>5. QED
    BY <1>1, <2>1, <2>4, VolumeOfPeriod
<1>9. \A c \in ToSet(Chart(t, [resolution |-> "1", to |-> Clock + 1, countback |-> 1,
                               chart_type |-> "price"]).bars) : c.close = {CurrentPrice(t)}
  BY LastCandle
<1>10. QED
  BY <1>3, <1>4, <1>5, <1>6, <1>7, <1>8, <1>9

\* Time goes on with the rows of price_history of a token.
LEMMA PricesGoOn ==
  ASSUME DbInv, PricesInOrder, NEW t \in Listed, OneBlockASecond(t),
         NEW i \in PriceRows(t), NEW j \in PriceRows(t)
  PROVE  /\ Second(price[i].block) \in Nat /\ price[i].tx \in Nat /\ i \in Nat
         /\ i < j => \/ Second(price[i].block) < Second(price[j].block)
                     \/ Second(price[i].block) = Second(price[j].block) /\ price[i].tx < price[j].tx
<1>1. i \in DOMAIN price /\ j \in DOMAIN price /\ DOMAIN price \subseteq Nat
  BY NewestPriceOf
<1>2. /\ price[i].tx \in Nat /\ price[j].tx \in Nat
      /\ Second(price[i].block) \in Nat /\ Second(price[j].block) \in Nat
  BY <1>1, SecondsOfPrices
<1>3. ASSUME i < j
      PROVE  \/ Second(price[i].block) < Second(price[j].block)
             \/ Second(price[i].block) = Second(price[j].block) /\ price[i].tx < price[j].tx
  <2>1. Second(price[i].block) <= Second(price[j].block)
    BY <1>1, <1>3, SecondsOfPrices
  <2>2. CASE Second(price[i].block) = Second(price[j].block)
    <3>1. price[i].block = price[j].block /\ price[i].block \in Nat
      BY <1>1, <2>2, SecondsOfPrices DEF OneBlockASecond
    <3>2. price[i].tx < price[j].tx
      BY <1>1, <1>3, <3>1 DEF PricesInOrder, RowBefore
    <3>3. QED
      BY <2>2, <3>2
  <2>3. QED
    BY <1>2, <2>1, <2>2
<1>4. QED
  BY <1>1, <1>2, <1>3

\* The newest row by time is the last, the oldest the first.
LEMMA EndsOfPrices ==
  ASSUME DbInv, PricesInOrder, NEW t \in Listed, OneBlockASecond(t),
         NEW R, R \subseteq PriceRows(t), R # {}
  PROVE  NewestPrice(R) = {Max(R)} /\ OldestPrice(R) = {Min(R)}
<1>1. PriceRows(t) \subseteq DOMAIN price /\ Max(PriceRows(t)) \in Nat /\ PriceRows(t) \subseteq Nat
      /\ \A i \in PriceRows(t) : i <= Max(PriceRows(t))
  BY NewestPriceOf
<1>2. R \subseteq 0..Max(PriceRows(t)) /\ R \subseteq Nat
  BY <1>1
<1>3. \E x \in R : \A y \in R : y <= x
  BY <1>1, <1>2, GreatestElement
<1>4. \E x \in R : \A y \in R : x <= y
  BY <1>2, LeastElement
<1>5. Max(R) \in R /\ \A y \in R : y <= Max(R)
  BY <1>2, <1>3 DEF Max
<1>6. Min(R) \in R /\ \A y \in R : Min(R) <= y
  BY <1>2, <1>4 DEF Min
<1> DEFINE at(i) == Second(price[i].block)
           nth(i) == price[i].tx
<1>7. \A i, j \in R : /\ at(i) \in Nat /\ nth(i) \in Nat
                      /\ i < j => at(i) < at(j) \/ (at(i) = at(j) /\ nth(i) < nth(j))
  BY PricesGoOn
<1>8. NewestPrice(R) = {i \in R : \A j \in R : <<at(j), nth(j)>> # <<at(i), nth(i)>> =>
                                    at(j) < at(i) \/ (at(j) = at(i) /\ nth(j) < nth(i))}
  BY DEF NewestPrice
<1>9. OldestPrice(R) = {i \in R : \A j \in R : at(j) > at(i) \/ (at(j) = at(i) /\ nth(j) >= nth(i))}
  BY DEF OldestPrice
<1> DEFINE m == Max(R)
           n == Min(R)
<1> HIDE DEF at, nth, m, n
<1>10. m \in R /\ n \in R /\ m \in Nat /\ n \in Nat /\ \A y \in R : y <= m /\ n <= y /\ y \in Nat
  BY <1>2, <1>5, <1>6 DEF m, n
<1>11. ASSUME NEW i \in R
       PROVE  (\A j \in R : <<at(j), nth(j)>> # <<at(i), nth(i)>> =>
                    at(j) < at(i) \/ (at(j) = at(i) /\ nth(j) < nth(i))) <=> i = m
  <2>1. CASE i = m
    <3>1. \A j \in R : j = m \/ j < m
      BY <1>10
    <3>2. \A j \in R : j = m \/ at(j) < at(m) \/ (at(j) = at(m) /\ nth(j) < nth(m))
      BY <1>7, <1>10, <3>1
    <3>3. QED
      BY <2>1, <3>2
  <2>2. CASE i # m
    <3>1. i < m
      BY <1>10, <2>2
    <3>2. at(i) < at(m) \/ (at(i) = at(m) /\ nth(i) < nth(m))
      BY <1>7, <1>10, <3>1
    <3>3. at(i) \in Nat /\ at(m) \in Nat /\ nth(i) \in Nat /\ nth(m) \in Nat
      BY <1>7, <1>10
    <3>4. <<at(m), nth(m)>> # <<at(i), nth(i)>> /\ ~(at(m) < at(i) \/ (at(m) = at(i) /\ nth(m) < nth(i)))
      BY <3>2, <3>3
    <3>5. QED
      BY <1>10, <2>2, <3>4
  <2>3. QED
    BY <2>1, <2>2
<1>12. ASSUME NEW i \in R
       PROVE  (\A j \in R : at(j) > at(i) \/ (at(j) = at(i) /\ nth(j) >= nth(i))) <=> i = n
  <2>1. CASE i = n
    <3>1. \A j \in R : j = n \/ n < j
      BY <1>10
    <3>2. \A j \in R : j = n \/ at(n) < at(j) \/ (at(n) = at(j) /\ nth(n) < nth(j))
      BY <1>7, <1>10, <3>1
    <3>3. \A j \in R : at(j) \in Nat /\ nth(j) \in Nat
      BY <1>7
    <3>4. QED
      BY <1>10, <2>1, <3>2, <3>3
  <2>2. CASE i # n
    <3>1. n < i
      BY <1>10, <2>2
    <3>2. at(n) < at(i) \/ (at(n) = at(i) /\ nth(n) < nth(i))
      BY <1>7, <1>10, <3>1
    <3>3. at(i) \in Nat /\ at(n) \in Nat /\ nth(i) \in Nat /\ nth(n) \in Nat
      BY <1>7, <1>10
    <3>4. ~(at(n) > at(i) \/ (at(n) = at(i) /\ nth(n) >= nth(i)))
      BY <3>2, <3>3
    <3>5. QED
      BY <1>10, <2>2, <3>4
  <2>3. QED
    BY <2>1, <2>2
<1>13. NewestPrice(R) = {m}
  BY <1>8, <1>10, <1>11
<1>14. OldestPrice(R) = {n}
  BY <1>9, <1>10, <1>12
<1>15. QED
  BY <1>13, <1>14 DEF m, n

\* The changes of a day agree in tables that are in order.
LEMMA DayPricesDoAgree ==
  ASSUME DbInv, PricesInOrder
  PROVE  DayPricesAgree
<1> SUFFICES ASSUME NEW t \in Listed, OneBlockASecond(t)
             PROVE  OrderToken(t).percent = {Metric(t, Day).percent}
  BY DEF DayPricesAgree
<1> DEFINE old == {i \in PriceRows(t) : Second(price[i].block) <= Clock - Day}
           start == IF old # {} THEN Max(old) ELSE Min(PriceRows(t))
<1>1. PriceRows(t) # {} /\ CurrentPrice(t) = market[t].price
  BY NewestPriceOf
<1>2. (IF old # {} THEN NewestPrice(old) ELSE OldestPrice(PriceRows(t))) = {start}
  <2>1. old \subseteq PriceRows(t)
    OBVIOUS
  <2> HIDE DEF old
  <2>2. CASE old # {}
    BY <2>1, <2>2, EndsOfPrices
  <2>3. CASE old = {}
    BY <1>1, <2>3, EndsOfPrices
  <2>4. QED
    BY <2>2, <2>3
<1>3. Price24hAgo(t) = {price[start].price}
  <2>1. Price24hAgo(t)
        = {price[i].price : i \in IF old # {} THEN NewestPrice(old) ELSE OldestPrice(PriceRows(t))}
    BY DEF Price24hAgo
  <2> HIDE DEF old, start
  <2>2. QED
    BY <1>2, <2>1
<1>4. StartPrice(t, Day) = price[start].price
  BY DEF StartPrice
<1> HIDE DEF start, old
<1>5. OrderToken(t).percent = {PriceChange(p, market[t].price) : p \in Price24hAgo(t)}
  BY DEF OrderToken
<1>6. Metric(t, Day).percent = PriceChange(StartPrice(t, Day), CurrentPrice(t))
  BY DEF Metric
<1>7. QED
  BY <1>1, <1>3, <1>4, <1>5, <1>6

\* What a list of the most held tokens says of the holders of t.
HoldersIn(lists, t) ==
    LET rows == {r \in ToSet(CHOOSE s \in lists : TRUE) : r.token_id = t}
    IN  IF rows = {} THEN 0 ELSE (CHOOSE r \in rows : TRUE).holder_count

\* The list of the most held tokens, as long as there are tokens, has all their holders.
LEMMA TopHeldWhole ==
  ASSUME DbInv, NoneUnlisted, NEW users, users \subseteq Account, NEW t \in Token
  PROVE  HoldersIn(TopHeld(users, Cardinality(Token)), t) = Cardinality(HeldBy(t, users))
<1> DEFINE S == {u \in DOMAIN token : HeldBy(u, users) # {}}
           count == [u \in DOMAIN token |-> Cardinality(HeldBy(u, users))]
           limit == Cardinality(Token)
           Row(u) == [token_id |-> u, holder_count |-> count[u]]
           Rowed(o) == [n \in DOMAIN o |-> Row(o[n])]
           lists == TopHeld(users, limit)
<1>1. DOMAIN token \subseteq Token /\ DOMAIN market \subseteq DOMAIN token
  BY DEF DbInv, TablesOK
<1>2. S \in SUBSET Token /\ IsFiniteSet(Token) /\ Token \subseteq Nat
  BY <1>1, AddressAssumption
<1>3. IsFiniteSet(S) /\ S \subseteq Nat /\ Cardinality(S) <= limit /\ limit \in Nat
  BY <1>2, FS_Subset, FS_CardinalityType
<1>4. \A u : HeldBy(u, users) \in SUBSET Account
  BY DEF HeldBy
<1>5. \A u : Cardinality(HeldBy(u, users)) \in Nat
  BY <1>4, AddressAssumption, FS_Subset, FS_CardinalityType
<1>6. \A u \in S : u \in DOMAIN token /\ count[u] = Cardinality(HeldBy(u, users)) /\ count[u] \in Int
  BY <1>5
<1>7. lists = {LET top == PageOf(o, 1, limit)
               IN  [n \in DOMAIN top |-> [token_id |-> top[n], holder_count |-> count[top[n]]]] :
                  o \in Orders(S, count, "DESC")}
  BY DEF TopHeld
<1> HIDE DEF S, count, limit, lists
<1>8. ASSUME NEW o \in Orders(S, count, "DESC")
      PROVE  PageOf(o, 1, limit) = o /\ ToSet(Rowed(o)) = {Row(u) : u \in S}
  <2>1. /\ o \in Seq(S) /\ Len(o) = Cardinality(S) /\ Len(o) \in Nat /\ DOMAIN o = 1..Len(o)
        /\ \A x \in S : \E i \in DOMAIN o : o[i] = x
    BY <1>3, OrderRows
  <2>2. (1 - 1) * limit + 1 = 1 /\ 1 * limit = limit /\ (IF limit < Len(o) THEN limit ELSE Len(o)) = Len(o)
    BY <1>3, <2>1
  <2>3. PageOf(o, 1, limit) = SubSeq(o, 1, Len(o))
    BY <2>2 DEF PageOf
  <2>4. SubSeq(o, 1, Len(o)) = o
    BY <2>1
  <2>5. \A n \in DOMAIN o : o[n] \in S
    BY <2>1
  <2>6. ToSet(Rowed(o)) = {Row(o[n]) : n \in DOMAIN o}
    BY DEF ToSet
  <2> HIDE DEF Row
  <2>7. {Row(o[n]) : n \in DOMAIN o} = {Row(u) : u \in S}
    BY <2>1, <2>5
  <2>8. QED
    BY <2>3, <2>4, <2>6, <2>7
<1>9. Orders(S, count, "DESC") # {}
  BY <1>3, <1>6, OrdersExist
<1>10. \A s \in lists : ToSet(s) = {Row(u) : u \in S}
  <2> SUFFICES ASSUME NEW o \in Orders(S, count, "DESC")
               PROVE  ToSet(LET top == PageOf(o, 1, limit)
                            IN  [n \in DOMAIN top |-> [token_id |-> top[n], holder_count |-> count[top[n]]]])
                      = {Row(u) : u \in S}
    BY <1>7
  <2>1. QED
    BY <1>8
<1>11. lists # {}
  BY <1>7, <1>9
<1>12. (CHOOSE s \in lists : TRUE) \in lists
  BY <1>11
<1> DEFINE rows == {r \in {Row(u) : u \in S} : r.token_id = t}
<1>13. HoldersIn(lists, t) = IF rows = {} THEN 0 ELSE (CHOOSE r \in rows : TRUE).holder_count
  BY <1>10, <1>12 DEF HoldersIn
<1>14. CASE t \in S
  <2>1. rows = {Row(t)}
    BY <1>14
  <2> HIDE DEF rows
  <2>2. (CHOOSE r \in rows : TRUE) = Row(t)
    BY <2>1
  <2>3. HoldersIn(lists, t) = Row(t).holder_count
    BY <1>13, <2>1, <2>2
  <2>4. QED
    BY <1>6, <1>14, <2>3 DEF lists, limit
<1>15. CASE t \notin S
  <2>1. rows = {}
    BY <1>15
  <2>2. HeldBy(t, users) = {}
    <3>1. CASE t \in DOMAIN token
      BY <1>15, <3>1 DEF S
    <3>2. CASE t \notin DOMAIN token
      BY <1>1, <3>2 DEF NoneUnlisted, HeldBy
    <3>3. QED
      BY <3>1, <3>2
  <2>3. Cardinality(HeldBy(t, users)) = 0
    BY <2>2, FS_EmptySet
  <2> HIDE DEF rows
  <2>4. QED
    BY <1>13, <2>1, <2>3 DEF lists, limit
<1>16. QED
  BY <1>14, <1>15

\* Churned and active users add up in tables that are in order.
LEMMA ActivityAddsUp ==
  ASSUME DbInv, NoneUnlisted, NEW inactive \in 1..MaxBlock
  PROVE  ActivitySplits(inactive)
<1> DEFINE Churned == TargetUsers(inactive, TRUE)
           Active == TargetUsers(inactive, FALSE)
           churned == UserActivity(inactive, Cardinality(Token), TRUE)
           active == UserActivity(inactive, Cardinality(Token), FALSE)
           Trades(users) == {i \in DOMAIN swap : swap[i].account \in users}
<1>1. inactive \in Nat
  OBVIOUS
<1>2. /\ churned.stats.total_users + active.stats.total_users = Cardinality(Traders)
      /\ NewUsers(inactive) <= active.stats.total_users
  BY <1>1, UsersFollow DEF UsersSplit
<1>3. Churned \cup Active = Traders /\ Churned \cap Active = {}
  BY DEF TargetUsers
<1>4. IsFiniteSet(Traders) /\ Traders \subseteq Account
  BY Profits
<1>5. churned.stats.avg_volume[1] + active.stats.avg_volume[1] = SumQuote(DOMAIN swap)
  <2>1. /\ churned.stats.avg_volume[1] = SumQuote(Trades(Churned))
        /\ active.stats.avg_volume[1] = SumQuote(Trades(Active))
    BY DEF UserActivity, UserStats
  <2> HIDE DEF Churned, Active
  <2>2. \A i \in DOMAIN swap : swap[i].account \in Traders
    BY DEF Traders
  <2>3. Trades(Churned) \cup Trades(Active) = DOMAIN swap /\ Trades(Churned) \cap Trades(Active) = {}
    BY <1>3, <2>2
  <2>4. Trades(Churned) \subseteq DOMAIN swap /\ Trades(Active) \in SUBSET DOMAIN swap
    OBVIOUS
  <2> HIDE DEF Trades
  <2>5. SumQuote(Trades(Churned) \cup Trades(Active)) = SumQuote(Trades(Churned)) + SumQuote(Trades(Active))
    BY <2>3, <2>4, Volumes
  <2>6. QED
    BY <2>1, <2>3, <2>5
<1>6. ASSUME NEW t \in Token
      PROVE  HoldersIn(churned.top_held_tokens, t) + HoldersIn(active.top_held_tokens, t)
             = Cardinality(HeldBy(t, Traders))
  <2>1. /\ churned.top_held_tokens = TopHeld(Churned, Cardinality(Token))
        /\ active.top_held_tokens = TopHeld(Active, Cardinality(Token))
    BY DEF UserActivity
  <2> HIDE DEF Churned, Active, churned, active
  <2>2. Churned \subseteq Account /\ Active \subseteq Account
    BY <1>3, <1>4
  <2>3. /\ HoldersIn(churned.top_held_tokens, t) = Cardinality(HeldBy(t, Churned))
        /\ HoldersIn(active.top_held_tokens, t) = Cardinality(HeldBy(t, Active))
    BY <2>1, <2>2, TopHeldWhole
  <2>4. /\ HeldBy(t, Churned) \cup HeldBy(t, Active) = HeldBy(t, Traders)
        /\ HeldBy(t, Churned) \cap HeldBy(t, Active) = {}
    BY <1>3 DEF HeldBy
  <2>5. HeldBy(t, Churned) \in SUBSET Traders /\ HeldBy(t, Active) \in SUBSET Traders
    BY <1>3 DEF HeldBy
  <2>6. IsFiniteSet(HeldBy(t, Churned)) /\ IsFiniteSet(HeldBy(t, Active))
    BY <1>4, <2>5, FS_Subset
  <2>7. Cardinality(HeldBy(t, Churned) \cup HeldBy(t, Active))
        = Cardinality(HeldBy(t, Churned)) + Cardinality(HeldBy(t, Active))
    BY <2>4, <2>6, SplitSize
  <2>8. QED
    BY <2>3, <2>4, <2>7
<1>7. QED
  BY <1>2, <1>5, <1>6 DEF ActivitySplits, HoldersIn

\* Users with and without a gain add up in tables that are in order.
LEMMA RoiAddsUp ==
  ASSUME DbInv
  PROVE  RoiSplits
<1> DEFINE users == {a \in DOMAIN Pnl : Invested(a) > 0}
           gained == {a \in users : Pnl[a] > 0}
           lost == {a \in users : Pnl[a] <= 0}
<1>1. DOMAIN Pnl = Traders /\ IsFiniteSet(Traders) /\ \A a \in Traders : Pnl[a] \in Int
  BY Profits
<1>2. gained \cup lost = users /\ gained \cap lost = {}
  BY <1>1
<1>3. gained \in SUBSET Traders /\ lost \in SUBSET Traders
  BY <1>1
<1>4. /\ UserRoi.positive = Cardinality(gained) /\ UserRoi.negative = Cardinality(lost)
      /\ UserRoi.total_users = Cardinality(users)
  BY DEF UserRoi
<1> HIDE DEF gained, lost, users
<1>5. IsFiniteSet(gained) /\ IsFiniteSet(lost)
  BY <1>1, <1>3, FS_Subset
<1>6. Cardinality(gained \cup lost) = Cardinality(gained) + Cardinality(lost)
  BY <1>2, <1>5, SplitSize
<1>7. QED
  BY <1>2, <1>4, <1>6 DEF RoiSplits

\* The answers agree in tables that are in order.
LEMMA AnswersAgree ==
  ASSUME DbInv, RowsApart
  PROVE  ListsAgree
BY PositionsDoAgree, HistoriesDoAgree, MetricsDoAgree, DayPricesDoAgree, ActivityAddsUp, RoiAddsUp
   DEF ListsAgree, RowsApart

\* What two endpoints say of the same thing is the same, for any number of blocks, tokens,
\* accounts and trades: positions, histories, metrics, charts, the prices of a day ago and
\* the statistics of the users (controllers/trading, controllers/token/order.rs,
\* controllers/cms/analytics.rs).
THEOREM AnswersAreOne == DbSpec => []ListsAgree
<1>1. DbInv /\ RowsApart => ListsAgree
  BY AnswersAgree
<1>2. QED
  BY <1>1, DbInvariance, RowsAreApart, PTL

----------------------------------------------------------------------------
(* Account profiles *)

\* Every value of the profile model has its type whatever clients and servers do
\* (services/account, controllers/account).
THEOREM AccountsTypeCorrect == AccountsSpec => []AccountsTypeOK
<1>1. AccountsInit => AccountsTypeOK
  BY TextAssumption, EditsAssumption DEF AccountsInit, AccountsTypeOK, Profile
<1>2. AccountsTypeOK /\ [AccountsNext]_accountVars => AccountsTypeOK'
  <2> SUFFICES ASSUME AccountsTypeOK, [AccountsNext]_accountVars
               PROVE  AccountsTypeOK'
    OBVIOUS
  <2> USE DEF AccountsTypeOK
  <2>1. ASSUME NEW r \in Request, Upsert(r)
        PROVE  AccountsTypeOK'
    <3> DEFINE a == looking[r]
    <3>1. a \in Address /\ account[a] \in Profile \cup {None}
      BY <2>1 DEF Upsert
    <3>2. Inserted(a) \in Profile
      BY <3>1, TextAssumption DEF Inserted, NewProfile, Profile
    <3>3. account' \in [Address -> Profile \cup {None}]
      BY <2>1, <3>2 DEF Upsert
    <3>4. answer' \in [Request -> Profile \cup {None}]
      BY <2>1, <3>1 DEF Upsert
    <3>5. looking' \in [Request -> Address \cup {None}]
      BY <2>1 DEF Upsert
    <3>6. QED
      BY <2>1, <3>3, <3>4, <3>5 DEF Upsert
  <2>2. ASSUME NEW r \in Request, GiveUp(r)
        PROVE  AccountsTypeOK'
    BY <2>2 DEF GiveUp
  <2>3. ASSUME NEW r \in Request, NEW a \in Address, FetchHit(r, a)
        PROVE  AccountsTypeOK'
    BY <2>3 DEF FetchHit
  <2>4. ASSUME NEW r \in Request, NEW a \in Address, FetchMiss(r, a)
        PROVE  AccountsTypeOK'
    BY <2>4 DEF FetchMiss
  <2>5. ASSUME NEW a \in Address, Apply(a)
        PROVE  AccountsTypeOK'
    BY <2>5 DEF Apply
  <2>6. ASSUME NEW a \in Address, ExpireInfo(a)
        PROVE  AccountsTypeOK'
    BY <2>6 DEF ExpireInfo
  <2>7. ASSUME NEW a \in Address, NEW new \in [Field -> Text \cup {None}], Update(a, new)
        PROVE  AccountsTypeOK'
    <3>1. Edited(a, new) \in Profile
      BY <2>7 DEF Update, Edited, Profile
    <3>2. account' \in [Address -> Profile \cup {None}]
      BY <2>7, <3>1 DEF Update
    <3>3. info' \in [Address -> Profile \cup {None}]
      BY <2>7 DEF Update
    <3>4. [f \in Field |-> IF new[f] = None THEN written[a][f] ELSE new[f]] \in [Field -> Text \cup {None}]
      OBVIOUS
    <3>5. written' \in [Address -> [Field -> Text \cup {None}]]
      BY <2>7, <3>4 DEF Update
    <3>6. edits' \in 0..MaxEdits
      BY <2>7, EditsAssumption DEF Update
    <3>7. QED
      BY <2>7, <3>2, <3>3, <3>5, <3>6 DEF Update
  <2>8. CASE UNCHANGED accountVars
    BY <2>8 DEF accountVars
  <2>9. QED
    BY <2>1, <2>2, <2>3, <2>4, <2>5, <2>6, <2>7, <2>8 DEF AccountsNext
<1>3. QED
  BY <1>1, <1>2, PTL DEF AccountsSpec

\* What a user wrote into a field of the profile stays until that field is edited
\* again, for any number of addresses, requests and edits: the insertion of a default
\* row and the edit of another field leave it alone (upsert_account, update_account).
THEOREM WrittenFieldsStand == AccountsSpec => []ProfileStands
<1>1. AccountsInit => ProfileStands
  BY DEF AccountsInit, ProfileStands
<1>2. AccountsTypeOK /\ ProfileStands /\ [AccountsNext]_accountVars => ProfileStands'
  <2> SUFFICES ASSUME AccountsTypeOK, ProfileStands, [AccountsNext]_accountVars
               PROVE  ProfileStands'
    OBVIOUS
  <2>1. ASSUME NEW r \in Request, Upsert(r)
        PROVE  ProfileStands'
    <3> DEFINE a == looking[r]
    <3>1. a \in Address
      BY <2>1 DEF AccountsTypeOK, Upsert
    <3>2. \A b \in Address : account'[b] = IF b = a THEN Inserted(a) ELSE account[b]
      BY <2>1, <3>1 DEF AccountsTypeOK, Upsert
    <3>3. NewProfile # None /\ \A f \in Field : NewProfile[f] = Default
      BY TextAssumption DEF NewProfile
    <3>4. written' = written
      BY <2>1 DEF Upsert
    <3>5. ASSUME NEW b \in Address, NEW f \in Field
          PROVE  IF written[b][f] # None
                 THEN account'[b] # None /\ account'[b][f] = written[b][f]
                 ELSE account'[b] # None => account'[b][f] = Default
      <4>1. CASE account[b] = None /\ b = a
        BY <4>1, <3>2, <3>3 DEF ProfileStands, Inserted
      <4>2. CASE ~(account[b] = None /\ b = a)
        BY <4>2, <3>2 DEF ProfileStands, Inserted
      <4>3. QED
        BY <4>1, <4>2
    <3>6. QED
      BY <3>4, <3>5 DEF ProfileStands
  <2>2. ASSUME NEW a \in Address, NEW new \in [Field -> Text \cup {None}], Update(a, new)
        PROVE  ProfileStands'
    <3>1. account[a] \in Profile /\ account[a] # None /\ Edited(a, new) # None
      BY <2>2, TextAssumption DEF AccountsTypeOK, Update, Edited, Profile
    <3>2. \A b \in Address : account'[b] = IF b = a THEN Edited(a, new) ELSE account[b]
      BY <2>2 DEF AccountsTypeOK, Update
    <3>3. \A b \in Address, f \in Field :
            written'[b][f] = IF b = a /\ new[f] # None THEN new[f] ELSE written[b][f]
      BY <2>2 DEF AccountsTypeOK, Update
    <3>4. \A f \in Field : Edited(a, new)[f] = IF new[f] = None THEN account[a][f] ELSE new[f]
      BY DEF Edited
    <3>5. ASSUME NEW b \in Address, NEW f \in Field
          PROVE  IF written'[b][f] # None
                 THEN account'[b] # None /\ account'[b][f] = written'[b][f]
                 ELSE account'[b] # None => account'[b][f] = Default
      <4>1. CASE b = a
        BY <4>1, <3>1, <3>2, <3>3, <3>4 DEF ProfileStands
      <4>2. CASE b # a
        BY <4>2, <3>2, <3>3 DEF ProfileStands
      <4>3. QED
        BY <4>1, <4>2
    <3>6. QED
      BY <3>5 DEF ProfileStands
  <2>3. ASSUME UNCHANGED <<account, written>>
        PROVE  ProfileStands'
    BY <2>3 DEF ProfileStands
  <2>4. QED
    BY <2>1, <2>2, <2>3
    DEF AccountsNext, accountVars, GiveUp, FetchHit, FetchMiss, Apply, ExpireInfo
<1>3. QED
  BY <1>1, <1>2, AccountsTypeCorrect, PTL DEF AccountsSpec

----------------------------------------------------------------------------
(* Trend list *)

\* A list without tokens may be sent.
LEMMA EmptyList == <<>> \in Lists
<1>1. <<>> \in [1..0 -> TrendToken]
  OBVIOUS
<1>2. 0 \in 0..MaxTrendTokens
  BY TrendAssumption
<1>3. QED
  BY <1>1, <1>2 DEF Lists

\* A token of a list stands at one position of it.
LEMMA ListPositions ==
  ASSUME NEW s \in Lists, NEW n \in DOMAIN s
  PROVE  /\ n \in Nat \ {0}
         /\ s[n] \in TrendToken
         /\ \A m \in DOMAIN s : s[m] = s[n] => m = n
<1>1. PICK l \in 0..MaxTrendTokens :
        s \in {t \in [1..l -> TrendToken] : \A i, j \in 1..l : t[i] = t[j] => i = j}
  BY DEF Lists
<1>2. QED
  BY <1>1, TrendAssumption

\* The position Replace gives to a token of its list.
LEMMA DisplayOrderOfListed ==
  ASSUME NEW i \in Insert, list[i] \in Lists, NEW n \in DOMAIN list[i]
  PROVE  DisplayOrder(i, list[i][n]) = n - 1
<1>1. \A m \in DOMAIN list[i] : list[i][m] = list[i][n] => m = n
  BY ListPositions
<1>2. (CHOOSE m \in DOMAIN list[i] : list[i][m] = list[i][n]) = n
  BY <1>1
<1>3. QED
  BY <1>2 DEF DisplayOrder

\* A row was created by a commit that has taken place.
BornBefore == \A t \in TrendToken : born[t] <= commits

TrendInv == TrendTypeOK /\ BornBefore

\* Every value of the trend model has its type, and no row is newer than the newest
\* commit (insert_trend_with_admin_check).
THEOREM TrendTypeCorrect == TrendSpec => []TrendInv
<1>1. ASSUME TrendInit
      PROVE  TrendInv
  <2>1. DOMAIN trend = {}
    BY <1>1 DEF TrendInit
  <2>2. 0 \in 0..MaxInserts
    BY TrendAssumption
  <2>3. BornBefore
    BY <1>1 DEF TrendInit, BornBefore
  <2>4. list \in [Insert -> Lists] /\ newest \in Lists
    BY <1>1, EmptyList DEF TrendInit
  <2>5. QED
    BY <1>1, <2>1, <2>2, <2>3, <2>4 DEF TrendInit, TrendInv, TrendTypeOK
<1>2. TrendInv /\ [TrendNext]_trendVars => TrendInv'
  <2> SUFFICES ASSUME TrendInv, [TrendNext]_trendVars
               PROVE  TrendInv'
    OBVIOUS
  <2> USE DEF TrendInv, TrendTypeOK, BornBefore
  <2>1. ASSUME NEW i \in Insert, Replace(i)
        PROVE  TrendInv'
    <3>1. Listing(list[i]) \subseteq TrendToken
      BY ListPositions DEF Listing
    <3>2. DOMAIN trend' = (DOMAIN trend \ Removed(i)) \cup Listing(list[i])
      BY <2>1 DEF Replace
    <3>3. \A t \in DOMAIN trend' : trend'[t] = IF t \in Listing(list[i]) THEN DisplayOrder(i, t) ELSE trend[t]
      BY <2>1 DEF Replace
    <3>4. \A t \in Listing(list[i]) : DisplayOrder(i, t) \in Nat
      <4>1. list[i] \in Lists
        OBVIOUS
      <4>2. ASSUME NEW n \in DOMAIN list[i]
            PROVE  DisplayOrder(i, list[i][n]) \in Nat
        <5>1. n \in Nat \ {0}
          BY <4>1, ListPositions
        <5>2. DisplayOrder(i, list[i][n]) = n - 1
          BY <4>1, DisplayOrderOfListed
        <5>3. QED
          BY <5>1, <5>2
      <4>3. QED
        BY <4>2 DEF Listing
    <3>5. \A t \in DOMAIN trend' : trend'[t] \in Nat
      BY <3>2, <3>3, <3>4
    <3>6. commits + 1 \in 0..MaxInserts /\ commits' = commits + 1
      BY <2>1, TrendAssumption DEF Replace
    <3>7. born' \in [TrendToken -> 0..MaxInserts] /\ BornBefore'
      BY <2>1, <3>6, TrendAssumption DEF Replace
    <3>8. running' \in [Insert -> BOOLEAN] /\ allowed' \in [Insert -> BOOLEAN]
      BY <2>1 DEF Replace, End
    <3>9. list' \in [Insert -> Lists] /\ newest' \in Lists
      BY <2>1, EmptyList DEF Replace, End
    <3>10. snapshot' \in [Insert -> 0..MaxInserts]
      BY <2>1, TrendAssumption DEF Replace, End
    <3>11. overlapped' \in BOOLEAN /\ admins' \subseteq Admin
      BY <2>1 DEF Replace
    <3>12. DOMAIN trend' \subseteq TrendToken
      BY <3>1, <3>2
    <3>13. QED
      BY <3>5, <3>6, <3>7, <3>8, <3>9, <3>10, <3>11, <3>12
  <2>2. ASSUME NEW i \in Insert, Refuse(i)
        PROVE  TrendInv'
    BY <2>2, EmptyList, TrendAssumption DEF Refuse, End
  <2>3. ASSUME NEW i \in Insert, NEW a \in Admin, NEW s \in Lists, Begin(i, a, s)
        PROVE  TrendInv'
    BY <2>3 DEF Begin
  <2>4. ASSUME NEW a \in Admin, ChangeAdmins(a)
        PROVE  TrendInv'
    BY <2>4 DEF ChangeAdmins
  <2>5. CASE UNCHANGED trendVars
    BY <2>5 DEF trendVars
  <2>6. QED
    BY <2>1, <2>2, <2>3, <2>4, <2>5 DEF TrendNext
<1>3. QED
  BY <1>1, <1>2, PTL DEF TrendSpec

\* Whatever statements overlap, the list stored last stands in full and in its order,
\* and alone if no other was stored while it ran, for lists of any length and any
\* number of admins and statements (insert_trend_with_admin_check).
THEOREM LastListStands == TrendSpec => []NewestListStands
<1>1. TrendInit => NewestListStands
  BY DEF TrendInit, NewestListStands, Listing
<1>2. TrendInv /\ NewestListStands /\ [TrendNext]_trendVars => NewestListStands'
  <2> SUFFICES ASSUME TrendInv, NewestListStands, [TrendNext]_trendVars
               PROVE  NewestListStands'
    OBVIOUS
  <2>1. ASSUME NEW i \in Insert, Replace(i)
        PROVE  NewestListStands'
    <3>1. list[i] \in Lists /\ newest' = list[i]
      BY <2>1 DEF TrendInv, TrendTypeOK, Replace
    <3>2. DOMAIN trend' = (DOMAIN trend \ Removed(i)) \cup Listing(list[i])
      BY <2>1 DEF Replace
    <3>3. \A n \in DOMAIN list[i] : trend'[list[i][n]] = n - 1
      <4> SUFFICES ASSUME NEW n \in DOMAIN list[i]
                   PROVE  trend'[list[i][n]] = n - 1
        OBVIOUS
      <4>1. list[i][n] \in Listing(list[i])
        BY DEF Listing
      <4>2. trend'[list[i][n]] = DisplayOrder(i, list[i][n])
        BY <2>1, <4>1 DEF Replace
      <4>3. QED
        BY <3>1, <4>2, DisplayOrderOfListed
    <3>4. ASSUME ~overlapped'
          PROVE  DOMAIN trend' = Listing(list[i])
      <4>1. snapshot[i] = commits
        BY <2>1, <3>4 DEF Replace
      <4>2. Removed(i) = DOMAIN trend \ Listing(list[i])
        BY <4>1 DEF Removed, TrendInv, TrendTypeOK, BornBefore
      <4>3. QED
        BY <3>2, <4>2
    <3>5. Listing(list[i]) \subseteq DOMAIN trend'
      BY <3>2
    <3>6. QED
      BY <3>1, <3>3, <3>4, <3>5 DEF NewestListStands, Listing
  <2>2. ASSUME UNCHANGED <<trend, newest, overlapped>>
        PROVE  NewestListStands'
    BY <2>2 DEF NewestListStands, Listing
  <2>3. QED
    BY <2>1, <2>2 DEF TrendNext, trendVars, Refuse, Begin, ChangeAdmins
<1>3. QED
  BY <1>1, <1>2, TrendTypeCorrect, PTL DEF TrendSpec

-----------------------------------------------------------------------------
(* Charts *)

\* Every value of the chart cache has its type, and a client that asked has computed for
\* the chart type it asked for.
ChartsInv ==
    /\ ChartsTypeOK
    /\ bars = [k \in ChartKeys |-> bars[k]]
    /\ computed = [c \in Client |-> computed[c]]
    /\ answered = [c \in Client |-> answered[c]]
    /\ \A c \in Client : asked[c] # NoChart => computed[c].k \in ChartType

\* NoChart is no request and no chart.
LEMMA NoChartIsNone ==
  /\ \A r \in ChartRequests : r # NoChart
  /\ \A x : x.k \in ChartType => x # NoChart
<1>1. \A r \in ChartRequests : "id" \in DOMAIN r
  BY DEF ChartRequests
<1>2. DOMAIN NoChart = {"k"} /\ NoChart.k = "none"
  BY DEF NoChart
<1>3. QED
  BY <1>1, <1>2 DEF ChartType

\* Every step of the chart cache keeps the types.
LEMMA ChartsStayTyped ==
  ASSUME ChartsInv, NEW Requests, Requests \subseteq ChartRequests, [ChartsNext(Requests)]_chartVars
  PROVE  ChartsInv'
<1> USE DEF ChartsInv, ChartsTypeOK
<1>1. \A r \in ChartRequests : ChartKey(r) \in ChartKeys /\ r.chart_type \in ChartType
  BY DEF ChartKeys, ChartRequests, ChartType
<1>2. ASSUME NEW c \in Client, NEW r \in Requests, ChartHit(c, r)
      PROVE  ChartsInv'
  <2>1. answered' = [answered EXCEPT ![c] = [request |-> r, response |-> bars[ChartKey(r)]]]
        /\ UNCHANGED <<bars, asked, computed>>
    BY <1>2 DEF ChartHit, Answer
  <2>2. answered' = [d \in Client |-> answered'[d]] /\ answered'[c].request \in ChartRequests
        /\ \A d \in Client : d # c => answered'[d] = answered[d]
    BY <2>1
  <2>3. QED
    BY <2>1, <2>2
<1>3. ASSUME NEW c \in Client, NEW r \in Requests, ChartFetch(c, r)
      PROVE  ChartsInv'
  <2>1. Chart(r.id, r).k \in ChartType
    BY <1>1 DEF Chart
  <2>2. asked' = [asked EXCEPT ![c] = r] /\ computed' = [computed EXCEPT ![c] = Chart(r.id, r)]
        /\ UNCHANGED <<bars, answered>>
    BY <1>3 DEF ChartFetch
  <2>3. asked' \in [Client -> ChartRequests \cup {NoChart}] /\ computed' = [d \in Client |-> computed'[d]]
    BY <2>2
  <2>4. /\ asked'[c] = r /\ computed'[c] = Chart(r.id, r)
        /\ \A d \in Client : d # c => asked'[d] = asked[d] /\ computed'[d] = computed[d]
    BY <2>2
  <2>5. asked'[c] # NoChart /\ computed'[c] # NoChart /\ computed'[c].k \in ChartType
    BY <2>1, <2>4, NoChartIsNone
  <2>6. QED
    BY <2>2, <2>3, <2>4, <2>5
<1>4. ASSUME NEW c \in Client, ChartStore(c)
      PROVE  ChartsInv'
  <2>1. asked[c] \in ChartRequests /\ computed[c].k \in ChartType
    BY <1>4 DEF ChartStore
  <2>2. ChartKey(asked[c]) \in ChartKeys
    BY <1>1, <2>1
  <2>3. /\ bars' \in {bars, [bars EXCEPT ![ChartKey(asked[c])] = computed[c]]}
        /\ answered' = [answered EXCEPT ![c] = [request |-> asked[c], response |-> computed[c]]]
        /\ asked' = [asked EXCEPT ![c] = NoChart] /\ computed' = [computed EXCEPT ![c] = NoChart]
    BY <1>4 DEF ChartStore, Answer
  <2>4. DOMAIN bars' = ChartKeys /\ bars' = [k \in ChartKeys |-> bars'[k]]
        /\ \A k \in ChartKeys : bars'[k] = bars[k] \/ bars'[k] = computed[c]
    BY <2>2, <2>3
  <2>5. answered' = [d \in Client |-> answered'[d]] /\ answered'[c].request \in ChartRequests
        /\ \A d \in Client : d # c => answered'[d] = answered[d]
    BY <2>1, <2>3
  <2>6. asked' \in [Client -> ChartRequests \cup {NoChart}] /\ computed' = [d \in Client |-> computed'[d]]
        /\ asked'[c] = NoChart /\ computed'[c] = NoChart
        /\ \A d \in Client : d # c => asked'[d] = asked[d] /\ computed'[d] = computed[d]
    BY <2>3
  <2>7. QED
    BY <2>1, <2>4, <2>5, <2>6
<1>5. ASSUME NEW k \in ChartKeys, ChartExpire(k)
      PROVE  ChartsInv'
  <2>1. bars' = [bars EXCEPT ![k] = NoChart] /\ UNCHANGED <<asked, computed, answered>>
    BY <1>5 DEF ChartExpire
  <2>2. DOMAIN bars' = ChartKeys /\ bars' = [j \in ChartKeys |-> bars'[j]]
        /\ \A j \in ChartKeys : bars'[j] = bars[j] \/ bars'[j] = NoChart
    BY <2>1
  <2>3. QED
    BY <2>1, <2>2
<1>6. CASE UNCHANGED chartVars
  BY <1>6 DEF chartVars
<1>7. QED
  BY <1>2, <1>3, <1>4, <1>5, <1>6 DEF ChartsNext

\* The chart cache starts empty.
LEMMA ChartsStart == ChartsInit => ChartsInv
BY DEF ChartsInit, ChartsInv, ChartsTypeOK

-----------------------------------------------------------------------------
(* The whole server *)

\* Every part of a behaviour of Spec behaves as the part alone.
LEMMA PartsAlone == Spec => DbSpec /\ AccountsSpec /\ TrendSpec
<1>1. Init => DbInit /\ AccountsInit /\ TrendInit
  BY DEF Init
<1>2. [Next]_parts => [DbNext]_db /\ [AccountsNext]_accountVars /\ [TrendNext]_trendVars
  BY DEF Next, parts, MarketStep, ChartsStep, AccountsStep, TrendStep
<1>3. QED
  BY <1>1, <1>2, PTL DEF Spec, DbSpec, AccountsSpec, TrendSpec

\* The chart cache in the whole server.
LEMMA ChartsTyped == Spec => []ChartsInv
<1>1. Init => ChartsInv
  BY ChartsStart DEF Init
<1>2. MCChartRequests \subseteq ChartRequests
  BY DEF MCChartRequests
<1>3. ChartsInv /\ [Next]_parts => ChartsInv'
  <2> SUFFICES ASSUME ChartsInv, [Next]_parts
               PROVE  ChartsInv'
    OBVIOUS
  <2>1. [ChartsNext(MCChartRequests)]_chartVars
    BY DEF Next, parts, MarketStep, ChartsStep, AccountsStep, TrendStep
  <2>2. QED
    BY <1>2, <2>1, ChartsStayTyped
<1>4. QED
  BY <1>1, <1>3, PTL DEF Spec

\* Every value of the market, the charts, the profiles and the trend list has its type,
\* whatever clients, admins, servers and the indexer do, for any number of each
\* (controllers/trading, services/account, controllers/cms).
THEOREM TypeCorrect == Spec => []TypeOK
<1>1. TrendInv => TrendTypeOK
  BY DEF TrendInv
<1>2. ChartsInv => ChartsTypeOK
  BY DEF ChartsInv
<1>3. QED
  BY <1>1, <1>2, PartsAlone, ChartsTyped, DbTypeCorrect, AccountsTypeCorrect, TrendTypeCorrect, PTL DEF TypeOK

\* What the runs of MCMarket and MCFeed check of tables, feed, caches, profiles and the trend list
\* together holds for any number of tokens, accounts, blocks, requests, servers and admins
\* that share the server.
THEOREM ServerHolds ==
  Spec => /\ FeedFrozen
          /\ [](FeedPaged /\ PairsResolve /\ PagesAddUp /\ ListsAgree /\ KeysSeparate)
          /\ [](ProfileStands /\ NewestListStands)
<1>1. Spec => DbSpec /\ AccountsSpec /\ TrendSpec
  BY PartsAlone
<1>2. DbSpec => FeedFrozen /\ []FeedPaged /\ []PairsResolve /\ []PagesAddUp /\ []ListsAgree /\ []KeysSeparate
  BY FeedStands, FeedIsComplete, EventsResolve, PagesAreComplete, AnswersAreOne, KeysAreSafe
<1>3. AccountsSpec => []ProfileStands
  BY WrittenFieldsStand
<1>4. TrendSpec => []NewestListStands
  BY LastListStands
<1>5. QED
  BY <1>1, <1>2, <1>3, <1>4, PTL

=============================================================================
