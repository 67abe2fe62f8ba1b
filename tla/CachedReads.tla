---------------------------- MODULE CachedReads ----------------------------
(***************************************************************************)
(* The keys under which the read endpoints keep their answers.  A service   *)
(* asks Redis under one key; the controller below it keeps what it computes *)
(* in the process under another (with_cache).  ResponseCache has the timing *)
(* of both; here a request is a record of everything the caller may choose, *)
(* so that a parameter a key leaves out shows as two requests with one key: *)
(* the type of a chart in Redis (ChartCache), the blanks around a search in *)
(* the process (SearchCache).  What else is kept in Redis, sessions, API    *)
(* keys and image verdicts, belongs to other modules.                       *)
(***************************************************************************)
EXTENDS TradeReads

CONSTANTS
    AskedPage,    \* pages that are asked for
    AskedLimit,   \* page lengths that are asked for
    MaxLimit,     \* MAX_LIMIT
    MaxCountback, \* MAX_CHART_LIMIT
    SwapQueries,  \* records [direction, trade_type, volume_ranges, account_id, page, limit]
    Time,         \* seconds: from and to of a chart
    Word,         \* texts that are searched for
    Padding,      \* whether clients send blanks around a search: FALSE, TRUE
    SymbolHas,    \* SymbolHas[w, padded]: tokens whose symbol holds w, with the blanks
    NameHas,      \* tokens whose name does
    NicknameHas   \* accounts whose nickname does

Direction == {"ASC", "DESC"}

\* deserialize_page: pages count from 1, anything else is refused.
Page == {n \in AskedPage : n >= 1}

\* deserialize_limit
Limit == {n \in AskedLimit : n >= 1 /\ n <= MaxLimit}

\* deserialize_chart_limit
Countback == {n \in AskedLimit : n >= 1 /\ n <= MaxCountback}

\* SwapQuery that validate accepts; without account_id it is 0.
SwapQuery ==
    [direction : Direction, trade_type : TradeType, volume_ranges : SUBSET VolumeRange,
     account_id : Nat, page : Page, limit : Limit]

\* Pages and page lengths are read as numbers, of either sign.
ASSUME AskedAssumption == AskedPage \subseteq Int /\ AskedLimit \subseteq Int /\ MaxLimit \in Nat

ASSUME SwapQueriesAssumption == SwapQueries \subseteq SwapQuery

ASSUME PaddingAssumption == Padding \subseteq BOOLEAN

\* A text that holds the padded word holds the word.
ASSUME WordsAssumption ==
    /\ SymbolHas \in [Word \X Padding -> SUBSET Token]
    /\ NameHas \in [Word \X Padding -> SUBSET Token]
    /\ NicknameHas \in [Word \X Padding -> SUBSET Account]
    /\ Padding = BOOLEAN => \A w \in Word :
        /\ SymbolHas[w, TRUE] \subseteq SymbolHas[w, FALSE]
        /\ NameHas[w, TRUE] \subseteq NameHas[w, FALSE]
        /\ NicknameHas[w, TRUE] \subseteq NicknameHas[w, FALSE]

\* Requests with an address and pagination.
Paged(endpoint, Id) ==
    [endpoint : {endpoint}, id : Id, page : Page, limit : Limit, direction : Direction]

OrderRequests ==
    [endpoint : {"order"}, type : OrderType, page : Page, limit : Limit,
     direction : Direction, is_nsfw : BOOLEAN]

SwapRequests == [endpoint : {"swap_history"}, id : Token, query : SwapQueries]

\* Requests with nothing but the address of a token.
TokenRequests ==
    [endpoint : {"token", "token_metadata", "market", "terminal_metadata", "token_exists"}, id : Token]

ChartRequests ==
    [endpoint : {"chart"}, id : Token, resolution : {"1", "60"}, from : Time, to : Time,
     countback : Countback, chart_type : {"price", "market_cap"}]

MetricRequests == [endpoint : {"metrics"}, id : Token, timeframe : {Day}]

BoardRequests == [endpoint : {"leaderboard"}, page : Page, limit : Limit]

EventRequest == [endpoint |-> "new_event"]

\* What is searched for, as it is sent: the address of a token or account, or a word.
\* Letters are taken as small: ILIKE and valid_account_id do not tell them apart.
SearchQuery ==
    [by : {"address"}, of : Token \cup Account, padded : Padding]
    \cup [by : {"word"}, of : Word, padded : Padding]

\* Page and limit of a search are applied to the copy in Redis only, see SearchHit.
SearchRequests == [endpoint : {"search"}, query : SearchQuery]

\* A count or a profile that a controller keeps on its own.
CountRequests ==
    [endpoint : {"token_holder_count"}, id : Token]
    \cup [endpoint : {"swap_count_by_account", "token_created_count", "account"}, id : Account]

\* Requests of the read endpoints that Redis may answer.  The trend list is not among
\* them: it has one key and one request, in Redis and in the process.
RedisRequests ==
    OrderRequests \cup Paged("holder", Token) \cup Paged("hold_token", Account)
    \cup Paged("create_token", Account) \cup Paged("account_swaps", Account)
    \cup SwapRequests \cup TokenRequests \cup ChartRequests \cup BoardRequests
    \cup SearchRequests \cup {EventRequest}

\* Requests of the controllers whose answer the process may hold.
MokaRequests ==
    OrderRequests \cup Paged("holder", Token)
    \cup Paged("create_token", Account) \cup Paged("account_swaps", Account)
    \cup [endpoint : {"token", "token_metadata", "market"}, id : Token]
    \cup ChartRequests \cup MetricRequests \cup CountRequests
    \cup SearchRequests \cup {EventRequest}

----------------------------------------------------------------------------
(* Redis *)

\* get_order_response, set_order_response
OrderResponseKey(r) == <<"order", r.type, r.page, r.limit, r.direction, r.is_nsfw>>

\* get_account_hold_token, set_account_hold_token
HoldTokenKey(r) == <<"hold_token", r.id, r.page, r.limit>>

\* Mutant: the page is not part of the key.
TokenCreatedKey_unpaged(r) == <<"create_token", r.id, r.limit>>

\* get_account_token_created, set_account_token_created
TokenCreatedKey(r) == <<"create_token", r.id, r.page, r.limit>>

\* get_token_response, set_token_response
TokenResponseKey(r) == <<"token", r.id>>

\* get_token_metadata, set_token_metadata
TokenMetadataKey(r) == <<"token_metadata", r.id>>

\* get_token_swap_history, set_token_swap_history: the whole query, as Debug prints it.
TokenSwapHistoryKey(r) == <<"swap_history", r.id, r.query>>

\* get_token_holder_response, set_token_holder_response
HolderKey(r) == <<"holder", r.id, r.limit, r.page>>

\* get_terminal_metadata, set_terminal_metadata
TerminalMetadataKey(r) == <<"terminal_metadata", r.id>>

\* get_token_exists, set_token_exists
TokenExistsKey(r) == <<"token_exists", r.id>>

\* get_market, set_market
MarketKey(r) == <<"market", r.id>>

\* get_account_swap_history, set_account_swap_history
AccountSwapHistoryKey(r) == <<"account_swaps", r.id, r.page, r.limit>>

\* get_pnl_leaderboard_response, set_pnl_leaderboard_response
LeaderboardKey(r) == <<"leaderboard", r.page, r.limit>>

\* get_new_event, set_new_event
NewEventKey == <<"new_event">>

\* get_prices, set_prices: neither countback nor the chart type.
ChartKey(r) == <<"chart", r.id, r.resolution, r.from, r.to>>

\* get_search_response, set_search_response: the query as it was sent.  Tokens and
\* accounts have a key each, which a copy needs both of.
SearchResponseKey(r) == <<"search", r.query>>

RedisKey(r) ==
    CASE r.endpoint = "order" -> OrderResponseKey(r)
      [] r.endpoint = "hold_token" -> HoldTokenKey(r)
      [] r.endpoint = "create_token" -> TokenCreatedKey(r)
      [] r.endpoint = "token" -> TokenResponseKey(r)
      [] r.endpoint = "token_metadata" -> TokenMetadataKey(r)
      [] r.endpoint = "swap_history" -> TokenSwapHistoryKey(r)
      [] r.endpoint = "holder" -> HolderKey(r)
      [] r.endpoint = "market" -> MarketKey(r)
      [] r.endpoint = "account_swaps" -> AccountSwapHistoryKey(r)
      [] r.endpoint = "leaderboard" -> LeaderboardKey(r)
      [] r.endpoint = "new_event" -> NewEventKey
      [] r.endpoint = "chart" -> ChartKey(r)
      [] r.endpoint = "search" -> SearchResponseKey(r)
      [] r.endpoint = "terminal_metadata" -> TerminalMetadataKey(r)
      [] r.endpoint = "token_exists" -> TokenExistsKey(r)

\* Mutant: pages count from 0.
SearchHit_skip(kept, page, limit) ==
    IF kept.tokens = <<>> \/ kept.accounts = <<>> THEN {}
    ELSE {[kept EXCEPT !.tokens = PageOf(@, page + 1, limit), !.accounts = PageOf(@, page + 1, limit)]}

\* get_search_response: a page of the answer that is kept; one with an empty half is
\* not used.
SearchHit(kept, page, limit) ==
    IF kept.tokens = <<>> \/ kept.accounts = <<>> THEN {}
    ELSE {[kept EXCEPT !.tokens = PageOf(@, page, limit), !.accounts = PageOf(@, page, limit)]}

----------------------------------------------------------------------------
(* The process *)

\* cache_key! of the controllers.  The swaps of a token, the tokens an account holds and
\* the leaderboard have none.  A search has its query without the blanks around it.
MokaKey(r) ==
    CASE r.endpoint = "order" -> <<"order", r.type, r.direction, r.page, r.limit, r.is_nsfw>>
      [] r.endpoint \in {"holder", "create_token", "account_swaps"} ->
            <<r.endpoint, r.id, r.page, r.limit>>
      [] r.endpoint \in {"token", "token_metadata", "market", "token_holder_count",
                         "swap_count_by_account", "token_created_count", "account"} ->
            <<r.endpoint, r.id>>
      [] r.endpoint = "chart" -> <<"chart", r.id, r.resolution, r.to, r.countback, r.chart_type>>
      [] r.endpoint = "metrics" -> <<"metrics", r.id, r.timeframe>>
      [] r.endpoint = "new_event" -> <<"new_event">>
      [] r.endpoint = "search" -> <<"search", r.query.by, r.query.of>>

----------------------------------------------------------------------------
(* Answers *)

\* fetch_search_results: an address is recognised without the blanks around it, but
\* looked up with them, and no row has such an id.
SearchAnswers(q) ==
    CASE q.by = "address" /\ q.padded -> {SearchResults(<<>>, <<>>)}
      [] q.by = "address" /\ ~q.padded -> {SearchAddress(q.of)}
      [] q.by = "word" ->
            {SearchResults(found, accounts) :
                found \in SearchTokens(SymbolHas[q.of, q.padded], NameHas[q.of, q.padded]),
                accounts \in SearchAccounts(NicknameHas[q.of, q.padded])}

\* The answers request r may get when no copy of one exists.
AnswersOf(r) ==
    CASE r.endpoint = "order" -> {Order(r.type, r.direction, r.is_nsfw, r.page, r.limit)}
      [] r.endpoint = "holder" -> {Holders(r.id, r.page, r.limit)}
      [] r.endpoint = "hold_token" -> {Holdings(r.id, r.page, r.limit)}
      [] r.endpoint = "create_token" -> {CreatedTokens(r.id, r.page, r.limit)}
      [] r.endpoint = "account_swaps" -> {SwapHistory(r.id, r.page, r.limit)}
      [] r.endpoint = "swap_history" -> {TokenSwaps(r.id, r.query)}
      [] r.endpoint = "token" -> {TokenInfo(t) : t \in {r.id} \cap DOMAIN token}
      [] r.endpoint = "token_metadata" -> {TokenMetadata(t) : t \in {r.id} \cap Listed}
      [] r.endpoint = "market" -> {MarketInfo(t) : t \in {r.id} \cap DOMAIN market}
      [] r.endpoint = "chart" -> {Chart(r.id, r)}
      [] r.endpoint = "metrics" -> {Metrics(t, <<r.timeframe>>) : t \in {r.id} \cap Listed}
      [] r.endpoint = "leaderboard" -> Leaderboard(r.page, r.limit)
      [] r.endpoint = "new_event" -> NewEvents
      [] r.endpoint = "search" -> SearchAnswers(r.query)
      [] r.endpoint = "terminal_metadata" -> {TokenInfo(t) : t \in {r.id} \cap DOMAIN token}
      [] r.endpoint = "token_exists" -> {r.id} \cap DOMAIN token
      [] r.endpoint = "token_holder_count" -> {HolderCount(r.id)}
      [] r.endpoint = "swap_count_by_account" -> {AccountSwapCount(r.id)}
      [] r.endpoint = "token_created_count" -> {CreatedCount(r.id)}
      [] r.endpoint = "account" -> {r.id}

\* Sets of requests that are given each other's answer.
Shared(Requests, Key(_)) ==
    {S \in {{s \in Requests : Key(s) = Key(r)} : r \in Requests} : Cardinality(S) > 1}

\* Searches with blanks around the query.
PaddedSearches == {r \in SearchRequests : r.query.padded}

SharedRequests ==
    Shared(RedisRequests \ ChartRequests, RedisKey) \cup Shared(MokaRequests \ PaddedSearches, MokaKey)
=============================================================================
