# Verification of the api-server

The api-server is a Rust (axum, tokio) HTTP service in front of an indexer's
Postgres database: wallets log in with a signed nonce, integrations use API
keys, everybody reads lists and charts that are cached twice, and a token
creator asks for a CREATE2 salt that gives a vanity address. This directory
holds TLA+ models of the parts of it that keep state or race, TLC instances
that check them, and TLAPS proofs of the most important results.

Paths are relative to the repository (`src/services/...` is the Rust crate's
own `src`).

## 1. The system

Several server processes run the same binary against one Postgres primary, read
replicas of it (`get_read_pool`), one Redis and one R2 bucket. Shared state is
in those stores; each process has one in-process cache (`GLOBAL_CACHE`, moka)
and a handful of background tasks. Every handler is a tokio future: it can be
dropped at any `.await` by `method_based_timeout` (`main.rs:335`), while a
statement or command it has sent goes on at the store. Most Redis and Postgres
calls have a timeout of their own (`config.rs:100-109`, `measure_redis!`,
`measure_postgres!`). Those of the API keys, of their usage, of the rate limiter,
of the existence check of tokens and the SELECTs of the search have none; the
gate, which makes the first three, is outside `method_based_timeout` as well
(`main.rs:305-309`), so nothing on our side bounds when its commands run.

| Component | State | Operations | Talks to |
|---|---|---|---|
| Login nonce (`controllers/auth/nonce.rs`, `services/auth`) | table `auth_nonce`, one row per address | `generate_nonce` upserts; `create_session` takes with DELETE ... RETURNING and one retry | Postgres; Sessions |
| Sessions (`controllers/auth/session.rs`, `middleware.rs`) | table `account_session`, Redis `session:{id}:id` | `create_session` (both stores, `try_join!`), `resolve_session_address` (Redis, replica, re-cache), `delete_session` (both, `join!`) | every authenticated handler |
| Salt mining (`services/token/salt.rs`) | per request: an `AtomicBool`, a mutex | rayon search in a blocking task | agent and token handlers |
| Rate limiter (`services/rate_limiter.rs`) | Redis `rate:{id}:min:{minute}` | `check_and_increment` | `api_key_gate` |
| API keys (`services/api_key.rs`) | table `api_keys`, Redis `api_key:{hash}` | create, validate, delete by owner | `api_key_gate`, key handlers |
| API key usage (same file, `main.rs:270`) | Redis `apikey:usage:{hash}`, column `request_count` | `update_last_used`, `sync_api_key_usage_to_db` | gate, background task per server |
| Response caches (`utils/single_flight.rs`, every `services/*` GET) | Redis entries, `GLOBAL_CACHE` | Redis GET, `with_cache` (single flight), SET | all list services |
| Trend list (`services/trend`, `services/cms`) | table `trend`, table `admin`, both caches | GET /trend, POST /cms/trend/insert | CMS, Response caches |
| CMS metadata (`services/cms`) | R2 object, token row | read-modify-write, COALESCE update | R2, contract RPC |
| Metadata upload, moderation | R2, NSFW verdict kept 3 minutes | upload image, upload metadata | R2, AWS |
| Accounts and wallets (`controllers/account`, `services/account`) | table `account`, Redis `account:info`, in-process copies | GET inserts a default row it does not find, PATCH sets fields | primary, replica, Redis |
| Token, order and search queries (`controllers/token`, `controllers/search`) | none of their own | order lists, created tokens, holders, search, each with a page and a total | Postgres; Response caches |
| Trading, profile, leaderboard and new-event queries (`controllers/trading`, `controllers/leaderboard`, `controllers/new_event`) | none of their own | holdings, swap histories with filters, metrics, charts, ticker, ranking | Postgres; Response caches |
| CMS analytics (`controllers/cms/analytics.rs`) | none of its own | churn, new users, return on investment | Postgres |
| Terminal feed (`services/terminal`, `controllers/terminal`) | none of its own | latest block, events of a block range, pair, asset | Postgres, contract RPC |
| HTTP shell (`main.rs`, `cors.rs`, routers) | configuration | timeouts, startup flush | everything |

What is hard in it: a statement abandoned by a timeout that still runs; reads
of a replica that is behind the primary the same request wrote to; two stores
written by one operation, either of which may fail; cache entries written by a
reader that is older than the writer that just removed them; counters that
several servers take from one Redis; closures on several threads sharing a
relaxed flag; answers put together from several statements, stored counters and
about forty hand-written cache keys. `PROJECT.json` lists each of these at its line under `hazards`.

What makes each component right:

- nonce: one login per nonce, only for its wallet; a late row is not a refusal;
  a retry never takes a newer nonce.
- session: whoever vouches for a session, it is its own account; a logout ends
  that session and no other; an ended session is dead in the end.
- salt: the answer is a matching salt in range, and "not found" is the truth.
- limiter: of the requests whose INCR runs in time never more than the limit per
  minute, never a refusal below it.
- keys: no key passes that was not issued or had expired; a deleted key dies.
- usage: never counts what was not served, loses nothing while nothing fails.
- caches: bounded age of every answer, no waiter without a loader.
- trend: the list stored last stands in full and in order, whatever ran beside it.
- accounts: what a user wrote stays, whatever default rows and other edits do.
- queries: the pages of a list and its total describe the same rows; two endpoints
  say the same of the same thing; no request gets the copy of another question,
  charts in Redis and padded searches in the process excepted.
- search: whichever cache answers, a query gets what it finds.
- feed: what was said of a sealed block never changes, no block is lost by how ranges
  are chosen, and every id in it resolves.
- metadata: nothing published names something that is not stored; the verdict of
  the moderation is the one of the image; edits keep object and row alike.

## 2. The modules

| Module | Models | Lines it translates |
|---|---|---|
| `Nonce` | login nonce | `nonce.rs`, `services/auth/mod.rs` up to the nonce check |
| `OneTimeGrant` | what the nonce store promises: a message is granted once, to its owner | abstract |
| `Session` | both session stores, lookup, logout | `services/auth/mod.rs`, `middleware.rs:34-115` |
| `SaltMining` | the parallel search | `salt.rs` |
| `AnyMatch` | what the search promises: one answer, a match if there is one | abstract |
| `RateLimiter` | `check_and_increment` and its Redis counters | `rate_limiter.rs`, `redis/mod.rs:1112-1131` |
| `ApiKeys` | keys, their Redis copies, the replica | `api_key.rs`, `middleware.rs:210-275` |
| `ApiUsage` | counting and the sync loops | `api_key.rs:152-217`, `main.rs:270-282` |
| `ResponseCache` | the read path of the GET services, with time | `single_flight.rs` and its callers |
| `TrendList` | concurrent replacements of table `trend` inside Postgres | `controllers/cms/mod.rs` (`insert_trend_with_admin_check`), `types/cms` |
| `Accounts` | profiles on primary, replica and in Redis, GET and PATCH | `controllers/account`, `services/account` |
| `MarketDb` | the market tables and the indexer that fills them | external, from the statements that read them |
| `TokenReads` | order lists, trend tokens, holders, holdings, created tokens, search | `controllers/token`, `controllers/trading/position.rs`, `controllers/search`, `controllers/trend` |
| `TradeReads` | swap histories, metrics, charts, ticker, leaderboard | `controllers/trading`, `controllers/new_event`, `controllers/leaderboard` |
| `Analytics` | the CMS statistics | `controllers/cms/analytics.rs` |
| `TerminalFeed` | events, pairs, assets, latest block | `services/terminal`, `controllers/terminal` |
| `CachedReads` | every request, its key in Redis, its key in the process, its answers | `db/redis/mod.rs`, `cache_key!` of the controllers, the query types |
| `SearchCache` | GET /search through Redis and the process, step by step | `services/search`, `controllers/search`, `db/redis/mod.rs:247-348` |
| `ChartCache` | the charts in Redis, step by step | `services/trading/chart.rs`, `db/redis/mod.rs` |
| `Market` | what these endpoints promise together | properties only |
| `MetadataUpload` | image upload, verdict, metadata request | `services/metadata`, `services/moderation`, `db/r2`, `controllers/metadata` |
| `CmsMetadata` | extends it by the token, its admin edits and its NSFW flag | `services/cms/mod.rs:44-64,116-315`, `controllers/cms/mod.rs:31-64,107-173` |
| `MarketProofs` | theorems about the parts of `MCMarket`: tables, feed, keys, lists, sums, pages, answers that must agree, charts, profiles, trend list | |
| `ApiKeysProofs` | theorems about `ApiKeys` and `ApiUsage`, which share no name | |
| other `*Proofs` | the theorems about the module they are named after | |
| `MCLogin` | instance of `Nonce` and `Session` side by side | |
| `MCGate` | instance of `ApiKeys` and `RateLimiter`, the two checks of `api_key_gate` | |
| `MCMarket` | instance of the market with the charts, the profiles and the trend list | |
| `MCFeed` | instance of the feed, and of searches over tables that stand still | |
| other `MC*` | instances of the module they are named after | |

`CmsMetadata` composes with `MetadataUpload`: it extends the module, and its
`Next` lets the uploads go on between the steps of an edit; the objects and the
images in R2 are shared. `TokenReads`, `TradeReads`, `CachedReads`, `Analytics`
and `TerminalFeed` all read the tables of `MarketDb`, and `Market` compares what
they answer in one state. `SearchCache` puts the two caches of the search over
the searches of `CachedReads`; its tables stand still, so that a wrong answer is
not an old one. `MCMarket` puts four parts side by side: the market, the charts
in Redis (computed from tables that stand still), the profiles and the trend
list; no variable is changed by two of them, and `part` says which of them moves
in a behaviour, since a step of one changes nothing the properties of another
look at. `MCLogin`, `MCGate` and `MCFeed` do the same with two parts each. The
remaining modules do not import each other's state. Where two components meet,
one of them carries the other's contribution as an action: `ApiUsage!Accept`
stands for the gate of `ApiKeys` and spawns the counter task;
`Session!StartLogin` is the continuation of an accepted `Nonce` login; GET
/trend is `ResponseCache` with the SET inside the load, over the query
`TokenReads!TrendTokens`.

How state and actions correspond to the code:

- **A request** has a program counter. One action runs from one `.await` to the
  next, with everything the code does in between. Several requests in one
  module are concurrent futures, on the same or on different servers.
- **Timeouts and dropped handlers** are alternatives of the action that waits
  (`GiveUp`, `Drop`, `FailLogin`, `DropLeader`). What was sent may still run:
  `orphans` in `Nonce`, the `pgWrite`/`redisWrite` of a failed login in
  `Session`, `OrphanSet` in `ResponseCache`.
- **The replica** is a second copy of a table and `wal` (or `feed`), the changes
  it has not applied, in commit order. It is modelled from how the code uses
  `get_read_pool`, and marked external in the map.
- **Redis TTLs** in `Session`, `ApiKeys`, `Accounts`, `ChartCache` may run out at any
  moment, which includes every real duration; in `RateLimiter` (minutes) and
  `ResponseCache` (ticks) the durations matter and there is a clock.
- **`flush_all`** at start (`main.rs:266`) is `Restart`/`Flush`. In `Session` it
  may remove any subset: with an empty `REDIS_KEY_PREFIX` it removes nothing, and
  its SCAN loop may fail midway.
- **Hashes and random values** are model values (fresh nonce messages, session
  ids, API keys) or arbitrary sets (`vanity`: the salts whose address has the
  suffix). keccak256, CREATE2, SHA-256 and signature recovery are not modelled.
- **Relaxed atomics**: a load of `found` returns FALSE or the current value
  (`Loaded`); it never returns TRUE before a store of TRUE.
- **Writes to R2** have no version. An edit abandoned while its put or its UPDATE
  is on its way becomes "latePut" or "lateUpdate": that write lands later, or
  never. For the uploads, whose uuid nobody else writes, both outcomes are chosen
  at once. The indexer, the contract and the admin table are external; an image
  or an object is fetched as it was last written (no CDN copy).
- **`overlapped` and `behind`** in `CmsMetadata` are history variables: they only
  say for which tokens `ObjectMatchesRow` promises something.
- **A read endpoint** is an operator over the tables. One SELECT is one operator;
  where its ORDER BY leaves rows tied, Postgres may return any of several lists,
  and the operator gives the set of them (`Orders`). A row is reduced to the
  columns it is ordered, filtered and counted by.
- **The indexer** is external: no code of the repository writes those tables. Its
  actions (`DbNext`) are what the statements, their comments and the rows seeded
  by the tests rely on: the rows of a block are committed together, a row's
  account and quote exist, `swap`, `mint`, `burn` and `price_history` only grow, a
  market goes from CURVE to DEX once. Endpoints are compared when a block was
  committed (`Committed`), which is when a replica can show it.
- **Time of a block**: `Second` lets two blocks share a second, because columns
  `created_at` are seconds and several statements order by them.
- **A search** is for an address or a word, with blanks around it or without; which
  texts hold the word is a constant (`SymbolHas`, ...), free but for the fact that
  a text that holds the padded word holds the word. Letters are taken as small.
- **A trade without a price**: `convert_swap_event` divides, and `BigDecimal` panics
  on zero (`PriceFails`). The panic ends the request without an answer, so
  `GetEvents` of a range with such a trade is empty, as it is for a refused range.
- **A cache key** is a tuple of the parameters the code formats into it, and a
  request a record of everything its caller may choose, so that a parameter a key
  leaves out shows as two requests with one key.
- **READ COMMITTED** in `TrendList`: a statement has a snapshot from `Begin` for
  its DELETE, and meets the rows of its end for INSERT ... ON CONFLICT. In
  `Accounts` an upsert's SELECT sees the table as it was before its own INSERT.
- **`setInLoad`** in `ResponseCache` is chosen once per behaviour: FALSE for the
  services that write Redis after `with_cache` answered (charts, orders, new
  events, search, ...), TRUE for `TrendService`, whose load contains the SET.

## 3. The runs

| Run | Instance | Question it answers |
|---|---|---|
| `login` | 2 wallets, 2 messages, 2 attempts; 2 accounts, 2 logins (the first of a fixed account), 2 requests | nonce, with late rows, expiry, timeouts and abandoned DELETEs: used once, recovered when late, newer nonces spared, always answered, and implements `OneTimeGrant`, which grants a message to its owner only. Session: always its own account; only a newer login or its own logout ends a session; an ended session dies for good |
| `session_logout` | 1 account, 1 login, 2 requests | violated: a request is served after the logout was answered |
| `salt` | 5 indices in chunks of 2, 8 salts, all vanity sets and starts | every search ends, and implements `AnyMatch`: the truth of success and failure, one answer that stays |
| `gate` | 2 accounts, 1 key, 3 requests, maximum 1; 2 calls, limits 1 and 2, 4 minutes, 1 flush | keys: validation on both paths, death of a deleted key. Rate: calls whose INCR runs in their minute or the next keep the limit, whatever INCRs come later; a refusal is justified |
| `api_keys_max` | 1 account, 2 keys, 2 requests, maximum 1 | violated: an account has more keys than the maximum |
| `usage` | 2 keys, 2 servers, 2 uses per key, 1 restart | never over, exact without fault, drained |
| `cache` | 2 servers, 2 requests, every duration 1 tick, 5 ticks, both kinds of service | staleness bound, no lost waiter |
| `cms_metadata` | 1 token, 1 uploaded image and 1 image of an edit, 2 concurrent edits, 1 text field with 2 values, 1 account that gains and loses the admin right | dangling uris, the way of the verdict, repair after failures, moderation against edits, kept texts |
| `market` | 2 tokens, 2 accounts, every history of 3 rows in 2 blocks; 2 clients of the charts; 1 profile, 2 requests, 2 edits; 2 admins, 2 overlapping trend lists of up to 2 tokens, 3 commits | `PagesAddUp`: pages hold each row once and as many as the total says. `ListsAgree`: endpoints that say the same thing say it alike. `KeysSeparate`: no key serves two different answers, but for the two kinds of request that `chart_key` and `search_key` are about. `ProfileStands`, `NewestListStands` |
| `chart_key` | the same, charts of one token and range, two types | violated: a chart of one type is answered with the bars of another |
| `feed` | 2 tokens, 1 account, every history of 4 rows in 2 blocks, the quote on either side; 1 word and 1 address without blanks, 2 clients, pages 1 and 2 | `FeedPaged`: read block by block or at once, the feed is the same, and only a block with an unpriced trade has no answer. `PairsResolve`: what is delivered resolves and has a price. `FeedFrozen`: it never changes. `SearchFinds`: a query gets what it finds, whole or by the page, from whichever cache |
| `search_key` | the same, with and without blanks | violated: a padded search leaves its answer, nothing for an address, to the clean one |

Every property of a passing run has a mutant in `PROJECT.json`: a plausible
change of the code (a dropped WHERE column, a SELECT for a DELETE, a TTL that is
too short, a chunk border off by one, an unlocked store, GET for GETSET) under
which TLC finds the property violated. The mutated operators are in the modules,
before the definition they replace and marked `Mutant`; no action uses them.

**Bounds and why they are enough.** Two racing requests per critical section
show every pairwise race; there are three where a third party matters (API keys: a
validation, a deletion and a re-creation of the copy). In `gate` two calls pass or
exceed the limit of 1 and stay within the limit of 2. Two accounts are needed
to confuse owners (in `login` the first login is of account `a1`: accounts are
interchangeable, so this leaves nothing out), two keys to let a sync loop hold one while the other moves,
two servers to let copies and sync loops disagree. `MAX_API_KEYS_PER_ACCOUNT` is
1 instead of 5 and the limits are 1 and 2 instead of 10 and 100: the code
compares, it does not depend on the value, and `RateLimiterProofs` covers every
limit. In `salt` the last chunk is short and the salt space is small enough for
the start to wrap, which the code does with `wrapping_add` and nobody will ever
observe at 2^256. `cache` runs to tick 5, one more than the longest bound
`MaxAge` of the instance, so that a violation has room. In `cms_metadata` two
edits overlap in every way, and each slot edits again after it is done; two
values tell an old text from a new one, and an edit that leaves the field alone
stands for one of another field; a second token would share nothing with the
first. Slots and texts are symmetric. Named bounds that are not
in the code: `MaxMinute`, `MaxFlush`, `MaxUses`, `MaxTime`, `MaxInserts`,
`MaxEdits`, `MaxBlock`, `MaxRows`.

In `market` and `feed` the addresses are integers with the quote between the two
tokens, so that it is asset0 of one pool and asset1 of the other. In `market` the
first token is the smaller one: lists, totals and keys do not see the order of a
pool's assets. There three rows are enough for
a page of one or two rows to be followed by another one, for a purchase and the
sale that undoes it, for a graduation between two trades, for two rows of the
same second and amount (a tie) and for liquidity that enters and leaves; the two
amounts lie in different volume ranges, and half of the smaller one rounds down
to nothing. Two blocks, which share a second, let a cutoff fall before, between
and after them. Account 1 created the first token and either account creates the
second: the queries tell accounts apart only by their order and by what they
own, and the histories give account 1 one token or both, account 2 one or none.
Creation, opening of a pool, purchase and sale are four rows, so `feed`, where
order and price by order are the question, has four and starts with either token:
trades in both directions occur in pools of both orders, among them the sale
whose zero amount is the divisor and the one whose zero amount is not. It has
one account, which nothing in an event is compared by.
Pages 0 to 2 and lengths 0 to 3 include both values the deserializers refuse (0,
and 3 above `MaxLimit`); the totals are compared over all pages a list of that
length has, and one more. The search returns one row per statement (`MaxFound`),
so that a union of two and a cut both happen. Two charts of the same token and
range are enough for one key. In the searches of `feed` two clients and a limit of 1 over two
tokens show every order of lookup, search, store and expiry of two requests under
one key; which texts hold the word is chosen so that the padded word finds less
in each of symbol, name and nickname.
`MaxTrendTokens` is 2 instead of 50 and `MarketProofs` covers every value; a
second profile would share nothing with the first.

**Deadlock** is checked in `session_logout`, `cache` and `cms_metadata`, whose
environment can always move. It is not where the instance bounds messages,
requests, keys, uses, minutes or blocks: there the system may come to rest with
everything used up (`login`, `salt`, `gate`, `usage`, `market`, `feed` and the
violated runs beside them).

**Fairness.** `market`, `feed`, `cache` and `cms_metadata` check safety only and
assume none, and nothing is assumed of the rate limiter. In `login` and `gate` a
part that rests is in its first state, where no fair action is possible. Weak
fairness is assumed of what the runtime or a timeout guarantees: a statement
that was sent is answered or times out (`TryTake`, `Recache`, `Query`, `Store`,
`UpdateRow`), a tokio sleep ends (`Wake`), a rayon closure and a spawned task
run (`ChunkStep`, `IncrUsage`), the interval ticks (`Scan`), replication
advances (`Replicate`, `ReplicaApply`), a TTL runs out (`ExpireSession`,
`ExpireCopy`). The only strong fairness is on the GETSET of a usage key: it may
fail, but not every five minutes for ever. GETSET and UPDATE of the sync loop
have no timeout in the code: that they are answered, or fail, in the end is an
assumption on the network and the stores, as it is for the statements of the API
keys. Nothing is assumed of clients: no request has to arrive, and none has to
stop.

What the instances and models take for granted, property by property:
`BoundedStaleness` bounds query and SET by their timeouts (`QueryTime`, `SetTime`)
and an abandoned SET lands within its own; one that Redis ran later still would
add its delay. It tolerates that an invalidation reaches one server only, and says
how long the old list can last. `ObjectMatchesRow` has one token for a
`metadata_uri`; two that share one are not modelled. `PagesAddUp` and `ListsAgree`
look at one state: a block between the statement of the page and that of the
total, or a total the process kept for a second, makes the two differ for that
long. `FeedFrozen` and `FeedPaged` read one replica; of two, the one further
behind may answer second. `ServedAsOwner` and `FlagChangedByAdmin` say what a
single step may do; half-failed logins, restarts and stale values of
`is_nsfw` are the subject of `LogoutSparesNewerSession` and
`EndedSessionsDie`, and only in part of `FlagChangedByAdmin`.

Two details that a reader might miss. `LagBounded` is TRUE in `login`, which
says that replication is faster than `NONCE_REPLICATION_RETRY_DELAY`: the retry
in the code is worth something only then, and `LateNonceRecovered` is stated
under it; all other results about the nonce are proved without it. And
`AcceptedKeyWasLive` speaks of expiry, not of deletion: a deleted key passes for
as long as its copy lives (five minutes) or the replica lags, which the code
accepts; `RevokedKeyDies` is what remains true.

## 4. Where code and documentation differ

- `session_logout`: the documentation of `/auth/delete_session` says that the
  session is invalidated. `resolve_session_address` may have read the row before
  the logout, or on a replica that is behind, and re-caches it with the full
  TTL; requests are then served after the logout was answered.
- `api_keys_max`: at most five keys per account. The count runs on the replica
  and the INSERT on the primary in a statement of its own, without a constraint.
- `chart_key`: `chart_type` chooses the chart. The Redis key of a chart has token,
  resolution, from and to, but neither the chart type nor `countback`
  (`db/redis/mod.rs:714`), so a copy of another type is served for as long as it
  lives. The in-process key has both.
- `search_key`: tokens are found by their address. The in-process key is trimmed and
  lower-cased and the pattern is analysed trimmed, but the statements bind the
  query as it came (`controllers/search/mod.rs:46,179-187,313,368`): a padded
  address finds nothing, and that is what the address itself is answered for as
  long as the entry lives.

Others met on the way, without a run of their own:

- Rate limit: 10 and 100 requests per minute (`docs/api-key.md:13-14`). The counter of
  a minute lives two minutes from its EXPIRE (`rate_limiter.rs:36` says for
  safety); an INCR that is stuck longer, which no timeout prevents, starts it
  again at 1 and passes. What remains true is `AtMostLimit`.
- Feed: /events has all events of the range (`TERMINAL_API.md:221`). A swap with an
  amount of zero (a sale that rounds down to nothing) makes `convert_swap_event`
  divide by zero (`services/terminal/mod.rs:316-320`) and panic: no range with its
  block is ever answered, and the other events of that block are lost to the
  client. `FeedPaged` and `PairsResolve` say what remains true.
- Search: `limit` items per page (`docs/search-api.md:39`). Only an answer from Redis
  is cut into pages; a fresh one is returned whole
  (`services/search/mod.rs:31-41`), which `SearchFinds` allows.
- Trend: `docs/trend-api.md:245` says that inserting a list invalidates the cache.
  Only the in-process entries of one server are removed; Redis keeps `trend:all`,
  other servers their copies, and a load in progress stores the old list again.
  Two replacements that overlap may leave rows of both lists: `NewestListStands`
  says what stays true.
- Profile: `docs/account-api.md:64-74` shows the new values in the answer of PATCH.
  The statement's SELECT sees the row as it was before its UPDATE, so the old
  profile is answered, and written to Redis. The same snapshot makes the first GET
  of an unknown account fail although its row was inserted. Redis `account:info`
  is written and never read.
- Wallets: a wallet must be one of the names `METAMASK`, `KEPLR`, ...
  (`types/account/mod.rs:27`) and parse as an EVM address
  (`services/account/mod.rs:69`); none does, so no registration succeeds.
- Leaderboard: `ROW_NUMBER()` counts over the whole table and the offset is added
  to it once more (`controllers/leaderboard/mod.rs:117`): ranks jump after page 1.
- Order lists have no tie-breaker, so rows with equal keys may repeat or be missing
  across pages (`PagesAddUp` claims order lists without ties only), and their total
  counts tokens that are in no list; `order.rs:430` says so. The price of a day ago
  is ordered without the block number there, and with it in the metrics: the two
  agree when no second holds prices of two blocks (`OneBlockASecond`).
- Search: the two halves of an answer are set "atomically" (`db/redis/mod.rs:257`) by
  a pipeline without MULTI. An address that begins with 0X is searched for as a word.
- Metrics: the batch is sorted by names its items never have, so they keep the
  order of the request.
- `incr_with_expire` is called atomic but is INCR followed by EXPIRE (a lost
  request leaves a counter without TTL; `AtMostLimit` and `RefusedOnlyBeyondLimit`
  hold all the same, because the key names its minute).
- The README gives seven days for the session cookie, `router/auth/handler.rs` sets
  one; `services/auth/docs.md` puts the nonce in Redis, the code in Postgres.

## 5. The proofs

All proofs hold for every value of the constants, under the named ASSUMEs of
the modules only: sizes are natural numbers, `None`, `Absent` and `NoIdentifier` are
none of the values, addresses are numbers, finitely many, and the quote is no token
(`AddressAssumption`), the volume ranges follow each other (`VolumeAssumption`,
`types/trading/swap_history.rs:28`), the bounds of the statements are numbers
(`BoundAssumption`, `RangeAssumption`), pages and lengths asked for are integers
(`AskedAssumption`), a text that holds the padded word holds the word
(`PaddingAssumption`, `WordsAssumption`), there are finitely many servers
(`UsageAssumption`). None of them bounds when a command of the gate runs.

**NonceProofs.** `NonceUsedOnce` alone is not inductive: one has to know where a
message can be. `IInv` says that a message is on its way at most once and to the
address it was issued for (`FeedOK`), that a stored message has left the feed
(`TableOK`), that an accepted login's message is neither stored nor on its way,
and that under `LagBounded` a login that slept has its message behind it
(`LoginOK`), and that abandoned DELETEs carry what a login that gave up had
signed (`OrphansOK`, for `TakeIsSelective`). From it: `TypeCorrect`,
`NonceOnce`, `SignerIsOwner`, `RetryRecovers`, `TakeIsSelective`, and
`Refinement`: `Spec => OTG!Spec`, where an accepting `TryTake` maps to a grant
and every other action to an issue or a stutter.

**SaltMiningProofs.** `FailsOnlyIfNone` needs the history of each closure:
every index before its position was tried without a hit (`TriedOK`); a closure
that ended before its border did so because something was found, and what was
found is in the mutex or about to be (`EndsOK`); the result is read when all
have ended (`PhaseOK`). The arithmetic lemma under it is that the chunks cover
the range. `ResultIsFrozen` follows because a closure that could still store has
not ended. `Refinement` maps the answer to the step of `AnyMatch`.

**RateLimiterProofs.** The counting argument: every number from 1 to the value of
a counter was told to some request of its window and life (`ToldOK`), none twice
to requests whose INCR ran in their minute or the next (`Timely`, `DistinctOK`), so
of those as many are allowed in a window as there are numbers up to the limit.
`WindowOK` and `TTLOK` say why the counter does not restart before the next minute
is over: its TTL of two minutes outlasts both. INCRs that run later are in the
model like all others; they may start the counter again, but then no timely one can
follow. A flush starts a new life of the counter, and the limit
holds per life.

**ResponseCacheProofs.** `BoundedStaleness` needs the age of the data at every
stop: entries die at most one lifetime after the data entered (`EntriesBounded`),
queries and SETs are within their deadlines (`QueriesBounded`, `SetsBounded`).
`LeaderRuns`, `LoadIsLed` and `WaitLed` tie the single-flight leader to a request
that is in its load, which gives `NoLostWaiter`.

**CmsMetadataProofs.** `IInv` follows a uri from its upload: a verdict is known
and the image stored before Redis repeats the verdict (`ImagesOK`), a request
writes exactly what it validated and in the order object, row (`RequestsOK`), a
token on chain comes from an answered request (`TokensOK`), a draft names a
stored image (`EditsOK`). From it `TypeCorrect`, `NoDanglingUri`,
`VerdictIsTheImages`, and, looking at the three actions that write the row,
`FlagIsTheAdmins` and `TextsAreKept`. `EditRepairs` needs `SyncOK` on top: of a
token whose edits never overlapped there is at most one that may still write,
texts are only added to its object, and between put and UPDATE the draft is the
object; then COALESCE cannot pick an old text, and the row becomes the object.

**SessionProofs.** Why a request acts for its own account: a login gets its address
once and keeps it (`LoginsBegun`, `LoginsStay`); every store, and every change on
its way to the replica, holds an id only at the account of its login
(`StoredAtOwner`); a request has the cookie of a completed login (`CookiesGiven`).
None of these is inductive alone: `Recache` writes Redis what the request resolved,
so `StoredAtOwner` needs `ServedAsOwner` and the reverse. Together they are, which
gives `TypeCorrect` and `ActsForOwner`; `NewerSessionStays` follows by looking at
the two actions that change a row of the primary.

**ApiKeysProofs.** `StoredKeysIssued` says that rows, changes on their way and
Redis copies are of issued keys, and `CheckedKeysLive` that a request past the check
of `expires_at` holds a key that was alive when it arrived, while before the
check a key that was dead then is dead now, because expiry is never undone. From
them `AcceptsLiveKeysOnly`.

Of the usage, `UsageInv` joins both counts: what is on its way, in Redis, in the
hand of a sync loop and in the row is at most the number of uses
(`NeverOvercounts`), and equal to it while nothing has failed
(`ExactWithoutFault`). Neither is inductive without `UsageSteps`: only a server
between its GETSET and its UPDATE has something in hand, else the same count
would be written twice; and a key whose usage is removed has no row, else its
count would be lost. What all servers have in hand is a set of pairs (server,
n) rather than a sum, so that the finite-set theorems of the library count it:
GETSET moves pairs in, UPDATE moves them out (`InHandTaken`, `InHandGone`).

**MarketProofs.** The queries are operators over the tables, so their theorems
rest on what the tables can be. `DbInv` has four parts, each needed by the next:
`TablesOK` (a pool belongs to a market in it, no reserve or balance below zero),
`SharesCounted` (the supply of a pool is two shares of its creator and those of
the accounts, one by one; without it a burn could take the supply below zero),
`RowsOK` (a row names a market or a pool that stands and lies before the row to
come) and `LastReserves` (the newest row of a pool carries its reserves). From it:

- `FeedStands` (`FeedFrozen`): the events are those of the rows of the blocks asked
  for (`EventRows`), a new row belongs to the block in the making (`RowsGrow`), and
  a market in a pool stays there (`PoolsStay`), so no step adds to a sealed block.
  The latest block is the greatest of a set of blocks that only grows
  (`LatestBlockFound`, from the well-foundedness of the naturals).
  Whether a block has an answer depends on the same rows (`UnpricedRows`).
- `FeedIsComplete` (`FeedPaged`): asking block by block is asking for all blocks
  because events of one block are in line before those of the next, and no two
  events share a transaction (`FeedUpTo`, with `OneRowATx`); a trade without a price
  lies in one block, and withholds exactly the ranges with it (`UnpricedByBlock`).
- `EventsResolve` (`PairsResolve`): an event that is delivered comes from a row of a
  pool whose price does not fail (`DeliveredEvents`, `DeliveredLegs`), and every row
  of a pool is an event (`EventsHaveRows`, `RowsHaveEvents`); the rest is
  `LastReserves`, seen by asset (`ReservesByAsset`).
- `KeysAreSafe` (`KeysSeparate`): a key begins with its endpoint, and within an
  endpoint equal keys have equal parameters wherever the answer depends on them;
  for searches in the process that is so as long as nobody pads.
- `RowsAreApart`: price_history is in the order of the chain and the last row of a token
  is the price of its market (`PricesInOrder`), a transaction makes one event
  (`OneRowATx`), nobody holds a token before it has a market (`NoneUnlisted`). Each is
  inductive given `DbInv`; `DbInv` does without them, the two results below do not.
- `PagesAreComplete` (`PagesAddUp`). A finite set has one list in the order of a strict
  line (`SortedExists`, `SortedOnce`), so ORDER BY with an id behind it names one
  list (`RankedRows`) and ORDER BY alone at least one (`OrdersExist`). The pages of
  `PageOf` lie one after the other (`PagesPartition`), and put together with
  `FlattenSeq` they are the list (`PagesMakeList`), which holds each element of
  its set once (`ListedOnce`). What is left for each list is that its total is
  the size of that set, also where the total is left out for an empty page
  (`CountOfPage`).
- `AnswersAreOne` (`ListsAgree`): pages as long as the list are the list
  (`WholePage`), which turns positions, histories and the most held tokens into
  equations between sets; volumes are sums over disjoint sets (`Volumes`); the
  metrics order prices by block and transaction, the order list by second and
  transaction, the chart by second, and `PricesInOrder` with at most one block a
  second makes the three name the same row (`EndsOfPrices`, `LastCandle`). That the
  pool covers the shares of all its holders is `PartsOfWhole`: parts rounded down
  add up to no more than the whole.
- Weaker forms that say the same of any period, filter or direction, not only of
  those the endpoints are compared by: `OrdersAreComplete`, `CountsAgree`,
  `MetricsAreCounted`, `PositionsAreBacked`.
- `WrittenFieldsStand` (`ProfileStands`) is inductive given the types: an insertion
  writes only where no row is, an edit only the fields it was sent.
- `LastListStands` (`NewestListStands`) needs that no row is newer than the newest
  commit (`BornBefore`), for then a statement that nothing overlapped sees and
  removes every other row; and that a token has one position in a list
  (`ListPositions`), so that `display_order` is that position.
- `TypeCorrect` and `ServerHolds` carry all of this to the specification that `market`
  checks: a behaviour of it is one of each part (`PartsAlone`). The chart cache
  needs that a client which has asked for a chart holds a computed one of a chart type
  (`ChartsInv`).

The inductive invariants of `Nonce`, `CmsMetadata`, `RateLimiter` and `SaltMining` are in the
modules, the others in the proof modules.

Two definitions of the community modules are recursive: `FlattenSeq` and the fold
under `SumFunctionOnSet`. The induction theorems of the library take an operator
as a parameter, which the provers cannot instantiate, so both are reached through
sets instead. Of `FlattenSeq`, a function of the number of parts is given that
meets the same equations, and the least number at which the two would differ is
refuted (`FlattenOf`). A sum is the number of pairs (element, unit) with as many
units as the element's value (`Units`, `SumOfUnits`), and "every finite set has a
property" is said of the set of subsets that have it (`FiniteSteps`); sums then
split and grow as cardinalities do (`SumSplit`, `SumGrows`).

**Only model-checked:** the five liveness properties (`EveryLoginAnswered`,
`EverySearchEnds`, `EndedSessionsDie`, `RevokedKeyDies`, `UsageIsDrained`),
because fairness is out of the prover's reach, and `SearchFinds`. Every other
invariant and every action property of a passing run is a theorem.

## 6. Not modelled, and why

- The durations of the TTLs outside `RateLimiter` and `ResponseCache`: a TTL may
  run out at any moment, which is more behaviours, not fewer.
- `last_used_at`: decides nothing.
- A count that is itself cached inside a cached list (`swap_history`, created
  tokens): its data can be one in-process lifetime older than `BoundedStaleness`
  says for a list.
- The deletes of a logout run while the logout waits for them, or never; in the
  code an abandoned one may run later, which ends the same session later.
- Failures of a Redis GET are treated as misses, as the services do.
- Wallets: registration never succeeds (section 4), so GET /account/wallet has
  only rows of other origin to read.
- The upload of a profile image puts an object under a fresh uuid; no row names it
  until a PATCH does, and nothing checks that a PATCH names a stored one.
- `valid_existing_token_id`, which refuses unknown tokens before a handler runs: its
  key is among those of `CachedReads`, its steps are not modelled. It keeps only
  positive answers and lets every token pass when the database fails, and the reads
  are checked for listed tokens.
- The trend list in `CachedReads`: it has one key, `trend:all`, for its one request.
  A search for nothing but blanks, which is answered before any cache is asked.
- The /agent handlers: they call the services modelled here, behind the gate.
- In the queries: USD prices, fees, volumes and all-time highs of a market row, texts
  and images, and the similarity by which a search ranks nicknames (any of the
  best may be returned). Decimal amounts are integers, so the truncation of
  `to_truncated_string` is not seen.
- `(page - 1) * limit` of a huge page: the product of two unbounded i64 may
  overflow; pages are small here.
- Image formats, moderation labels and thresholds, the bounds of the metadata
  fields: a request is accepted or refused, freely. The image of an admin edit is
  not moderated by the code, and `is_nsfw` of the R2 object stays what it was
  when `set_nsfw` changes the row.
- The token row is read through caches (`token_metadata:{id}`); how old such an
  answer can be is `ResponseCache`'s subject.
- Metrics, logging, OpenAPI, routing, CORS, health, configuration: no state that
  a property would be about, except where listed in the plan.
- Postgres, Redis, moka, rayon and R2 themselves: modelled only through how the
  code uses them.

## 7. What could come next

1. `Gate`: `api_key_gate` as the composition of path rules, `ApiKeys` and
   `RateLimiter`: which requests are counted, and under which identifier.
2. The existence check of tokens (`valid_existing_token_id`) in front of the reads,
   with tokens that the indexer has and a replica or a cache does not have yet.
3. `RequestRules`: bounds of request types, CORS and origin rules, image types.
